----------------------------- MODULE MCSupervisor -----------------------------
(* Small functions for checking ProductionSupervisor. *)
EXTENDS SupervisorProperties

MCFamily == [e \in Exp |-> IF e <= 1 THEN "loss" ELSE "features"]
MCScores == {-1, 1, 3}
TwoScores == {-1, 3}
OneScore == {3}

=============================================================================
