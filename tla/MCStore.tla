------------------------------- MODULE MCStore -------------------------------
(* Model values and small functions for checking ExperimentStore. *)
EXTENDS StoreTheorems

\* The first experiment belongs to one family, any other to a second one.
MCFamily == [e \in Exp |-> IF e <= 1 THEN "loss" ELSE "features"]

\* Metric units: a regression, a gain within the tolerance and one beyond it.
MCScores == {-1, 1, 3}

=============================================================================
