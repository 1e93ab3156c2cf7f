------------------------- MODULE SupervisorProperties -------------------------
(***************************************************************************)
(* What a run driven by ProductionSupervisor guarantees.                   *)
(***************************************************************************)
EXTENDS ProductionSupervisor, StoreProperties

\* The finalist discovery closes on is the shadow champion: no supported
\* evaluation beats it, though _lock_shadow_finalist reads the champion and the
\* candidates before the transaction that locks one of them.
FinalistIsShadowChampion == finalist # None => finalist = shadowChampion

\* Types, and: when the search is over the finalist and every failed or rejected hypothesis
\* is terminal and a failed one has been counted, wherever controllers were
\* killed (_resume_active, _count_failed_transaction).  A diagnosed candidate
\* that lost may be left as it is, but only once the finalist has been judged.
SearchEndsSettled ==
    /\ SupTypeOK
    /\ runState \in {"FINALIZING", "COMPLETE"} =>
         \A e \in 1..hypotheses :
             /\ \/ state[e] \in Terminal
                \/ state[e] = "DIAGNOSED" /\ e # finalist /\ phase = "OFFICIAL_EVALUATED"
             /\ state[e] = "FAILED_FINAL" => outcome[e] = "invalid_failure"

\* Discovery, once closed, stays closed: no new hypothesis, no new shadow
\* evaluation, and the rungs that feed selection are not run again.
DiscoveryStaysClosed ==
    [][phase # "DISCOVERY" =>
         /\ hypotheses' = hypotheses
         /\ <<shadow, fullResult, cheapResult>>' = <<shadow, fullResult, cheapResult>>]_supVars

\* The bundle on disk is the champion the completed run ended with, and the
\* champion does not change after it is sealed (_finalize, resumed or not).
SealedIsChampion ==
    sealed # None => runState = "COMPLETE" /\ sealed = champion

\* Two controllers that both believe they own the run never have two repairs of
\* one experiment under way; a repair that is complete has left its revision, and
\* the effective revision is never that of an overtaken repair
\* (reserve_experiment_repair, apply_experiment_repair_revision,
\* complete_experiment_repair).
OneRepairAtATime ==
    \A e \in Exp :
        /\ Cardinality({n \in 1..reserved[e] : n \notin repairDone[e]}) <= 1
        /\ \A n \in repairDone[e] : repairFor[e][n].status \in Revising => n \in revised[e]
        /\ \A n \in revised[e] : n <= revision[e]

\* The controllers together implement the store's transactions: no caller ever
\* relies on a fact the store specification does not let it rely on.
ImplementsStore == StoreSpec

Concluded == runState = "BASELINE_BLOCKED" \/ (runState = "COMPLETE" /\ sealed # None)

\* The dead ends: an official verdict that rejects the locked finalist
\* (reject_non_improving), a failure whose latest reservation is spent, and a
\* rung a worker of which was interrupted, its durable result raised again by
\* every resume (_handle_failure).
VerdictWithoutPhase == phase = "FINALIST_LOCKED" /\ state[finalist] = "REJECTED"
SpentReservation ==
    \E e \in Exp :
        /\ state[e] = "FAILED_REPAIRABLE"
        /\ reserved[e] > 0
        /\ RepairKey("repairing", reserved[e]) \in journal[e]
InterruptedRung ==
    \E e \in Exp, r \in Rungs : state[e] = RunningState(r) /\ Attempt(e, r) \in interrupted


=============================================================================
