--------------------------- MODULE StoreProperties ---------------------------
(***************************************************************************)
(* What the transactions of ExperimentStore guarantee together, for any    *)
(* number of controllers calling them in any order.                        *)
(***************************************************************************)
EXTENDS ExperimentStore

\* The official-validation metric exists only for the experiment discovery was
\* closed on, at most once for the run, and the count agrees with the rows:
\* record_metrics, lock_validation_finalist and the official rung's transitions
\* cannot be interleaved into a second official evaluation.
OfficialBoundToFinalist ==
    LET evaluated == {e \in Exp : officialMetric[e] # None}
    IN  /\ evaluated \subseteq {finalist}
        /\ officialCount = Cardinality(evaluated)
        /\ \A e \in Exp : Key("official-valid-running") \in journal[e] => e = finalist

\* The search champion is the baseline or an experiment that was promoted as
\* the run's evaluated finalist, with its recorded official score as the best
\* score, above the baseline's; no other experiment is PROMOTED
\* (promote_search_candidate against lock_validation_finalist and
\* record_metrics).
ChampionEarnedIt ==
    /\ champion \in {None, BaselineId} =>
         /\ \A e \in Exp : state[e] # "PROMOTED"
         /\ bestUnits = (IF champion = None THEN None ELSE BaselineUnits)
    /\ champion \in Exp =>
         /\ champion = finalist
         /\ phase = "OFFICIAL_EVALUATED"
         /\ bestUnits = officialMetric[champion]
         /\ bestUnits > BaselineUnits
         /\ \A e \in Exp : state[e] = "PROMOTED" <=> e = champion

\* The shadow champion holds the best score of all supported shadow
\* evaluations, in whatever order record_shadow_evaluation was called.
ShadowChampionIsBest ==
    LET supported == {e \in Exp : shadow[e] # None /\ shadow[e].supported}
    IN  /\ shadowChampion = None <=> supported = {}
        /\ shadowChampion # None =>
             /\ shadowChampion \in supported
             /\ shadowBest = shadow[shadowChampion].primary
             /\ \A e \in supported : shadow[e].primary <= shadowBest

\* While discovery is open every hypothesis lengthens the non-improvement
\* streak at most once, though a full-shadow rejection runs two counting
\* transactions (record_shadow_evaluation, then reject_candidate).
StreakCountsHypothesesOnce ==
    phase = "DISCOVERY" =>
        streak <= Cardinality({e \in Exp : \/ shadow[e] # None
                                           \/ outcome[e] = "rejected_before_official"})

\* In discovery the store declares a plateau only on evidence from enough
\* distinct families (record_shadow_evaluation and reject_candidate work with a
\* family count their caller took earlier).
DiscoveryPlateauIsDiverse ==
    phase = "DISCOVERY" /\ stopReason = "epsilon_plateau"
        => Cardinality(ValidFamilies) >= MinFamilies

\* EXPERIMENT_TRANSITIONS of rex/control/state_machine.py, for the states
\* production runs reach.
LegalNext(s) ==
    CASE s = "PROPOSED" -> {"WORKTREE_READY", "REJECTED", "ABANDONED"}
      [] s = "WORKTREE_READY" -> {"PATCHED", "FAILED_REPAIRABLE", "REJECTED"}
      [] s = "PATCHED" -> {"STATIC_VALID", "FAILED_REPAIRABLE", "REJECTED"}
      [] s = "STATIC_VALID" -> {"FIXTURE_VALID", "FAILED_REPAIRABLE", "REJECTED"}
      [] s = "FIXTURE_VALID" -> {"CHEAP_RUNNING", "FAILED_REPAIRABLE", "REJECTED"}
      [] s = "CHEAP_RUNNING" -> {"CHEAP_COMPLETE", "FAILED_REPAIRABLE", "FAILED_FINAL"}
      [] s = "CHEAP_COMPLETE" -> {"FULL_RESERVED", "REJECTED", "ABANDONED"}
      [] s = "FULL_RESERVED" -> {"FULL_RUNNING", "FAILED_FINAL"}
      [] s = "FULL_RUNNING" -> {"FULL_COMPLETE", "FAILED_REPAIRABLE", "FAILED_FINAL"}
      [] s = "FULL_COMPLETE" -> {"DIAGNOSED", "FAILED_FINAL"}
      [] s = "DIAGNOSED" -> {"OFFICIAL_VALID_RUNNING", "CONFIRMING", "REJECTED",
                             "ABANDONED"}
      [] s = "OFFICIAL_VALID_RUNNING" ->
           {"OFFICIAL_VALID_COMPLETE", "FAILED_REPAIRABLE", "FAILED_FINAL", "ABANDONED"}
      [] s = "OFFICIAL_VALID_COMPLETE" -> {"PROMOTED", "REJECTED", "ABANDONED"}
      [] s = "FAILED_REPAIRABLE" -> {"REPAIRING", "FAILED_FINAL", "ABANDONED"}
      [] s = "REPAIRING" -> {"PATCHED", "CHEAP_RUNNING", "FULL_RUNNING",
                             "OFFICIAL_VALID_RUNNING", "FAILED_FINAL"}
      [] OTHER -> {}

\* No call production code makes asks for a transition the table forbids, so
\* IllegalTransition is never raised, and the states that end an experiment are
\* final for every controller.
OnlyLegalTransitions ==
    [][\A e \in Exp : state'[e] # state[e] =>
         \/ state[e] = "NONE" /\ state'[e] = "PROPOSED"
         \/ state'[e] \in LegalNext(state[e])]_storeVars

\* The experiments whose official result has been recorded.
OfficiallyMeasured == {e \in Exp : officialMetric[e] # None}

Phase == INSTANCE ValidationPhase
         WITH Candidates <- Exp, consumed <- OfficiallyMeasured

\* The one-way validation lifecycle of the ValidationPhase docstring: the store
\* implements it step by step.
ValidationIsOneWay == Phase!Spec

=============================================================================
