--------------------------- MODULE ExperimentStore ---------------------------
(***************************************************************************)
(* The durable state of one production run, as rex/store/repository.py     *)
(* keeps it in SQLite, and the transactions production code runs on it.    *)
(* Every repository method is one BEGIN IMMEDIATE transaction, so every    *)
(* method is one action here.  StoreSpec lets any number of controllers    *)
(* call the methods in any order: an action's guard holds the conditions   *)
(* the transaction tests itself, and besides them only facts a caller has  *)
(* read from durable state that never becomes false again (a journalled    *)
(* transition, a stored rung result).  What StoreSpec satisfies therefore  *)
(* holds across crashes, restarts and a live controller that lost its      *)
(* lease to another one.                                                   *)
(*                                                                         *)
(* A call that raises, and a replay the code answers with "idempotent",    *)
(* change nothing; they are stuttering steps.                              *)
(*                                                                         *)
(* An operator introduced as a slip is not part of the model: it is a      *)
(* plausible bug in the definition that follows it, which the properties   *)
(* are expected to notice.                                                 *)
(***************************************************************************)
EXTENDS Integers, FiniteSets

CONSTANTS
    NumCards,       \* search cards; the i-th hypothesis is experiment i
    Family,         \* the research family of each experiment's card
    MaxHypotheses,  \* BudgetConfig.max_hypotheses
    MaxOfficial,    \* BudgetConfig.max_official_evaluations
    MaxRepairs,     \* BudgetConfig.max_repairs_per_experiment
    Patience,       \* BudgetConfig.convergence_patience
    MinFamilies,    \* BudgetConfig.min_valid_families_before_plateau
    Epsilon,        \* BudgetConfig.convergence_epsilon_units
    BaselineUnits,  \* primary score of the verified baseline, in metric units
    Scores,         \* primary scores, in metric units, a rung can produce
    Statuses,       \* AttemptStatus values a rung can fail with
    BaselineId,     \* the experiment id 'baseline'
    None            \* SQL NULL

Exp == 1..NumCards

ASSUME StoreAssumption ==
    /\ NumCards \in Nat
    /\ MaxHypotheses \in Nat /\ MaxOfficial \in Nat /\ MaxRepairs \in Nat
    /\ Patience \in Nat /\ MinFamilies \in Nat /\ Epsilon \in Nat
    /\ BaselineUnits \in Int /\ Scores \subseteq Int
    /\ None \notin Int /\ BaselineId \notin Int /\ BaselineId # None

VARIABLES
    runState, stopReason, hypotheses,        \* runs
    phase, finalist, officialCount,          \* runs: the validation phase
    bestUnits, champion,                     \* runs: the search champion
    shadowBest, shadowChampion, streak,      \* runs: shadow and convergence
    state, journal, failure,                 \* experiments, transitions
    cheapResult, fullResult, officialResult, \* production_*_result artifacts
    officialMetric,                          \* metrics, split 'valid'
    shadow,                                  \* shadow_evaluations
    outcome,                                 \* convergence_transactions
    reserved, repairFor, repairDone,         \* experiment_repairs
    revised, revision                        \* repair revisions, commit_sha

runVars == <<runState, hypotheses>>
validationVars == <<phase, finalist, officialCount, officialMetric>>
incumbentVars == <<bestUnits, champion>>
shadowVars == <<shadowBest, shadowChampion, shadow>>
convergenceVars == <<streak, stopReason, outcome>>
rowVars == <<state, journal>>
resultVars == <<cheapResult, fullResult, officialResult>>
repairVars == <<reserved, repairFor, repairDone, revised, revision>>
storeVars == <<runVars, validationVars, incumbentVars, shadowVars,
               convergenceVars, rowVars, failure, resultVars, repairVars>>

-----------------------------------------------------------------------------
(* Vocabulary *)

RunStates == {"ABSENT", "INITIALIZING", "BASELINE_VERIFYING", "SEARCHING",
              "FINALIZING", "COMPLETE", "BASELINE_BLOCKED"}
Phases == {"DISCOVERY", "FINALIST_LOCKED", "OFFICIAL_EVALUATED"}
Rungs == {"cheap", "full", "official_valid"}
Terminal == {"PROMOTED", "REJECTED", "ABANDONED", "FAILED_FINAL"}
ExperimentStates ==
    Terminal \cup
    {"NONE", "PROPOSED", "WORKTREE_READY", "PATCHED", "STATIC_VALID",
     "FIXTURE_VALID", "CHEAP_RUNNING", "CHEAP_COMPLETE", "FULL_RESERVED",
     "FULL_RUNNING", "FULL_COMPLETE", "DIAGNOSED", "OFFICIAL_VALID_RUNNING",
     "OFFICIAL_VALID_COMPLETE", "FAILED_REPAIRABLE", "REPAIRING"}
StopReasons == {"epsilon_plateau", "hypothesis_cap", "official_evaluation_cap",
                "finalization_reserve_reached", "baseline_rejected",
                "eligible_method_queue_exhausted", "official_finalist_evaluated",
                "locked_official_finalist_failed"}
Outcomes == {"rejected", "rejected_before_official", "invalid_failure",
             "promoted", "official_rejected"}

\* The state of an experiment that is running rung r.
RunningState(r) == CASE r = "cheap" -> "CHEAP_RUNNING"
                     [] r = "full" -> "FULL_RUNNING"
                     [] r = "official_valid" -> "OFFICIAL_VALID_RUNNING"

\* The idempotency keys of an experiment's transitions: a plain step, a step
\* numbered by the repairs used when a rung failed, a step of one repair.
RungKeys == [step : {"failure", "failed-final"}, rung : Rungs, n : 0..MaxRepairs]
RepairKeys == [step : {"repairing", "completed", "repair-failed"},
               rung : {"any"}, n : 1..MaxRepairs]
PlainSteps == {"worktree-ready", "patched", "static-valid", "fixture-valid",
               "preparation-abandoned", "cheap-running", "cheap-complete",
               "cheap-rejected", "full-reserved", "full-running",
               "full-complete", "full-rejected", "diagnosed",
               "official-valid-running", "official-valid-complete",
               "official-valid-rejected", "search-promotion",
               "non-finalist-abandoned", "not-locked-finalist"}
PlainKeys == [step : PlainSteps, rung : {"any"}, n : {0}]
Keys == PlainKeys \cup RungKeys \cup RepairKeys

Key(step) == [step |-> step, rung |-> "any", n |-> 0]
RungKey(step, r, used) == [step |-> step, rung |-> r, n |-> used]
RepairKey(step, number) == [step |-> step, rung |-> "any", n |-> number]

FullResults == [primary : Scores, supported : BOOLEAN]
\* A failed rung; a repair reservation names the failure it answers.
Failures == [rung : Rungs, status : Statuses]

OfficialResults == [primary : Scores, safe : BOOLEAN]

\* NULL is no row.
ASSUME NullAssumption ==
    None \notin Failures \cup FullResults \cup OfficialResults \cup StopReasons
             \cup Outcomes

\* Families with a durable full-shadow result (_valid_family_count).
ValidFamilies == {Family[e] : e \in {x \in Exp : fullResult[x] # None}}

\* A slip: a plateau without evidence from enough families.
PlateauOnStreakAlone(newStreak, eligible) ==
    IF newStreak >= Patience THEN "epsilon_plateau" ELSE stopReason

\* A rejected or unimproved hypothesis extends the streak; a stop reason once
\* written is only ever replaced by another one.
Plateau(newStreak, eligible) ==
    IF eligible /\ newStreak >= Patience THEN "epsilon_plateau" ELSE stopReason

TypeOK ==
    /\ runState \in RunStates
    /\ stopReason \in StopReasons \cup {None}
    /\ hypotheses \in 0..NumCards
    /\ phase \in Phases
    /\ finalist \in Exp \cup {None}
    /\ officialCount \in Nat
    /\ bestUnits \in Int \cup {None}
    /\ champion \in Exp \cup {None, BaselineId}
    /\ shadowBest \in Int \cup {None}
    /\ shadowChampion \in Exp \cup {None}
    /\ streak \in Nat
    /\ state \in [Exp -> ExperimentStates]
    /\ journal \in [Exp -> SUBSET Keys]
    /\ failure \in [Exp -> Failures \cup {None}]
    /\ cheapResult \in [Exp -> {"pass", "fail"} \cup {None}]
    /\ fullResult \in [Exp -> FullResults \cup {None}]
    /\ officialResult \in [Exp -> OfficialResults \cup {None}]
    /\ officialMetric \in [Exp -> Scores \cup {None}]
    /\ shadow \in [Exp -> FullResults \cup {None}]
    /\ outcome \in [Exp -> Outcomes \cup {None}]
    /\ reserved \in [Exp -> 0..MaxRepairs]
    /\ repairFor \in [Exp -> [1..MaxRepairs -> Failures \cup {None}]]
    /\ repairDone \in [Exp -> SUBSET (1..MaxRepairs)]
    /\ revised \in [Exp -> SUBSET (1..MaxRepairs)]
    /\ revision \in [Exp -> 0..MaxRepairs]

StoreInit ==
    /\ runState = "ABSENT" /\ stopReason = None /\ hypotheses = 0
    /\ phase = "DISCOVERY" /\ finalist = None /\ officialCount = 0
    /\ bestUnits = None /\ champion = None
    /\ shadowBest = None /\ shadowChampion = None /\ streak = 0
    /\ state = [e \in Exp |-> "NONE"]
    /\ journal = [e \in Exp |-> {}]
    /\ failure = [e \in Exp |-> None]
    /\ cheapResult = [e \in Exp |-> None]
    /\ fullResult = [e \in Exp |-> None]
    /\ officialResult = [e \in Exp |-> None]
    /\ officialMetric = [e \in Exp |-> None]
    /\ shadow = [e \in Exp |-> None]
    /\ outcome = [e \in Exp |-> None]
    /\ reserved = [e \in Exp |-> 0]
    /\ repairFor = [e \in Exp |-> [n \in 1..MaxRepairs |-> None]]
    /\ repairDone = [e \in Exp |-> {}]
    /\ revised = [e \in Exp |-> {}]
    /\ revision = [e \in Exp |-> 0]

-----------------------------------------------------------------------------
(* The run row *)

CreateRun ==
    /\ runState = "ABSENT"
    /\ runState' = "INITIALIZING"
    /\ UNCHANGED <<hypotheses, validationVars, incumbentVars, shadowVars,
                   convergenceVars, rowVars, failure, resultVars, repairVars>>

TransitionRun(expected, next, reason) ==
    /\ runState = expected
    /\ runState' = next
    /\ stopReason' = IF reason = None THEN stopReason ELSE reason
    /\ UNCHANGED <<hypotheses, validationVars, incumbentVars, shadowVars, streak,
                   outcome, rowVars, failure, resultVars, repairVars>>

EstablishBaseline ==
    /\ champion = None
    /\ runState = "BASELINE_VERIFYING"
    /\ bestUnits' = BaselineUnits
    /\ champion' = BaselineId
    /\ UNCHANGED <<runVars, validationVars, shadowVars, convergenceVars,
                   rowVars, failure, resultVars, repairVars>>

-----------------------------------------------------------------------------
(* Experiments and their transitions *)

CreateExperiment(e) ==
    /\ champion # None
    /\ e = hypotheses + 1
    /\ hypotheses < MaxHypotheses
    /\ hypotheses' = e
    /\ state' = [state EXCEPT ![e] = "PROPOSED"]
    /\ UNCHANGED <<runState, validationVars, incumbentVars, shadowVars,
                   convergenceVars, journal, failure, resultVars, repairVars>>

\* A slip: no compare-and-set on the state.
MoveUnchecked(e, expected, next, key) ==
    /\ key \notin journal[e]
    /\ state' = [state EXCEPT ![e] = next]
    /\ journal' = [journal EXCEPT ![e] = @ \cup {key}]

\* What every state change of an experiment does to its row and its journal:
\* compare-and-set on the state, and at most once for each idempotency key.
Move(e, expected, next, key) ==
    /\ key \notin journal[e]
    /\ state[e] = expected
    /\ state' = [state EXCEPT ![e] = next]
    /\ journal' = [journal EXCEPT ![e] = @ \cup {key}]

TransitionExperiment(e, expected, next, key) ==
    /\ Move(e, expected, next, key)
    /\ UNCHANGED <<runVars, validationVars, incumbentVars, shadowVars,
                   convergenceVars, failure, resultVars, repairVars>>

\* The safety gates of _prepare_candidate and _resume_preparation, in order.
PrepareStep(e) ==
    \/ TransitionExperiment(e, "PROPOSED", "WORKTREE_READY", Key("worktree-ready"))
    \/ TransitionExperiment(e, "WORKTREE_READY", "PATCHED", Key("patched"))
    \/ TransitionExperiment(e, "PATCHED", "STATIC_VALID", Key("static-valid"))
    \/ TransitionExperiment(e, "STATIC_VALID", "FIXTURE_VALID", Key("fixture-valid"))

AbandonPreparation(e) ==
    TransitionExperiment(e, "PROPOSED", "ABANDONED", Key("preparation-abandoned"))

StartCheap(e) ==
    TransitionExperiment(e, "FIXTURE_VALID", "CHEAP_RUNNING", Key("cheap-running"))

CompleteCheap(e) ==
    /\ cheapResult[e] # None
    /\ TransitionExperiment(e, "CHEAP_RUNNING", "CHEAP_COMPLETE", Key("cheap-complete"))

ReserveFull(e) ==
    /\ cheapResult[e] = "pass"
    /\ TransitionExperiment(e, "CHEAP_COMPLETE", "FULL_RESERVED", Key("full-reserved"))

StartFull(e) ==
    TransitionExperiment(e, "FULL_RESERVED", "FULL_RUNNING", Key("full-running"))

CompleteFull(e) ==
    /\ fullResult[e] # None
    /\ TransitionExperiment(e, "FULL_RUNNING", "FULL_COMPLETE", Key("full-complete"))

Diagnose(e) ==
    TransitionExperiment(e, "FULL_COMPLETE", "DIAGNOSED", Key("diagnosed"))

\* A slip: any diagnosed experiment runs the official rung.
StartOfficialUnbound(e) ==
    TransitionExperiment(e, "DIAGNOSED", "OFFICIAL_VALID_RUNNING",
                         Key("official-valid-running"))

StartOfficial(e) ==
    /\ finalist = e
    /\ TransitionExperiment(e, "DIAGNOSED", "OFFICIAL_VALID_RUNNING",
                            Key("official-valid-running"))

CompleteOfficial(e) ==
    /\ officialResult[e] # None
    /\ TransitionExperiment(e, "OFFICIAL_VALID_RUNNING", "OFFICIAL_VALID_COMPLETE",
                            Key("official-valid-complete"))

\* Closing discovery abandons the diagnosed experiments that lost; two places
\* of the supervisor do it, each under its own key.
AbandonNonFinalist(e, step) ==
    /\ finalist \notin {None, e}
    /\ TransitionExperiment(e, "DIAGNOSED", "ABANDONED", Key(step))

-----------------------------------------------------------------------------
(* Rung results: metrics rows and the production_<rung>_result artifacts *)

StoreCheap(e, gate) ==
    /\ cheapResult[e] = None
    /\ Key("cheap-running") \in journal[e]
    /\ cheapResult' = [cheapResult EXCEPT ![e] = gate]
    /\ UNCHANGED <<runVars, validationVars, incumbentVars, shadowVars, rowVars,
                   failure, convergenceVars, fullResult, officialResult, repairVars>>

StoreFull(e, result) ==
    /\ fullResult[e] = None
    /\ Key("full-running") \in journal[e]
    /\ fullResult' = [fullResult EXCEPT ![e] = result]
    /\ UNCHANGED <<runVars, validationVars, incumbentVars, shadowVars, rowVars,
                   failure, convergenceVars, cheapResult, officialResult, repairVars>>

\* record_metrics of split 'valid': only the locked finalist may use the
\* official-validation capability.
RecordOfficialMetrics(e, primary) ==
    /\ officialMetric[e] = None
    /\ officialCount < MaxOfficial
    /\ phase = "FINALIST_LOCKED"
    /\ finalist = e
    /\ Key("official-valid-running") \in journal[e]
    /\ officialMetric' = [officialMetric EXCEPT ![e] = primary]
    /\ officialCount' = officialCount + 1
    /\ UNCHANGED <<runVars, phase, finalist, incumbentVars, shadowVars, rowVars,
                   failure, convergenceVars, resultVars, repairVars>>

StoreOfficial(e, safe) ==
    /\ officialResult[e] = None
    /\ officialMetric[e] # None
    /\ officialResult' = [officialResult EXCEPT
                            ![e] = [primary |-> officialMetric[e], safe |-> safe]]
    /\ UNCHANGED <<runVars, validationVars, incumbentVars, shadowVars, rowVars,
                   failure, convergenceVars, cheapResult, fullResult, repairVars>>

-----------------------------------------------------------------------------
(* Shadow evaluation, convergence and the validation phase *)

\* A slip: discovery counts as open until the finalist has been evaluated.
NotYetEvaluated == phase # "OFFICIAL_EVALUATED"

DiscoveryOpen == phase = "DISCOVERY"

\* A slip: an unsupported candidate becomes the shadow champion.
BeatsUnsupported(result) == shadowBest = None \/ result.primary > shadowBest

BeatsShadowChampion(result) ==
    result.supported /\ (shadowBest = None \/ result.primary > shadowBest)

\* families is the number of valid families the caller counted before.
RecordShadowEvaluation(e, families) ==
    LET result == fullResult[e]
        isNewBest == BeatsShadowChampion(result)
        meaningful == isNewBest /\ (shadowBest = None
                                     \/ result.primary - shadowBest > Epsilon)
        newStreak == IF meaningful THEN 0 ELSE streak + 1
    IN  /\ result # None
        /\ shadow[e] = None
        /\ state[e] = "DIAGNOSED"
        /\ DiscoveryOpen
        /\ shadow' = [shadow EXCEPT ![e] = result]
        /\ shadowBest' = IF isNewBest THEN result.primary ELSE shadowBest
        /\ shadowChampion' = IF isNewBest THEN e ELSE shadowChampion
        /\ streak' = newStreak
        /\ stopReason' = Plateau(newStreak, families >= MinFamilies)
        /\ UNCHANGED <<runVars, validationVars, incumbentVars, outcome, rowVars,
                       failure, resultVars, repairVars>>

\* reject_candidate, for the cheap gate (counted) and for the full gate, where
\* the shadow evaluation has counted the hypothesis already (not counted).
RejectCandidate(e, expected, step, counted, eligible) ==
    LET newStreak == IF counted THEN streak + 1 ELSE streak
    IN  /\ Move(e, expected, "REJECTED", Key(step))
        /\ streak' = newStreak
        /\ stopReason' = Plateau(newStreak, eligible)
        /\ outcome' = IF counted
                        THEN [outcome EXCEPT ![e] = "rejected_before_official"]
                        ELSE outcome
        /\ UNCHANGED <<runVars, validationVars, incumbentVars, shadowVars, failure,
                       resultVars, repairVars>>

RejectCheap(e, families) ==
    /\ cheapResult[e] = "fail"
    /\ RejectCandidate(e, "CHEAP_COMPLETE", "cheap-rejected", TRUE,
                       families >= MinFamilies)

\* A slip: the hypothesis is counted by its rejection as well.
RejectFullCounted(e, families) ==
    /\ shadow[e] # None
    /\ ~shadow[e].supported
    /\ RejectCandidate(e, "DIAGNOSED", "full-rejected", TRUE, families >= MinFamilies)

RejectFull(e, families) ==
    /\ shadow[e] # None
    /\ ~shadow[e].supported
    /\ RejectCandidate(e, "DIAGNOSED", "full-rejected", FALSE, families >= MinFamilies)

LockFinalist(e) ==
    /\ DiscoveryOpen
    /\ state[e] = "DIAGNOSED"
    /\ shadow[e] # None
    /\ shadow[e].supported
    /\ officialCount = 0
    /\ phase' = "FINALIST_LOCKED"
    /\ finalist' = e
    /\ UNCHANGED <<runVars, officialCount, officialMetric, incumbentVars, shadowVars,
                   convergenceVars, rowVars, failure, resultVars, repairVars>>

\* reject_non_improving: the official result did not safely improve.  Unlike a
\* promotion attempt it leaves the validation phase where it is.
RejectNonImproving(e) ==
    /\ officialResult[e] # None
    /\ ~officialResult[e].safe
    /\ Move(e, "OFFICIAL_VALID_COMPLETE", "REJECTED", Key("official-valid-rejected"))
    /\ streak' = streak + 1
    /\ stopReason' = Plateau(streak + 1, TRUE)
    /\ outcome' = [outcome EXCEPT ![e] = "rejected"]
    /\ UNCHANGED <<runVars, validationVars, incumbentVars, shadowVars, failure,
                   resultVars, repairVars>>

\* update_metric_trackers: the streak after a score, delta above the incumbent.
TrackedStreak(delta) == IF delta > Epsilon THEN 0 ELSE streak + 1

\* A slip: a loss within the tolerance is promoted.
ImprovesWithinTolerance(delta) == delta >= -Epsilon

Improves(delta) == delta > 0

\* promote_search_candidate, which ends in _mark_official_evaluated.
PromoteSearchCandidate(e) ==
    LET primary == officialResult[e].primary
        delta == primary - bestUnits
        isNewBest == Improves(delta)
    IN  /\ officialResult[e] # None
        /\ officialResult[e].safe
        /\ phase # "DISCOVERY" /\ finalist = e
        /\ Move(e, "OFFICIAL_VALID_COMPLETE",
                IF isNewBest THEN "PROMOTED" ELSE "REJECTED", Key("search-promotion"))
        /\ outcome' = [outcome EXCEPT
                         ![e] = IF isNewBest THEN "promoted" ELSE "official_rejected"]
        /\ bestUnits' = IF isNewBest THEN primary ELSE bestUnits
        /\ champion' = IF isNewBest THEN e ELSE champion
        /\ streak' = TrackedStreak(delta)
        /\ stopReason' = Plateau(TrackedStreak(delta), TRUE)
        /\ phase' = "OFFICIAL_EVALUATED"
        /\ UNCHANGED <<runVars, finalist, officialCount, officialMetric, shadowVars,
                       failure, resultVars, repairVars>>

\* An operational failure is recorded without touching the streak.
CountFailedTransaction(e) ==
    /\ state[e] = "FAILED_FINAL"
    /\ outcome[e] = None
    /\ outcome' = [outcome EXCEPT ![e] = "invalid_failure"]
    /\ UNCHANGED <<runVars, validationVars, incumbentVars, shadowVars, streak,
                   stopReason, rowVars, failure, resultVars, repairVars>>

-----------------------------------------------------------------------------
(* Failed rungs and the experiment-wide repair allowance *)

\* used is the number of reservations the caller counted before it failed.
FailRung(e, r, status, used) ==
    /\ used <= reserved[e]
    /\ Move(e, RunningState(r), "FAILED_REPAIRABLE", RungKey("failure", r, used))
    /\ failure' = [failure EXCEPT ![e] = [rung |-> r, status |-> status]]
    /\ UNCHANGED <<runVars, validationVars, incumbentVars, shadowVars,
                   convergenceVars, resultVars, repairVars>>

FailFinal(e, r, used) ==
    TransitionExperiment(e, "FAILED_REPAIRABLE", "FAILED_FINAL",
                         RungKey("failed-final", r, used))

\* A slip: the query for the incomplete reservation finds none.
IncompleteMissed(e) == {}

Incomplete(e) == {n \in 1..reserved[e] : n \notin repairDone[e]}

\* A slip: one repair too many.
AllowanceMisjudged(e) == reserved[e] <= MaxRepairs

AllowanceLeft(e) == reserved[e] < MaxRepairs

\* A reservation is one slot of the allowance; while one is incomplete the code
\* hands out that one again.
ReserveRepair(e, cause) ==
    /\ Incomplete(e) = {}
    /\ AllowanceLeft(e)
    /\ \E used \in 0..MaxRepairs : RungKey("failure", cause.rung, used) \in journal[e]
    /\ reserved' = [reserved EXCEPT ![e] = @ + 1]
    /\ repairFor' = [repairFor EXCEPT ![e][reserved[e] + 1] = cause]
    /\ UNCHANGED <<runVars, validationVars, incumbentVars, shadowVars,
                   convergenceVars, rowVars, failure, resultVars,
                   repairDone, revised, revision>>

BeginRepair(e, number) ==
    /\ number <= reserved[e]
    /\ TransitionExperiment(e, "FAILED_REPAIRABLE", "REPAIRING",
                            RepairKey("repairing", number))

ApplyRepairRevision(e, number) ==
    /\ number <= reserved[e]
    /\ number \notin revised[e]
    /\ state[e] = "REPAIRING"
    /\ revised' = [revised EXCEPT ![e] = @ \cup {number}]
    /\ revision' = [revision EXCEPT ![e] = number]
    /\ UNCHANGED <<runVars, validationVars, incumbentVars, shadowVars,
                   convergenceVars, rowVars, failure, resultVars,
                   reserved, repairFor, repairDone>>

CompleteRepair(e, number) ==
    /\ number <= reserved[e]
    /\ number \notin repairDone[e]
    /\ repairDone' = [repairDone EXCEPT ![e] = @ \cup {number}]
    /\ UNCHANGED <<runVars, validationVars, incumbentVars, shadowVars,
                   convergenceVars, rowVars, failure, resultVars,
                   reserved, repairFor, revised, revision>>

ResumeRung(e, number) ==
    /\ number \in repairDone[e]
    /\ number <= reserved[e]
    /\ TransitionExperiment(e, "REPAIRING", RunningState(repairFor[e][number].rung),
                            RepairKey("completed", number))

FailRepair(e, number) ==
    /\ number <= reserved[e]
    /\ TransitionExperiment(e, "REPAIRING", "FAILED_FINAL",
                            RepairKey("repair-failed", number))

-----------------------------------------------------------------------------
(* Any production controller, any call, at any time *)

\* A controller names a plateau only when it has read one from the run row.
FinalizeReasons ==
    (StopReasons \ {"baseline_rejected", "epsilon_plateau"})
    \cup (IF stopReason = None THEN {} ELSE {stopReason})

RunStep ==
    \/ CreateRun
    \/ TransitionRun("INITIALIZING", "BASELINE_VERIFYING", None)
    \/ TransitionRun("BASELINE_VERIFYING", "BASELINE_BLOCKED", "baseline_rejected")
    \/ EstablishBaseline
    \/ /\ champion # None
       /\ TransitionRun("BASELINE_VERIFYING", "SEARCHING", None)
    \/ \E reason \in FinalizeReasons : TransitionRun("SEARCHING", "FINALIZING", reason)
    \/ TransitionRun("FINALIZING", "COMPLETE", None)

PrepareAndRun(e) ==
    \/ CreateExperiment(e) \/ PrepareStep(e) \/ AbandonPreparation(e)
    \/ StartCheap(e) \/ CompleteCheap(e)
    \/ ReserveFull(e) \/ StartFull(e) \/ CompleteFull(e) \/ Diagnose(e)
    \/ \E gate \in {"pass", "fail"} : StoreCheap(e, gate)
    \/ \E result \in FullResults : StoreFull(e, result)

Judge(e) ==
    \/ \E families \in 0..Cardinality(ValidFamilies) :
          RecordShadowEvaluation(e, families) \/ RejectCheap(e, families)
          \/ RejectFull(e, families)
    \/ LockFinalist(e)
    \/ \E step \in {"non-finalist-abandoned", "not-locked-finalist"} :
          AbandonNonFinalist(e, step)
    \/ StartOfficial(e)
    \/ \E primary \in Scores : RecordOfficialMetrics(e, primary)
    \/ \E safe \in BOOLEAN : StoreOfficial(e, safe)
    \/ CompleteOfficial(e)
    \/ RejectNonImproving(e) \/ PromoteSearchCandidate(e)
    \/ CountFailedTransaction(e)

Repair(e) ==
    \/ \E r \in Rungs, used \in 0..MaxRepairs :
          \/ \E status \in Statuses : FailRung(e, r, status, used)
          \/ FailFinal(e, r, used)
    \/ \E cause \in Failures : ReserveRepair(e, cause)
    \/ \E number \in 1..MaxRepairs :
          \/ BeginRepair(e, number) \/ ApplyRepairRevision(e, number)
          \/ CompleteRepair(e, number) \/ ResumeRung(e, number)
          \/ FailRepair(e, number)

StoreNext == RunStep \/ \E e \in Exp : PrepareAndRun(e) \/ Judge(e) \/ Repair(e)

StoreSpec == StoreInit /\ [][StoreNext]_storeVars

=============================================================================
