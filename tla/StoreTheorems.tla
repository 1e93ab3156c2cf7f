---------------------------- MODULE StoreTheorems ----------------------------
(***************************************************************************)
(* Type correctness of the durable store, then the capability for the      *)
(* official validation, the champion and the legality of transitions, for  *)
(* every value of the constants: any number of cards, any budgets, any     *)
(* scores.  The type of a resumed rung needs one fact beside the types: a  *)
(* reserved repair names the failure it answers.  Neither property is      *)
(* inductive: that a promotion follows the one official evaluation of the  *)
(* one finalist rests on how the result artifact, the metric row, the      *)
(* journal and the run row agree with each other, which EvidenceInv states *)
(* part by part.  Then what follows from it step by step: the store        *)
(* implements the one-way validation lifecycle, asks for no illegal        *)
(* transition, keeps the best supported candidate as shadow champion and   *)
(* counts each hypothesis once; and what a row says of its own history.    *)
(***************************************************************************)
EXTENDS StoreProperties, FiniteSetTheorems, TLAPS

ReservationsNamed ==
    \A e \in Exp : \A n \in 1..reserved[e] : repairFor[e][n] # None

TypeInv == TypeOK /\ ReservationsNamed

\* Every key an action journals is a key.
LEMMA PlainKeyType ==
    ASSUME NEW step \in PlainSteps
    PROVE  Key(step) \in Keys
BY DEF Key, Keys, PlainKeys

LEMMA RungKeyType ==
    ASSUME NEW step \in {"failure", "failed-final"}, NEW r \in Rungs,
           NEW used \in 0..MaxRepairs
    PROVE  RungKey(step, r, used) \in Keys
BY DEF RungKey, Keys, RungKeys

LEMMA RepairKeyType ==
    ASSUME NEW step \in {"repairing", "completed", "repair-failed"},
           NEW number \in 1..MaxRepairs
    PROVE  RepairKey(step, number) \in Keys
BY DEF RepairKey, Keys, RepairKeys

\* A state change of an experiment keeps its row and its journal in type.
LEMMA MoveType ==
    ASSUME TypeOK, NEW e \in Exp, NEW expected,
           NEW next \in ExperimentStates, NEW key \in Keys,
           Move(e, expected, next, key)
    PROVE  /\ state' \in [Exp -> ExperimentStates]
           /\ journal' \in [Exp -> SUBSET Keys]
BY DEF TypeOK, Move

LEMMA TransitionType ==
    ASSUME TypeInv, NEW e \in Exp, NEW expected,
           NEW next \in ExperimentStates, NEW key \in Keys,
           TransitionExperiment(e, expected, next, key)
    PROVE  TypeInv'
<1>1. /\ state' \in [Exp -> ExperimentStates]
      /\ journal' \in [Exp -> SUBSET Keys]
  BY MoveType DEF TypeInv, TransitionExperiment
<1>2. UNCHANGED <<runVars, validationVars, incumbentVars, shadowVars,
                  convergenceVars, failure, resultVars, repairVars>>
  BY DEF TransitionExperiment
<1> QED
  BY <1>1, <1>2 DEF TypeInv, TypeOK, ReservationsNamed, runVars, validationVars,
     incumbentVars, shadowVars, convergenceVars, resultVars, repairVars

\* The run row's transactions.
LEMMA RunStepType ==
    ASSUME TypeInv, RunStep
    PROVE  TypeInv'
<1> USE StoreAssumption DEF TypeInv, TypeOK, ReservationsNamed, RunStates, StopReasons,
        runVars, validationVars, incumbentVars, shadowVars, convergenceVars,
        rowVars, resultVars, repairVars
<1>1. CASE CreateRun
  BY <1>1 DEF CreateRun
<1>2. CASE EstablishBaseline
  BY <1>2 DEF EstablishBaseline
<1>3. ASSUME NEW expected, NEW next \in RunStates, NEW reason \in StopReasons \cup {None},
             TransitionRun(expected, next, reason)
      PROVE  TypeInv'
  BY <1>3 DEF TransitionRun
<1>4. FinalizeReasons \subseteq StopReasons \cup {None}
  BY DEF FinalizeReasons
<1> QED
  BY <1>1, <1>2, <1>3, <1>4 DEF RunStep

\* Preparation, the rungs and their results.
LEMMA PrepareAndRunType ==
    ASSUME TypeInv, NEW e \in Exp, PrepareAndRun(e)
    PROVE  TypeInv'
<1>1. ASSUME NEW expected, NEW next \in ExperimentStates, NEW step \in PlainSteps,
             TransitionExperiment(e, expected, next, Key(step))
      PROVE  TypeInv'
  BY <1>1, PlainKeyType, TransitionType
<1>2. CASE CreateExperiment(e)
  BY <1>2, StoreAssumption DEF CreateExperiment, TypeInv, TypeOK, ReservationsNamed,
     Exp, ExperimentStates, Terminal, validationVars, incumbentVars, shadowVars,
     convergenceVars, resultVars, repairVars
<1>3. CASE PrepareStep(e) \/ AbandonPreparation(e)
  BY <1>1, <1>3 DEF PrepareStep, AbandonPreparation, ExperimentStates, Terminal, PlainSteps
<1>4. CASE StartCheap(e) \/ CompleteCheap(e)
  BY <1>1, <1>4 DEF StartCheap, CompleteCheap, ExperimentStates, Terminal, PlainSteps
<1>5. CASE ReserveFull(e) \/ StartFull(e) \/ CompleteFull(e) \/ Diagnose(e)
  BY <1>1, <1>5 DEF ReserveFull, StartFull, CompleteFull, Diagnose,
     ExperimentStates, Terminal, PlainSteps
<1>6. ASSUME NEW gate \in {"pass", "fail"}, StoreCheap(e, gate)
      PROVE  TypeInv'
  BY <1>6 DEF StoreCheap, TypeInv, TypeOK, ReservationsNamed, runVars, validationVars,
     incumbentVars, shadowVars, convergenceVars, rowVars, repairVars
<1>7. ASSUME NEW result \in FullResults, StoreFull(e, result)
      PROVE  TypeInv'
  BY <1>7 DEF StoreFull, TypeInv, TypeOK, ReservationsNamed, runVars, validationVars,
     incumbentVars, shadowVars, convergenceVars, rowVars, repairVars
<1> QED
  BY <1>2, <1>3, <1>4, <1>5, <1>6, <1>7 DEF PrepareAndRun

\* Judging: shadow evaluation, rejection, the finalist and its official result.
LEMMA JudgeType ==
    ASSUME TypeInv, NEW e \in Exp, Judge(e)
    PROVE  TypeInv'
<1> USE StoreAssumption
<1>1. ASSUME NEW expected, NEW next \in ExperimentStates, NEW step \in PlainSteps,
             TransitionExperiment(e, expected, next, Key(step))
      PROVE  TypeInv'
  BY <1>1, PlainKeyType, TransitionType
<1>2. ASSUME NEW expected, NEW next \in ExperimentStates, NEW step \in PlainSteps,
             Move(e, expected, next, Key(step))
      PROVE  /\ state' \in [Exp -> ExperimentStates]
             /\ journal' \in [Exp -> SUBSET Keys]
  BY <1>2, PlainKeyType, MoveType DEF TypeInv
<1>3. \A newStreak, eligible : Plateau(newStreak, eligible) \in StopReasons \cup {None}
  BY DEF Plateau, TypeInv, TypeOK, StopReasons
<1>4. ASSUME NEW families, RecordShadowEvaluation(e, families)
      PROVE  TypeInv'
  <2>1. fullResult[e] \in FullResults
    BY <1>4 DEF RecordShadowEvaluation, TypeInv, TypeOK
  <2>2. /\ fullResult[e].primary \in Int
        /\ fullResult[e].supported \in BOOLEAN
    BY <2>1 DEF FullResults
  <2>3. streak' \in Nat
    BY <1>4, <2>2 DEF RecordShadowEvaluation, TypeInv, TypeOK
  <2>4. stopReason' \in StopReasons \cup {None}
    BY <1>3, <1>4 DEF RecordShadowEvaluation
  <2>5. /\ shadow' \in [Exp -> FullResults \cup {None}]
        /\ shadowBest' \in Int \cup {None}
        /\ shadowChampion' \in Exp \cup {None}
    BY <1>4, <2>1, <2>2 DEF RecordShadowEvaluation, TypeInv, TypeOK
  <2> QED
    BY <1>4, <2>3, <2>4, <2>5 DEF RecordShadowEvaluation, TypeInv, TypeOK,
       ReservationsNamed, runVars, validationVars, incumbentVars, rowVars,
       resultVars, repairVars
<1>5. ASSUME NEW expected, NEW step \in PlainSteps, NEW counted \in BOOLEAN,
             NEW eligible, RejectCandidate(e, expected, step, counted, eligible)
      PROVE  TypeInv'
  <2>1. /\ state' \in [Exp -> ExperimentStates]
        /\ journal' \in [Exp -> SUBSET Keys]
    BY <1>2, <1>5 DEF RejectCandidate, ExperimentStates, Terminal
  <2>2. streak' \in Nat
    BY <1>5 DEF RejectCandidate, TypeInv, TypeOK
  <2>3. stopReason' \in StopReasons \cup {None}
    BY <1>3, <1>5 DEF RejectCandidate
  <2>4. outcome' \in [Exp -> Outcomes \cup {None}]
    BY <1>5 DEF RejectCandidate, TypeInv, TypeOK, Outcomes
  <2> QED
    BY <1>5, <2>1, <2>2, <2>3, <2>4 DEF RejectCandidate, TypeInv, TypeOK,
       ReservationsNamed, runVars, validationVars, incumbentVars, shadowVars,
       resultVars, repairVars
<1>6. ASSUME NEW families, RejectCheap(e, families) \/ RejectFull(e, families)
      PROVE  TypeInv'
  BY <1>5, <1>6 DEF RejectCheap, RejectFull, PlainSteps
<1>7. CASE LockFinalist(e)
  BY <1>7 DEF LockFinalist, TypeInv, TypeOK, ReservationsNamed, Phases, runVars,
     incumbentVars, shadowVars, convergenceVars, rowVars, resultVars, repairVars
<1>8. ASSUME NEW step \in {"non-finalist-abandoned", "not-locked-finalist"},
             AbandonNonFinalist(e, step)
      PROVE  TypeInv'
  BY <1>1, <1>8 DEF AbandonNonFinalist, ExperimentStates, Terminal, PlainSteps
<1>9. CASE StartOfficial(e) \/ CompleteOfficial(e)
  BY <1>1, <1>9 DEF StartOfficial, CompleteOfficial, ExperimentStates, Terminal, PlainSteps
<1>10. ASSUME NEW primary \in Scores, RecordOfficialMetrics(e, primary)
       PROVE  TypeInv'
  BY <1>10 DEF RecordOfficialMetrics, TypeInv, TypeOK, ReservationsNamed, runVars,
     incumbentVars, shadowVars, convergenceVars, rowVars, resultVars, repairVars
<1>11. ASSUME NEW safe \in BOOLEAN, StoreOfficial(e, safe)
       PROVE  TypeInv'
  <2>1. [primary |-> officialMetric[e], safe |-> safe] \in OfficialResults
    BY <1>11 DEF StoreOfficial, TypeInv, TypeOK, OfficialResults
  <2> QED
    BY <1>11, <2>1 DEF StoreOfficial, TypeInv, TypeOK, ReservationsNamed, runVars,
       validationVars, incumbentVars, shadowVars, convergenceVars, rowVars, repairVars
<1>12. CASE RejectNonImproving(e)
  <2>1. /\ state' \in [Exp -> ExperimentStates]
        /\ journal' \in [Exp -> SUBSET Keys]
    BY <1>2, <1>12 DEF RejectNonImproving, ExperimentStates, Terminal, PlainSteps
  <2>2. stopReason' \in StopReasons \cup {None}
    BY <1>3, <1>12 DEF RejectNonImproving
  <2>3. streak' \in Nat /\ outcome' \in [Exp -> Outcomes \cup {None}]
    BY <1>12 DEF RejectNonImproving, TypeInv, TypeOK, Outcomes
  <2> QED
    BY <1>12, <2>1, <2>2, <2>3 DEF RejectNonImproving, TypeInv, TypeOK, ReservationsNamed,
       runVars, validationVars, incumbentVars, shadowVars, resultVars, repairVars
<1>13. CASE PromoteSearchCandidate(e)
  <2>1. /\ state' \in [Exp -> ExperimentStates]
        /\ journal' \in [Exp -> SUBSET Keys]
    <3>1. \E next \in ExperimentStates :
             Move(e, "OFFICIAL_VALID_COMPLETE", next, Key("search-promotion"))
      BY <1>13 DEF PromoteSearchCandidate, ExperimentStates, Terminal
    <3> QED
      BY <1>2, <3>1 DEF PlainSteps
  <2>2. officialResult[e] \in OfficialResults
    BY <1>13 DEF PromoteSearchCandidate, TypeInv, TypeOK
  <2>3. officialResult[e].primary \in Int
    BY <2>2 DEF OfficialResults
  <2>4. bestUnits' \in Int \cup {None} /\ champion' \in Exp \cup {None, BaselineId}
    BY <1>13, <2>3 DEF PromoteSearchCandidate, TypeInv, TypeOK
  <2>5. streak' \in Nat
    BY <1>13 DEF PromoteSearchCandidate, TrackedStreak, TypeInv, TypeOK
  <2>6. stopReason' \in StopReasons \cup {None}
    BY <1>3, <1>13 DEF PromoteSearchCandidate
  <2>7. outcome' \in [Exp -> Outcomes \cup {None}]
    BY <1>13 DEF PromoteSearchCandidate, TypeInv, TypeOK, Outcomes
  <2> QED
    BY <1>13, <2>1, <2>4, <2>5, <2>6, <2>7 DEF PromoteSearchCandidate, TypeInv, TypeOK,
       ReservationsNamed, Phases, runVars, shadowVars, resultVars, repairVars
<1>14. CASE CountFailedTransaction(e)
  BY <1>14 DEF CountFailedTransaction, TypeInv, TypeOK, ReservationsNamed, Outcomes,
     runVars, validationVars, incumbentVars, shadowVars, rowVars, resultVars, repairVars
<1> QED
  BY <1>4, <1>6, <1>7, <1>8, <1>9, <1>10, <1>11, <1>12, <1>13, <1>14 DEF Judge

\* Failures and repairs; a rung is resumed from the failure its reservation names.
LEMMA RepairType ==
    ASSUME TypeInv, NEW e \in Exp, Repair(e)
    PROVE  TypeInv'
<1> USE StoreAssumption
<1>1. \A r \in Rungs : RunningState(r) \in ExperimentStates
  BY DEF Rungs, RunningState, ExperimentStates
<1>2. ASSUME NEW r \in Rungs, NEW used \in 0..MaxRepairs, NEW status \in Statuses,
             FailRung(e, r, status, used)
      PROVE  TypeInv'
  <2>1. /\ state' \in [Exp -> ExperimentStates]
        /\ journal' \in [Exp -> SUBSET Keys]
    BY <1>2, RungKeyType, MoveType DEF FailRung, TypeInv, ExperimentStates
  <2>2. failure' \in [Exp -> Failures \cup {None}]
    BY <1>2 DEF FailRung, TypeInv, TypeOK, Failures
  <2> QED
    BY <1>2, <2>1, <2>2 DEF FailRung, TypeInv, TypeOK, ReservationsNamed, runVars,
       validationVars, incumbentVars, shadowVars, convergenceVars, resultVars, repairVars
<1>3. ASSUME NEW r \in Rungs, NEW used \in 0..MaxRepairs, FailFinal(e, r, used)
      PROVE  TypeInv'
  BY <1>3, RungKeyType, TransitionType DEF FailFinal, ExperimentStates, Terminal
<1>4. ASSUME NEW cause \in Failures, ReserveRepair(e, cause)
      PROVE  TypeInv'
  <2>1. /\ reserved[e] \in 0..MaxRepairs /\ reserved[e] + 1 \in 1..MaxRepairs
        /\ reserved' = [reserved EXCEPT ![e] = reserved[e] + 1]
        /\ repairFor' = [repairFor EXCEPT ![e][reserved[e] + 1] = cause]
    BY <1>4 DEF ReserveRepair, AllowanceLeft, TypeInv, TypeOK
  <2>2. /\ reserved' \in [Exp -> 0..MaxRepairs]
        /\ repairFor' \in [Exp -> [1..MaxRepairs -> Failures \cup {None}]]
    <3>1. repairFor[e] \in [1..MaxRepairs -> Failures \cup {None}]
      BY DEF TypeInv, TypeOK
    <3>2. [repairFor[e] EXCEPT ![reserved[e] + 1] = cause]
            \in [1..MaxRepairs -> Failures \cup {None}]
      BY <2>1, <3>1
    <3>3. repairFor' = [repairFor EXCEPT
                          ![e] = [repairFor[e] EXCEPT ![reserved[e] + 1] = cause]]
      BY <2>1
    <3> QED
      BY <2>1, <3>2, <3>3 DEF TypeInv, TypeOK
  <2>3. TypeOK'
    BY <1>4, <2>2 DEF ReserveRepair, TypeInv, TypeOK, runVars, validationVars,
       incumbentVars, shadowVars, convergenceVars, rowVars, resultVars
  <2>4. ReservationsNamed'
    <3> SUFFICES ASSUME NEW x \in Exp, NEW n \in 1..reserved'[x]
                 PROVE  repairFor'[x][n] # None
      BY DEF ReservationsNamed
    <3>1. CASE x # e
      BY <2>1, <3>1 DEF TypeInv, TypeOK, ReservationsNamed
    <3>2. CASE x = e /\ n = reserved[e] + 1
      <4>1. repairFor'[x][n] = cause
        BY <2>1, <3>2 DEF TypeInv, TypeOK
      <4> QED
        BY <4>1, NullAssumption
    <3>3. CASE x = e /\ n # reserved[e] + 1
      <4>1. n \in 1..reserved[e] /\ n \in 1..MaxRepairs
        BY <2>1, <3>3 DEF TypeInv, TypeOK
      <4> QED
        BY <2>1, <3>3, <4>1 DEF TypeInv, TypeOK, ReservationsNamed
    <3> QED
      BY <3>1, <3>2, <3>3
  <2> QED
    BY <2>3, <2>4 DEF TypeInv
<1>5. ASSUME NEW number \in 1..MaxRepairs,
             BeginRepair(e, number) \/ FailRepair(e, number)
      PROVE  TypeInv'
  BY <1>5, RepairKeyType, TransitionType DEF BeginRepair, FailRepair, ExperimentStates, Terminal
<1>6. ASSUME NEW number \in 1..MaxRepairs, ApplyRepairRevision(e, number)
      PROVE  TypeInv'
  BY <1>6 DEF ApplyRepairRevision, TypeInv, TypeOK, ReservationsNamed, runVars,
     validationVars, incumbentVars, shadowVars, convergenceVars, rowVars, resultVars
<1>7. ASSUME NEW number \in 1..MaxRepairs, CompleteRepair(e, number)
      PROVE  TypeInv'
  BY <1>7 DEF CompleteRepair, TypeInv, TypeOK, ReservationsNamed, runVars,
     validationVars, incumbentVars, shadowVars, convergenceVars, rowVars, resultVars
<1>8. ASSUME NEW number \in 1..MaxRepairs, ResumeRung(e, number)
      PROVE  TypeInv'
  <2>1. repairFor[e][number] \in Failures
    BY <1>8 DEF ResumeRung, TypeInv, TypeOK, ReservationsNamed
  <2>2. RunningState(repairFor[e][number].rung) \in ExperimentStates
    BY <1>1, <2>1 DEF Failures
  <2> QED
    BY <1>8, <2>2, RepairKeyType, TransitionType DEF ResumeRung
<1> QED
  BY <1>2, <1>3, <1>4, <1>5, <1>6, <1>7, <1>8 DEF Repair

\* A new run's store is in type.
LEMMA InitType == StoreInit => TypeInv
BY StoreAssumption DEF StoreInit, TypeInv, TypeOK, ReservationsNamed, RunStates, Phases,
   ExperimentStates, Exp

LEMMA StepType == TypeInv /\ [StoreNext]_storeVars => TypeInv'
<1> SUFFICES ASSUME TypeInv, [StoreNext]_storeVars
             PROVE  TypeInv'
  OBVIOUS
<1>1. CASE RunStep
  BY <1>1, RunStepType
<1>2. ASSUME NEW e \in Exp, PrepareAndRun(e) \/ Judge(e) \/ Repair(e)
      PROVE  TypeInv'
  BY <1>2, PrepareAndRunType, JudgeType, RepairType
<1>3. CASE UNCHANGED storeVars
  BY <1>3 DEF storeVars, TypeInv, TypeOK, ReservationsNamed, runVars, validationVars,
     incumbentVars, shadowVars, convergenceVars, rowVars, resultVars, repairVars
<1> QED
  BY <1>1, <1>2, <1>3 DEF StoreNext

\* The strengthened invariant, which later proofs start from.
THEOREM TypeInvariant == StoreSpec => []TypeInv
BY InitType, StepType, PTL DEF StoreSpec

\* Whatever the controllers do, the store's rows stay in type: a resumed rung is
\* always a rung, and the repair counters stay within the allowance.
THEOREM StoreTypeCorrect == StoreSpec => []TypeOK
<1>1. TypeInv => TypeOK
  BY DEF TypeInv
<1> QED
  BY <1>1, TypeInvariant, PTL

-------------------------------------------------------------------------------
(* The official validation, the champion and the transitions.              *)

\* Official evidence exists for the bound finalist only, and is counted once.
FinalistInv ==
    /\ finalist = None <=> phase = "DISCOVERY"
    /\ \A e \in Exp : officialMetric[e] # None => e = finalist
    /\ \A e \in Exp : Key("official-valid-running") \in journal[e] => e = finalist
    /\ officialCount = (IF \E e \in Exp : officialMetric[e] # None THEN 1 ELSE 0)

\* A result artifact carries the score of the metric row recorded before it.
ResultInv ==
    \A e \in Exp : officialResult[e] # None =>
        officialMetric[e] # None /\ officialResult[e].primary = officialMetric[e]

\* Experiment rows exist for the hypotheses so far, and only under a baseline.
RowsInv ==
    \A e \in Exp : /\ state[e] # "NONE" <=> e <= hypotheses
                   /\ state[e] # "NONE" => champion # None

\* The champion is the baseline or the promoted finalist.
ChampionInv ==
    /\ champion = None => bestUnits = None
    /\ champion = BaselineId => bestUnits = BaselineUnits
    /\ champion \in Exp => /\ champion = finalist
                           /\ phase = "OFFICIAL_EVALUATED"
                           /\ bestUnits = officialMetric[champion]
                           /\ bestUnits > BaselineUnits
    /\ \A e \in Exp : state[e] = "PROMOTED" <=> e = champion

EvidenceInv == FinalistInv /\ ResultInv /\ RowsInv /\ ChampionInv

evidenceVars == <<hypotheses, validationVars, incumbentVars, officialResult>>

\* A step that touches none of the evidence.
LEMMA QuietStep ==
    ASSUME TypeInv, EvidenceInv, UNCHANGED <<evidenceVars, rowVars>>
    PROVE  EvidenceInv'
BY DEF EvidenceInv, FinalistInv, ResultInv, RowsInv, ChampionInv, evidenceVars,
   validationVars, incumbentVars, rowVars

\* A state change that neither starts the official rung nor promotes.
LEMMA QuietMove ==
    ASSUME TypeInv, EvidenceInv, NEW e \in Exp,
           NEW expected \in ExperimentStates \ {"NONE", "PROMOTED"},
           NEW next \in ExperimentStates \ {"NONE", "PROMOTED"}, NEW key,
           key # Key("official-valid-running"),
           Move(e, expected, next, key), UNCHANGED evidenceVars
    PROVE  EvidenceInv'
<1>1. \A x \in Exp : /\ state'[x] = IF x = e THEN next ELSE state[x]
                     /\ journal'[x] = IF x = e THEN journal[x] \cup {key} ELSE journal[x]
  BY DEF Move, TypeInv, TypeOK
<1>2. state[e] = expected
  BY DEF Move
<1>3. FinalistInv'
  BY <1>1 DEF EvidenceInv, FinalistInv, evidenceVars, validationVars
<1>4. ResultInv'
  BY DEF EvidenceInv, ResultInv, evidenceVars, validationVars
<1>5. RowsInv'
  BY <1>1, <1>2 DEF EvidenceInv, RowsInv, evidenceVars, incumbentVars
<1>6. ChampionInv'
  BY <1>1, <1>2 DEF EvidenceInv, ChampionInv, evidenceVars, validationVars, incumbentVars
<1> QED
  BY <1>3, <1>4, <1>5, <1>6 DEF EvidenceInv

LEMMA QuietTransition ==
    ASSUME TypeInv, EvidenceInv, NEW e \in Exp,
           NEW expected \in ExperimentStates \ {"NONE", "PROMOTED"},
           NEW next \in ExperimentStates \ {"NONE", "PROMOTED"}, NEW key,
           key # Key("official-valid-running"),
           TransitionExperiment(e, expected, next, key)
    PROVE  EvidenceInv'
<1>1. Move(e, expected, next, key) /\ UNCHANGED evidenceVars
  BY DEF TransitionExperiment, evidenceVars, runVars, validationVars, incumbentVars, resultVars
<1> QED
  BY <1>1, QuietMove

\* No other transaction's key is that of the official rung's start.
LEMMA OtherKeys ==
    /\ \A step \in PlainSteps \ {"official-valid-running"} :
          Key(step) # Key("official-valid-running")
    /\ \A step \in {"failure", "failed-final"}, r \in Rungs, used \in 0..MaxRepairs :
          RungKey(step, r, used) # Key("official-valid-running")
    /\ \A step \in {"repairing", "completed", "repair-failed"}, n \in 1..MaxRepairs :
          RepairKey(step, n) # Key("official-valid-running")
BY DEF Key, RungKey, RepairKey

LEMMA InitEvidence == StoreInit => EvidenceInv
BY StoreAssumption DEF StoreInit, EvidenceInv, FinalistInv, ResultInv, RowsInv,
   ChampionInv, Exp

LEMMA RunStepEvidence ==
    ASSUME TypeInv, EvidenceInv, RunStep
    PROVE  EvidenceInv'
<1>1. CASE CreateRun
  BY <1>1, QuietStep DEF CreateRun, evidenceVars, resultVars
<1>2. ASSUME NEW expected, NEW next, NEW reason, TransitionRun(expected, next, reason)
      PROVE  EvidenceInv'
  BY <1>2, QuietStep DEF TransitionRun, evidenceVars, resultVars
<1>3. CASE EstablishBaseline
  <2> USE <1>3 DEF EstablishBaseline, EvidenceInv, runVars, validationVars, rowVars, resultVars
  <2>1. FinalistInv' /\ ResultInv'
    BY DEF FinalistInv, ResultInv
  <2>2. RowsInv'
    BY StoreAssumption DEF RowsInv
  <2>3. ChampionInv'
    BY StoreAssumption DEF RowsInv, ChampionInv, Exp
  <2> QED
    BY <2>1, <2>2, <2>3
<1> QED
  BY <1>1, <1>2, <1>3 DEF RunStep

LEMMA PrepareAndRunEvidence ==
    ASSUME TypeInv, EvidenceInv, NEW e \in Exp, PrepareAndRun(e)
    PROVE  EvidenceInv'
<1>1. ASSUME NEW expected \in ExperimentStates \ {"NONE", "PROMOTED"},
             NEW next \in ExperimentStates \ {"NONE", "PROMOTED"},
             NEW step \in PlainSteps \ {"official-valid-running"},
             TransitionExperiment(e, expected, next, Key(step))
      PROVE  EvidenceInv'
  BY <1>1, OtherKeys, QuietTransition
<1>2. CASE CreateExperiment(e)
  <2>1. /\ state[e] = "NONE"
        /\ \A x \in Exp : state'[x] = IF x = e THEN "PROPOSED" ELSE state[x]
    BY <1>2 DEF CreateExperiment, EvidenceInv, RowsInv, TypeInv, TypeOK, Exp
  <2>2. UNCHANGED <<validationVars, incumbentVars, officialResult, journal>>
    BY <1>2 DEF CreateExperiment, resultVars
  <2>3. FinalistInv' /\ ResultInv'
    BY <2>2 DEF EvidenceInv, FinalistInv, ResultInv, validationVars
  <2>4. RowsInv'
    BY <1>2, <2>1, <2>2 DEF CreateExperiment, EvidenceInv, RowsInv, incumbentVars,
       TypeInv, TypeOK, Exp
  <2>5. ChampionInv'
    BY <2>1, <2>2 DEF EvidenceInv, ChampionInv, validationVars, incumbentVars
  <2> QED
    BY <2>3, <2>4, <2>5 DEF EvidenceInv
<1>3. CASE PrepareStep(e) \/ AbandonPreparation(e)
  BY <1>1, <1>3 DEF PrepareStep, AbandonPreparation, ExperimentStates, Terminal, PlainSteps
<1>4. CASE StartCheap(e) \/ CompleteCheap(e)
  BY <1>1, <1>4 DEF StartCheap, CompleteCheap, ExperimentStates, Terminal, PlainSteps
<1>5. CASE ReserveFull(e) \/ StartFull(e) \/ CompleteFull(e) \/ Diagnose(e)
  BY <1>1, <1>5 DEF ReserveFull, StartFull, CompleteFull, Diagnose,
     ExperimentStates, Terminal, PlainSteps
<1>6. ASSUME NEW gate, StoreCheap(e, gate)
      PROVE  EvidenceInv'
  BY <1>6, QuietStep DEF StoreCheap, evidenceVars, runVars
<1>7. ASSUME NEW result, StoreFull(e, result)
      PROVE  EvidenceInv'
  BY <1>7, QuietStep DEF StoreFull, evidenceVars, runVars
<1> QED
  BY <1>2, <1>3, <1>4, <1>5, <1>6, <1>7 DEF PrepareAndRun

LEMMA RepairEvidence ==
    ASSUME TypeInv, EvidenceInv, NEW e \in Exp, Repair(e)
    PROVE  EvidenceInv'
<1>1. \A r \in Rungs : RunningState(r) \in ExperimentStates \ {"NONE", "PROMOTED"}
  BY DEF Rungs, RunningState, ExperimentStates, Terminal
<1>2. ASSUME NEW r \in Rungs, NEW used \in 0..MaxRepairs, NEW status,
             FailRung(e, r, status, used)
      PROVE  EvidenceInv'
  <2>1. Move(e, RunningState(r), "FAILED_REPAIRABLE", RungKey("failure", r, used))
        /\ UNCHANGED evidenceVars
    BY <1>2 DEF FailRung, evidenceVars, runVars, resultVars
  <2> QED
    BY <1>1, <2>1, OtherKeys, QuietMove DEF ExperimentStates, Terminal
<1>3. ASSUME NEW r \in Rungs, NEW used \in 0..MaxRepairs, FailFinal(e, r, used)
      PROVE  EvidenceInv'
  BY <1>3, OtherKeys, QuietTransition DEF FailFinal, ExperimentStates, Terminal
<1>4. ASSUME NEW cause, ReserveRepair(e, cause)
      PROVE  EvidenceInv'
  BY <1>4, QuietStep DEF ReserveRepair, evidenceVars, runVars, resultVars
<1>5. ASSUME NEW number \in 1..MaxRepairs,
             ApplyRepairRevision(e, number) \/ CompleteRepair(e, number)
      PROVE  EvidenceInv'
  BY <1>5, QuietStep DEF ApplyRepairRevision, CompleteRepair, evidenceVars, runVars, resultVars
<1>6. ASSUME NEW number \in 1..MaxRepairs, BeginRepair(e, number) \/ FailRepair(e, number)
      PROVE  EvidenceInv'
  BY <1>6, OtherKeys, QuietTransition DEF BeginRepair, FailRepair, ExperimentStates, Terminal
<1>7. ASSUME NEW number \in 1..MaxRepairs, ResumeRung(e, number)
      PROVE  EvidenceInv'
  <2>1. repairFor[e][number] \in Failures
    BY <1>7, StoreAssumption DEF ResumeRung, TypeInv, TypeOK, ReservationsNamed
  <2>2. RunningState(repairFor[e][number].rung) \in ExperimentStates \ {"NONE", "PROMOTED"}
    BY <1>1, <2>1 DEF Failures
  <2> QED
    BY <1>7, <2>2, OtherKeys, QuietTransition DEF ResumeRung, ExperimentStates, Terminal
<1> QED
  BY <1>2, <1>3, <1>4, <1>5, <1>6, <1>7 DEF Repair

\* Binding a finalist: nothing has been evaluated before.
LEMMA LockEvidence ==
    ASSUME TypeInv, EvidenceInv, NEW e \in Exp, LockFinalist(e)
    PROVE  EvidenceInv'
<1> USE StoreAssumption DEF EvidenceInv, LockFinalist, DiscoveryOpen, runVars, incumbentVars, rowVars,
       resultVars
<1>1. finalist = None /\ finalist' # None
  BY DEF FinalistInv, Exp
<1>2. \A x \in Exp : officialMetric[x] = None /\ Key("official-valid-running") \notin journal[x]
  BY <1>1 DEF FinalistInv, Exp
<1>3. FinalistInv'
  BY <1>1, <1>2 DEF FinalistInv
<1>4. ResultInv' /\ RowsInv'
  BY DEF ResultInv, RowsInv
<1>5. ChampionInv'
  BY DEF ChampionInv
<1> QED
  BY <1>3, <1>4, <1>5

\* Starting the official rung: only the finalist's journal names it.
LEMMA StartOfficialEvidence ==
    ASSUME TypeInv, EvidenceInv, NEW e \in Exp, StartOfficial(e)
    PROVE  EvidenceInv'
<1>1. /\ finalist = e /\ state[e] = "DIAGNOSED"
      /\ \A x \in Exp : /\ state'[x] = IF x = e THEN "OFFICIAL_VALID_RUNNING" ELSE state[x]
                        /\ x # e => journal'[x] = journal[x]
      /\ UNCHANGED evidenceVars
  BY DEF StartOfficial, TransitionExperiment, Move, TypeInv, TypeOK, evidenceVars,
     runVars, validationVars, incumbentVars, resultVars
<1> USE <1>1 DEF EvidenceInv, evidenceVars, validationVars, incumbentVars
<1>2. FinalistInv'
  BY DEF FinalistInv
<1>3. ResultInv' /\ RowsInv'
  BY DEF ResultInv, RowsInv
<1>4. ChampionInv'
  BY DEF ChampionInv
<1> QED
  BY <1>2, <1>3, <1>4

\* Recording the official metric: the first and last one.
LEMMA MetricEvidence ==
    ASSUME TypeInv, EvidenceInv, NEW e \in Exp, NEW primary \in Scores,
           RecordOfficialMetrics(e, primary)
    PROVE  EvidenceInv'
<1>1. /\ finalist = e /\ phase = "FINALIST_LOCKED" /\ officialMetric[e] = None
      /\ \A x \in Exp : officialMetric'[x] = IF x = e THEN primary ELSE officialMetric[x]
      /\ officialCount' = officialCount + 1
      /\ UNCHANGED <<hypotheses, phase, finalist, incumbentVars, officialResult, rowVars>>
  BY DEF RecordOfficialMetrics, TypeInv, TypeOK, runVars, resultVars
<1>2. primary # None
  BY StoreAssumption
<1> USE <1>1, <1>2 DEF EvidenceInv, incumbentVars, rowVars
<1>3. FinalistInv'
  <2>1. officialCount = 0
    BY DEF FinalistInv
  <2> QED
    BY <2>1 DEF FinalistInv
<1>4. ResultInv' /\ RowsInv'
  BY DEF ResultInv, RowsInv
<1>5. ChampionInv'
  BY DEF ChampionInv
<1> QED
  BY <1>3, <1>4, <1>5

LEMMA OfficialArtifactEvidence ==
    ASSUME TypeInv, EvidenceInv, NEW e \in Exp, NEW safe, StoreOfficial(e, safe)
    PROVE  EvidenceInv'
<1>1. /\ officialMetric[e] # None
      /\ \A x \in Exp : x # e => officialResult'[x] = officialResult[x]
      /\ officialResult'[e].primary = officialMetric[e]
      /\ UNCHANGED <<hypotheses, validationVars, incumbentVars, rowVars>>
  BY DEF StoreOfficial, TypeInv, TypeOK, runVars
<1> USE <1>1 DEF EvidenceInv, validationVars, incumbentVars, rowVars
<1>2. FinalistInv' /\ RowsInv'
  BY DEF FinalistInv, RowsInv
<1>3. ResultInv'
  BY DEF ResultInv
<1>4. ChampionInv'
  BY DEF ChampionInv
<1> QED
  BY <1>2, <1>3, <1>4

\* Promotion: a promoted champion would be this finalist, whose row has left
\* OFFICIAL_VALID_COMPLETE for good; so the incumbent is still the baseline.
LEMMA PromotionEvidence ==
    ASSUME TypeInv, EvidenceInv, NEW e \in Exp, PromoteSearchCandidate(e)
    PROVE  EvidenceInv'
<1> DEFINE primary == officialResult[e].primary
           isNewBest == primary - bestUnits > 0
           next == IF isNewBest THEN "PROMOTED" ELSE "REJECTED"
<1>1. /\ officialResult[e] # None /\ phase # "DISCOVERY" /\ finalist = e
      /\ state[e] = "OFFICIAL_VALID_COMPLETE"
      /\ state' = [state EXCEPT ![e] = next]
      /\ journal' = [journal EXCEPT ![e] = @ \cup {Key("search-promotion")}]
      /\ bestUnits' = IF isNewBest THEN primary ELSE bestUnits
      /\ champion' = IF isNewBest THEN e ELSE champion
      /\ phase' = "OFFICIAL_EVALUATED"
      /\ UNCHANGED <<hypotheses, finalist, officialCount, officialMetric, officialResult>>
  BY DEF PromoteSearchCandidate, Improves, Move, runVars, resultVars
<1>2. /\ officialMetric[e] = primary /\ primary \in Int
      /\ champion = BaselineId /\ bestUnits = BaselineUnits
  <2>1. officialMetric[e] = primary /\ officialMetric[e] # None
    BY <1>1 DEF EvidenceInv, ResultInv
  <2>2. primary \in Int
    BY <2>1, StoreAssumption DEF TypeInv, TypeOK
  <2>3. champion # None
    BY <1>1 DEF EvidenceInv, RowsInv
  <2>4. champion \notin Exp
    BY <1>1 DEF EvidenceInv, ChampionInv
  <2> QED
    BY <2>1, <2>2, <2>3, <2>4 DEF EvidenceInv, ChampionInv, TypeInv, TypeOK
<1>3. \A x \in Exp :
        /\ state'[x] = IF x = e THEN next ELSE state[x]
        /\ Key("official-valid-running") \in journal'[x]
             => Key("official-valid-running") \in journal[x]
  <2>1. Key("search-promotion") # Key("official-valid-running")
    BY DEF Key
  <2> QED
    BY <1>1, <2>1 DEF TypeInv, TypeOK
<1>4. FinalistInv'
  <2>1. finalist # None
    BY <1>1, StoreAssumption DEF Exp
  <2> QED
    BY <1>1, <1>3, <2>1 DEF EvidenceInv, FinalistInv
<1>5. ResultInv'
  BY <1>1 DEF EvidenceInv, ResultInv
<1>6. RowsInv'
  BY <1>1, <1>3, StoreAssumption DEF EvidenceInv, RowsInv, Exp
<1>7. ChampionInv'
  <2>1. BaselineId \notin Exp /\ e # None
    BY StoreAssumption DEF Exp
  <2>2. CASE isNewBest
    <3>1. primary > BaselineUnits
      BY <1>2, <2>2, StoreAssumption
    <3> QED
      BY <1>1, <1>2, <1>3, <2>1, <2>2, <3>1 DEF EvidenceInv, ChampionInv
  <2>3. CASE ~isNewBest
    BY <1>1, <1>2, <1>3, <2>1, <2>3, StoreAssumption DEF EvidenceInv, ChampionInv
  <2> QED
    BY <2>2, <2>3
<1> QED
  BY <1>4, <1>5, <1>6, <1>7 DEF EvidenceInv

LEMMA JudgeEvidence ==
    ASSUME TypeInv, EvidenceInv, NEW e \in Exp, Judge(e)
    PROVE  EvidenceInv'
<1>1. ASSUME NEW expected \in ExperimentStates \ {"NONE", "PROMOTED"},
             NEW next \in ExperimentStates \ {"NONE", "PROMOTED"},
             NEW step \in PlainSteps \ {"official-valid-running"},
             TransitionExperiment(e, expected, next, Key(step))
      PROVE  EvidenceInv'
  BY <1>1, OtherKeys, QuietTransition
<1>2. ASSUME NEW families, RecordShadowEvaluation(e, families)
      PROVE  EvidenceInv'
  BY <1>2, QuietStep DEF RecordShadowEvaluation, evidenceVars, runVars, resultVars
<1>3. ASSUME NEW expected \in ExperimentStates \ {"NONE", "PROMOTED"},
             NEW step \in PlainSteps \ {"official-valid-running"},
             NEW counted, NEW eligible,
             RejectCandidate(e, expected, step, counted, eligible)
      PROVE  EvidenceInv'
  <2>1. Move(e, expected, "REJECTED", Key(step)) /\ UNCHANGED evidenceVars
    BY <1>3 DEF RejectCandidate, evidenceVars, runVars, resultVars
  <2> QED
    BY <2>1, OtherKeys, QuietMove DEF ExperimentStates, Terminal
<1>4. ASSUME NEW families, RejectCheap(e, families) \/ RejectFull(e, families)
      PROVE  EvidenceInv'
  BY <1>3, <1>4 DEF RejectCheap, RejectFull, PlainSteps, ExperimentStates, Terminal
<1>5. ASSUME NEW step \in {"non-finalist-abandoned", "not-locked-finalist"},
             AbandonNonFinalist(e, step)
      PROVE  EvidenceInv'
  BY <1>1, <1>5 DEF AbandonNonFinalist, ExperimentStates, Terminal, PlainSteps
<1>6. CASE CompleteOfficial(e)
  BY <1>1, <1>6 DEF CompleteOfficial, ExperimentStates, Terminal, PlainSteps
<1>7. CASE RejectNonImproving(e)
  <2>1. /\ Move(e, "OFFICIAL_VALID_COMPLETE", "REJECTED", Key("official-valid-rejected"))
        /\ UNCHANGED evidenceVars
    BY <1>7 DEF RejectNonImproving, evidenceVars, runVars, resultVars
  <2> QED
    BY <2>1, OtherKeys, QuietMove DEF ExperimentStates, Terminal, PlainSteps
<1>8. CASE CountFailedTransaction(e)
  BY <1>8, QuietStep DEF CountFailedTransaction, evidenceVars, runVars, resultVars
<1> QED
  BY <1>2, <1>4, <1>5, <1>6, <1>7, <1>8, LockEvidence, StartOfficialEvidence,
     MetricEvidence, OfficialArtifactEvidence, PromotionEvidence DEF Judge

LEMMA StepEvidence == TypeInv /\ EvidenceInv /\ [StoreNext]_storeVars => EvidenceInv'
<1> SUFFICES ASSUME TypeInv, EvidenceInv, [StoreNext]_storeVars
             PROVE  EvidenceInv'
  OBVIOUS
<1>1. CASE UNCHANGED storeVars
  BY <1>1, QuietStep DEF storeVars, evidenceVars, runVars, resultVars
<1> QED
  BY <1>1, RunStepEvidence, PrepareAndRunEvidence, JudgeEvidence, RepairEvidence DEF StoreNext

\* The evidence invariant holds of every run, whatever the controllers do.
THEOREM EvidenceInvariant == StoreSpec => []EvidenceInv
BY InitEvidence, StepEvidence, TypeInvariant, PTL DEF StoreSpec

\* At most one experiment, the finalist, is ever officially evaluated.
THEOREM OneOfficialEvaluation == StoreSpec => []OfficialBoundToFinalist
<1>1. TypeInv /\ EvidenceInv => OfficialBoundToFinalist
  <2> SUFFICES ASSUME TypeInv, EvidenceInv
               PROVE  OfficialBoundToFinalist
    OBVIOUS
  <2> DEFINE evaluated == {e \in Exp : officialMetric[e] # None}
  <2>1. evaluated \subseteq {finalist}
    BY DEF EvidenceInv, FinalistInv
  <2>2. CASE evaluated = {}
    BY <2>2, FS_EmptySet DEF EvidenceInv, FinalistInv, OfficialBoundToFinalist
  <2>3. CASE evaluated = {finalist}
    <3>1. Cardinality(evaluated) = 1
      BY <2>3, FS_Singleton
    <3> QED
      BY <2>1, <2>3, <3>1 DEF EvidenceInv, FinalistInv, OfficialBoundToFinalist
  <2> QED
    BY <2>1, <2>2, <2>3
<1> QED
  BY <1>1, TypeInvariant, EvidenceInvariant, PTL

\* A champion other than the baseline was promoted as the evaluated finalist.
THEOREM ChampionEarned == StoreSpec => []ChampionEarnedIt
<1>1. TypeInv /\ EvidenceInv => ChampionEarnedIt
  BY StoreAssumption DEF TypeInv, TypeOK, EvidenceInv, ChampionInv, ChampionEarnedIt, Exp
<1> QED
  BY <1>1, TypeInvariant, EvidenceInvariant, PTL

-----------------------------------------------------------------------------

\* The transactions that move the validation phase are these three.
LEMMA PhaseMovers ==
    ASSUME StoreNext
    PROVE  \/ UNCHANGED validationVars
           \/ \E e \in Exp : \/ LockFinalist(e)
                             \/ \E primary \in Scores : RecordOfficialMetrics(e, primary)
                             \/ PromoteSearchCandidate(e)
<1>1. CASE RunStep
  BY <1>1 DEF RunStep, CreateRun, TransitionRun, EstablishBaseline
<1>2. ASSUME NEW e \in Exp, PrepareAndRun(e)
      PROVE  UNCHANGED validationVars
  BY <1>2 DEF PrepareAndRun, CreateExperiment, PrepareStep, AbandonPreparation, StartCheap,
     CompleteCheap, ReserveFull, StartFull, CompleteFull, Diagnose, StoreCheap, StoreFull,
     TransitionExperiment
<1>3. ASSUME NEW e \in Exp, Repair(e)
      PROVE  UNCHANGED validationVars
  BY <1>3 DEF Repair, FailRung, FailFinal, ReserveRepair, BeginRepair,
     ApplyRepairRevision, CompleteRepair, ResumeRung, FailRepair, TransitionExperiment
<1>4. ASSUME NEW e \in Exp, Judge(e)
      PROVE  \/ UNCHANGED validationVars
             \/ LockFinalist(e)
             \/ \E primary \in Scores : RecordOfficialMetrics(e, primary)
             \/ PromoteSearchCandidate(e)
  BY <1>4 DEF Judge, RecordShadowEvaluation, RejectCheap, RejectFull, RejectCandidate,
     AbandonNonFinalist, StartOfficial, StoreOfficial, CompleteOfficial,
     RejectNonImproving, CountFailedTransaction, TransitionExperiment
<1> QED
  BY <1>1, <1>2, <1>3, <1>4 DEF StoreNext

LEMMA PhaseInit == StoreInit => Phase!Init
BY DEF StoreInit, Phase!Init, OfficiallyMeasured

LEMMA PhaseStep ==
    ASSUME TypeInv, EvidenceInv, [StoreNext]_storeVars
    PROVE  [Phase!Next]_(Phase!phaseVars)
<1>1. ASSUME UNCHANGED validationVars
      PROVE  UNCHANGED Phase!phaseVars
  BY <1>1 DEF validationVars, Phase!phaseVars, OfficiallyMeasured
<1>2. ASSUME NEW e \in Exp, LockFinalist(e)
      PROVE  Phase!Lock(e)
  BY <1>2 DEF LockFinalist, DiscoveryOpen, Phase!Lock, OfficiallyMeasured
<1>3. ASSUME NEW e \in Exp, NEW primary \in Scores, RecordOfficialMetrics(e, primary)
      PROVE  Phase!Consume
  <2>1. OfficiallyMeasured = {}
    BY <1>3 DEF RecordOfficialMetrics, EvidenceInv, FinalistInv, OfficiallyMeasured
  <2>2. OfficiallyMeasured' = {e}
    BY <1>3, <2>1, StoreAssumption DEF RecordOfficialMetrics, TypeInv, TypeOK,
       OfficiallyMeasured
  <2> QED
    BY <1>3, <2>1, <2>2 DEF RecordOfficialMetrics, Phase!Consume
<1>4. ASSUME NEW e \in Exp, PromoteSearchCandidate(e)
      PROVE  Phase!Conclude \/ UNCHANGED Phase!phaseVars
  <2>1. OfficiallyMeasured = {finalist}
    BY <1>4 DEF PromoteSearchCandidate, EvidenceInv, FinalistInv, ResultInv,
       OfficiallyMeasured
  <2>2. UNCHANGED <<finalist, OfficiallyMeasured>> /\ phase' = "OFFICIAL_EVALUATED"
    BY <1>4 DEF PromoteSearchCandidate, OfficiallyMeasured
  <2>3. phase \in {"FINALIST_LOCKED", "OFFICIAL_EVALUATED"}
    BY <1>4 DEF PromoteSearchCandidate, TypeInv, TypeOK, Phases
  <2> QED
    BY <2>1, <2>2, <2>3 DEF Phase!Conclude, Phase!phaseVars
<1>5. CASE UNCHANGED storeVars
  BY <1>1, <1>5 DEF storeVars
<1> QED
  BY <1>1, <1>2, <1>3, <1>4, <1>5, PhaseMovers DEF Phase!Next

\* The store implements the validation lifecycle that ValidationPhase promises:
\* one finalist, one official evaluation of it, and no way back.
THEOREM ValidationRefined == StoreSpec => ValidationIsOneWay
BY PhaseInit, PhaseStep, TypeInvariant, EvidenceInvariant, PTL
DEF StoreSpec, ValidationIsOneWay, Phase!Spec

-----------------------------------------------------------------------------
(* Legality of transitions *)

LegalStep ==
    \A e \in Exp : state'[e] # state[e] =>
        \/ state[e] = "NONE" /\ state'[e] = "PROPOSED"
        \/ state'[e] \in LegalNext(state[e])

LEMMA LegalMove ==
    ASSUME TypeInv, NEW e \in Exp, NEW expected, NEW next, NEW key,
           Move(e, expected, next, key), next \in LegalNext(expected)
    PROVE  LegalStep
BY DEF Move, LegalStep, TypeInv, TypeOK

LEMMA LegalTransition ==
    ASSUME TypeInv, NEW e \in Exp, NEW expected, NEW next, NEW key,
           TransitionExperiment(e, expected, next, key), next \in LegalNext(expected)
    PROVE  LegalStep
BY LegalMove DEF TransitionExperiment

\* The pairs the transactions ask for are in the table.
LEMMA LegalPairs ==
    /\ "WORKTREE_READY" \in LegalNext("PROPOSED") /\ "ABANDONED" \in LegalNext("PROPOSED")
    /\ "PATCHED" \in LegalNext("WORKTREE_READY") /\ "STATIC_VALID" \in LegalNext("PATCHED")
    /\ "FIXTURE_VALID" \in LegalNext("STATIC_VALID")
    /\ "CHEAP_RUNNING" \in LegalNext("FIXTURE_VALID")
    /\ "CHEAP_COMPLETE" \in LegalNext("CHEAP_RUNNING")
    /\ "FULL_RESERVED" \in LegalNext("CHEAP_COMPLETE")
    /\ "REJECTED" \in LegalNext("CHEAP_COMPLETE")
    /\ "FULL_RUNNING" \in LegalNext("FULL_RESERVED")
    /\ "FULL_COMPLETE" \in LegalNext("FULL_RUNNING")
    /\ "DIAGNOSED" \in LegalNext("FULL_COMPLETE")
    /\ {"OFFICIAL_VALID_RUNNING", "REJECTED", "ABANDONED"} \subseteq LegalNext("DIAGNOSED")
    /\ "OFFICIAL_VALID_COMPLETE" \in LegalNext("OFFICIAL_VALID_RUNNING")
    /\ {"PROMOTED", "REJECTED"} \subseteq LegalNext("OFFICIAL_VALID_COMPLETE")
    /\ \A r \in Rungs : /\ "FAILED_REPAIRABLE" \in LegalNext(RunningState(r))
                        /\ RunningState(r) \in LegalNext("REPAIRING")
    /\ {"REPAIRING", "FAILED_FINAL"} \subseteq LegalNext("FAILED_REPAIRABLE")
    /\ "FAILED_FINAL" \in LegalNext("REPAIRING")
BY DEF LegalNext, Rungs, RunningState

LEMMA LegalStepHolds ==
    ASSUME TypeInv, EvidenceInv, [StoreNext]_storeVars
    PROVE  LegalStep
<1>1. ASSUME UNCHANGED state
      PROVE  LegalStep
  BY <1>1 DEF LegalStep
<1>2. CASE RunStep
  BY <1>1, <1>2 DEF RunStep, CreateRun, TransitionRun, EstablishBaseline, rowVars
<1>3. ASSUME NEW e \in Exp, CreateExperiment(e)
      PROVE  LegalStep
  BY <1>3 DEF CreateExperiment, LegalStep, EvidenceInv, RowsInv, TypeInv, TypeOK, Exp
<1>4. ASSUME NEW e \in Exp, PrepareAndRun(e)
      PROVE  LegalStep
  <2>1. CASE CreateExperiment(e)
    BY <1>3, <2>1
  <2>2. CASE PrepareStep(e) \/ AbandonPreparation(e) \/ StartCheap(e) \/ CompleteCheap(e)
    BY <2>2, LegalPairs, LegalTransition DEF PrepareStep, AbandonPreparation, StartCheap,
       CompleteCheap
  <2>3. CASE ReserveFull(e) \/ StartFull(e) \/ CompleteFull(e) \/ Diagnose(e)
    BY <2>3, LegalPairs, LegalTransition DEF ReserveFull, StartFull, CompleteFull, Diagnose
  <2>4. ASSUME NEW gate, NEW result, StoreCheap(e, gate) \/ StoreFull(e, result)
        PROVE  LegalStep
    BY <1>1, <2>4 DEF StoreCheap, StoreFull, rowVars
  <2> QED
    BY <1>4, <2>1, <2>2, <2>3, <2>4 DEF PrepareAndRun
<1>5. ASSUME NEW e \in Exp, Judge(e)
      PROVE  LegalStep
  <2>1. ASSUME NEW families, RejectCheap(e, families) \/ RejectFull(e, families)
        PROVE  LegalStep
    BY <2>1, LegalPairs, LegalMove DEF RejectCheap, RejectFull, RejectCandidate
  <2>2. ASSUME NEW step, AbandonNonFinalist(e, step)
        PROVE  LegalStep
    BY <2>2, LegalPairs, LegalTransition DEF AbandonNonFinalist
  <2>3. CASE StartOfficial(e) \/ CompleteOfficial(e)
    BY <2>3, LegalPairs, LegalTransition DEF StartOfficial, CompleteOfficial
  <2>4. CASE RejectNonImproving(e)
    BY <2>4, LegalPairs, LegalMove DEF RejectNonImproving
  <2>5. CASE PromoteSearchCandidate(e)
    <3>1. \E next \in {"PROMOTED", "REJECTED"} :
             Move(e, "OFFICIAL_VALID_COMPLETE", next, Key("search-promotion"))
      BY <2>5 DEF PromoteSearchCandidate
    <3> QED
      BY <3>1, LegalPairs, LegalMove
  <2>6. ASSUME NEW families, NEW primary, NEW safe,
               \/ RecordShadowEvaluation(e, families) \/ LockFinalist(e)
               \/ RecordOfficialMetrics(e, primary) \/ StoreOfficial(e, safe)
               \/ CountFailedTransaction(e)
        PROVE  LegalStep
    BY <1>1, <2>6 DEF RecordShadowEvaluation, LockFinalist, RecordOfficialMetrics,
       StoreOfficial, CountFailedTransaction, rowVars
  <2> QED
    BY <1>5, <2>1, <2>2, <2>3, <2>4, <2>5, <2>6 DEF Judge
<1>6. ASSUME NEW e \in Exp, Repair(e)
      PROVE  LegalStep
  <2>1. ASSUME NEW r \in Rungs, NEW used, NEW status,
               FailRung(e, r, status, used) \/ FailFinal(e, r, used)
        PROVE  LegalStep
    BY <2>1, LegalPairs, LegalMove, LegalTransition DEF FailRung, FailFinal
  <2>2. ASSUME NEW number, BeginRepair(e, number) \/ FailRepair(e, number)
        PROVE  LegalStep
    BY <2>2, LegalPairs, LegalTransition DEF BeginRepair, FailRepair
  <2>3. ASSUME NEW number \in 1..MaxRepairs, ResumeRung(e, number)
        PROVE  LegalStep
    <3>1. repairFor[e][number].rung \in Rungs
      BY <2>3, StoreAssumption DEF ResumeRung, TypeInv, TypeOK, ReservationsNamed, Failures
    <3> QED
      BY <2>3, <3>1, LegalPairs, LegalTransition DEF ResumeRung
  <2>4. ASSUME NEW cause, NEW number,
               \/ ReserveRepair(e, cause) \/ ApplyRepairRevision(e, number)
               \/ CompleteRepair(e, number)
        PROVE  LegalStep
    BY <1>1, <2>4 DEF ReserveRepair, ApplyRepairRevision, CompleteRepair, rowVars
  <2> QED
    BY <1>6, <2>1, <2>2, <2>3, <2>4 DEF Repair
<1>7. CASE UNCHANGED storeVars
  BY <1>1, <1>7 DEF storeVars, rowVars
<1> QED
  BY <1>2, <1>4, <1>5, <1>6, <1>7 DEF StoreNext

\* No sequence of calls makes the code ask for a forbidden transition.
THEOREM TransitionsAreLegal == StoreSpec => OnlyLegalTransitions
<1>1. TypeInv /\ EvidenceInv /\ [StoreNext]_storeVars => [LegalStep]_storeVars
  BY LegalStepHolds
<1> QED
  BY <1>1, TypeInvariant, EvidenceInvariant, PTL DEF StoreSpec, OnlyLegalTransitions, LegalStep

-----------------------------------------------------------------------------
(* The shadow champion *)

\* ShadowChampionIsBest with what the best score is while there is none.
ShadowInv == ShadowChampionIsBest /\ (shadowBest = None <=> shadowChampion = None)

LEMMA ShadowStep ==
    ASSUME TypeInv, ShadowInv, NEW e \in Exp, NEW families,
           RecordShadowEvaluation(e, families)
    PROVE  ShadowInv'
<1> DEFINE result == fullResult[e]
           isNewBest == result.supported /\ (shadowBest = None \/ result.primary > shadowBest)
           Supported == {x \in Exp : shadow[x] # None /\ shadow[x].supported}
<1>1. /\ result \in FullResults /\ result # None /\ shadow[e] = None
      /\ \A x \in Exp : shadow'[x] = IF x = e THEN result ELSE shadow[x]
      /\ shadowBest' = IF isNewBest THEN result.primary ELSE shadowBest
      /\ shadowChampion' = IF isNewBest THEN e ELSE shadowChampion
  BY DEF RecordShadowEvaluation, BeatsShadowChampion, TypeInv, TypeOK
<1>2. result.primary \in Int /\ None \notin Int /\ None \notin Exp
  <2>1. result.primary \in Scores
    BY <1>1 DEF FullResults
  <2>2. None \notin Int /\ None \notin Exp
    BY StoreAssumption DEF Exp
  <2> QED
    BY <2>1, <2>2, StoreAssumption
<1>3. /\ shadowBest \in Int \cup {None}
      /\ \A x \in Exp : shadow[x] # None => shadow[x].primary \in Int
  BY StoreAssumption DEF TypeInv, TypeOK, FullResults
<1>4. Supported' = IF result.supported THEN Supported \cup {e} ELSE Supported
  BY <1>1
<1>5. CASE isNewBest
  BY <1>1, <1>2, <1>3, <1>4, <1>5 DEF ShadowInv, ShadowChampionIsBest
<1>6. CASE ~isNewBest
  BY <1>1, <1>2, <1>3, <1>4, <1>6 DEF ShadowInv, ShadowChampionIsBest
<1> QED
  BY <1>5, <1>6

\* Only record_shadow_evaluation changes what the shadow champion is judged by.
LEMMA ShadowMovers ==
    ASSUME StoreNext
    PROVE  \/ UNCHANGED shadowVars
           \/ \E e \in Exp, families \in 0..Cardinality(ValidFamilies) :
                 RecordShadowEvaluation(e, families)
<1>1. CASE RunStep
  BY <1>1 DEF RunStep, CreateRun, TransitionRun, EstablishBaseline
<1>2. ASSUME NEW e \in Exp, PrepareAndRun(e) \/ Repair(e)
      PROVE  UNCHANGED shadowVars
  BY <1>2 DEF PrepareAndRun, CreateExperiment, PrepareStep, AbandonPreparation, StartCheap,
     CompleteCheap, ReserveFull, StartFull, CompleteFull, Diagnose, StoreCheap, StoreFull,
     Repair, FailRung, FailFinal, ReserveRepair, BeginRepair, ApplyRepairRevision,
     CompleteRepair, ResumeRung, FailRepair, TransitionExperiment
<1>3. ASSUME NEW e \in Exp, Judge(e)
      PROVE  \/ UNCHANGED shadowVars
             \/ \E families \in 0..Cardinality(ValidFamilies) :
                   RecordShadowEvaluation(e, families)
  BY <1>3 DEF Judge, RejectCheap, RejectFull, RejectCandidate, LockFinalist,
     AbandonNonFinalist, StartOfficial, RecordOfficialMetrics, StoreOfficial,
     CompleteOfficial, RejectNonImproving, PromoteSearchCandidate, CountFailedTransaction,
     TransitionExperiment
<1> QED
  BY <1>1, <1>2, <1>3 DEF StoreNext

\* The shadow champion is the best of all supported evaluations, in any order.
THEOREM ShadowChampionBest == StoreSpec => []ShadowChampionIsBest
<1>1. StoreInit => ShadowInv
  BY DEF StoreInit, ShadowInv, ShadowChampionIsBest
<1>2. ASSUME TypeInv, ShadowInv, [StoreNext]_storeVars
      PROVE  ShadowInv'
  <2>1. CASE UNCHANGED shadowVars
    BY <1>2, <2>1 DEF ShadowInv, ShadowChampionIsBest, shadowVars
  <2>2. CASE UNCHANGED storeVars
    BY <2>1, <2>2 DEF storeVars
  <2> QED
    BY <1>2, <2>1, <2>2, ShadowMovers, ShadowStep
<1>3. ShadowInv => ShadowChampionIsBest
  BY DEF ShadowInv
<1> QED
  BY <1>1, <1>2, <1>3, TypeInvariant, PTL DEF StoreSpec

-----------------------------------------------------------------------------
(* Plateaus declared in discovery *)

\* Full-shadow results are never lost, so neither is a valid family.
LEMMA FamiliesGrow ==
    ASSUME TypeInv, [StoreNext]_storeVars
    PROVE  /\ ValidFamilies \subseteq ValidFamilies'
           /\ Cardinality(ValidFamilies) \in Nat /\ Cardinality(ValidFamilies') \in Nat
           /\ Cardinality(ValidFamilies) <= Cardinality(ValidFamilies')
<1>1. \A e \in Exp : fullResult[e] # None => fullResult'[e] # None
  <2>1. ASSUME UNCHANGED fullResult
        PROVE  \A e \in Exp : fullResult[e] # None => fullResult'[e] # None
    BY <2>1
  <2>2. CASE RunStep
    BY <2>1, <2>2 DEF RunStep, CreateRun, TransitionRun, EstablishBaseline, resultVars
  <2>3. ASSUME NEW e \in Exp, PrepareAndRun(e) \/ Repair(e)
        PROVE  UNCHANGED fullResult \/ \E result \in FullResults : StoreFull(e, result)
    BY <2>3 DEF PrepareAndRun, CreateExperiment, PrepareStep, AbandonPreparation,
       StartCheap, CompleteCheap, ReserveFull, StartFull, CompleteFull, Diagnose,
       StoreCheap, Repair, FailRung, FailFinal, ReserveRepair, BeginRepair,
       ApplyRepairRevision, CompleteRepair, ResumeRung, FailRepair,
       TransitionExperiment, resultVars
  <2>4. ASSUME NEW e \in Exp, NEW result \in FullResults, StoreFull(e, result)
        PROVE  \A x \in Exp : fullResult[x] # None => fullResult'[x] # None
    BY <2>4 DEF StoreFull, TypeInv, TypeOK
  <2>5. ASSUME NEW e \in Exp, Judge(e)
        PROVE  UNCHANGED fullResult
    BY <2>5 DEF Judge, RecordShadowEvaluation, RejectCheap, RejectFull, RejectCandidate,
       LockFinalist, AbandonNonFinalist, StartOfficial, RecordOfficialMetrics,
       StoreOfficial, CompleteOfficial, RejectNonImproving, PromoteSearchCandidate,
       CountFailedTransaction, TransitionExperiment, resultVars
  <2>6. CASE UNCHANGED storeVars
    BY <2>1, <2>6 DEF storeVars, resultVars
  <2> QED
    BY <2>1, <2>2, <2>3, <2>4, <2>5, <2>6 DEF StoreNext
<1>2. ValidFamilies \subseteq ValidFamilies'
  BY <1>1 DEF ValidFamilies
<1>3. IsFiniteSet(ValidFamilies')
  <2> DEFINE evaluated == {x \in Exp : fullResult'[x] # None}
  <2>1. IsFiniteSet(Exp)
    BY FS_Interval, StoreAssumption DEF Exp
  <2>2. IsFiniteSet(evaluated)
    BY <2>1, FS_Subset
  <2>3. ValidFamilies' = {Family[e] : e \in evaluated}
    BY DEF ValidFamilies
  <2>4. [e \in evaluated |-> Family[e]] \in Surjection(evaluated, ValidFamilies')
    BY <2>3 DEF Surjection
  <2> QED
    BY <2>2, <2>4, FS_Surjection
<1> QED
  BY <1>2, <1>3, FS_Subset, FS_CardinalityType

LEMMA DiversityStep ==
    ASSUME TypeInv, EvidenceInv, DiscoveryPlateauIsDiverse, [StoreNext]_storeVars
    PROVE  DiscoveryPlateauIsDiverse'
<1> DEFINE old == Cardinality(ValidFamilies)
           new == Cardinality(ValidFamilies')
<1>1. old \in Nat /\ new \in Nat /\ old <= new /\ MinFamilies \in Nat
  BY FamiliesGrow, StoreAssumption
<1>2. phase' = "DISCOVERY" => phase = "DISCOVERY"
  BY PhaseStep DEF Phase!Next, Phase!Lock, Phase!Consume, Phase!Conclude, Phase!phaseVars
<1>3. ASSUME stopReason' = "epsilon_plateau" => stopReason = "epsilon_plateau"
      PROVE  DiscoveryPlateauIsDiverse'
  <2>1. DiscoveryPlateauIsDiverse => (phase = "DISCOVERY" /\ stopReason = "epsilon_plateau"
                                       => old >= MinFamilies)
    BY DEF DiscoveryPlateauIsDiverse
  <2>2. (phase' = "DISCOVERY" /\ stopReason' = "epsilon_plateau" => new >= MinFamilies)
         => DiscoveryPlateauIsDiverse'
    BY DEF DiscoveryPlateauIsDiverse
  <2> HIDE DEF old, new
  <2> QED
    BY <1>1, <1>2, <1>3, <2>1, <2>2
\* A controller counted the families some time before.
<1>4. ASSUME NEW families \in 0..old, NEW newStreak,
             stopReason' = Plateau(newStreak, families >= MinFamilies)
      PROVE  DiscoveryPlateauIsDiverse'
  <2>1. (phase' = "DISCOVERY" /\ stopReason' = "epsilon_plateau" => new >= MinFamilies)
         => DiscoveryPlateauIsDiverse'
    BY DEF DiscoveryPlateauIsDiverse
  <2>2. CASE families >= MinFamilies
    <3> HIDE DEF old, new
    <3> QED
      BY <1>1, <2>1, <2>2
  <2>3. CASE ~(families >= MinFamilies)
    BY <1>3, <1>4, <2>3 DEF Plateau
  <2> QED
    BY <2>2, <2>3
<1>5. CASE RunStep
  <2>1. ASSUME NEW expected, NEW next, NEW reason, reason # "epsilon_plateau",
               TransitionRun(expected, next, reason)
        PROVE  DiscoveryPlateauIsDiverse'
    BY <1>3, <2>1 DEF TransitionRun
  <2>2. ASSUME NEW reason \in FinalizeReasons,
               TransitionRun("SEARCHING", "FINALIZING", reason)
        PROVE  DiscoveryPlateauIsDiverse'
    BY <1>3, <2>2 DEF TransitionRun, FinalizeReasons
  <2>3. CASE CreateRun \/ EstablishBaseline
    BY <1>3, <2>3 DEF CreateRun, EstablishBaseline, convergenceVars
  <2>4. ASSUME NEW expected, NEW next, TransitionRun(expected, next, None)
        PROVE  DiscoveryPlateauIsDiverse'
    BY <1>3, <2>4 DEF TransitionRun
  <2> QED
    BY <1>5, <2>1, <2>2, <2>3, <2>4 DEF RunStep
<1>6. ASSUME NEW e \in Exp, PrepareAndRun(e) \/ Repair(e)
      PROVE  DiscoveryPlateauIsDiverse'
  BY <1>3, <1>6 DEF PrepareAndRun, CreateExperiment, PrepareStep, AbandonPreparation,
     StartCheap, CompleteCheap, ReserveFull, StartFull, CompleteFull, Diagnose, StoreCheap,
     StoreFull, Repair, FailRung, FailFinal, ReserveRepair, BeginRepair,
     ApplyRepairRevision, CompleteRepair, ResumeRung, FailRepair, TransitionExperiment,
     convergenceVars
<1>7. ASSUME NEW e \in Exp, Judge(e)
      PROVE  DiscoveryPlateauIsDiverse'
  <2>1. ASSUME NEW families \in 0..old,
               \/ RecordShadowEvaluation(e, families)
               \/ RejectCheap(e, families) \/ RejectFull(e, families)
        PROVE  DiscoveryPlateauIsDiverse'
    BY <1>4, <2>1 DEF RecordShadowEvaluation, RejectCheap, RejectFull, RejectCandidate
  \* An official verdict may declare a plateau on any evidence, but discovery
  \* has been closed by then.
  <2>2. CASE RejectNonImproving(e) \/ PromoteSearchCandidate(e)
    <3>1. officialMetric[e] # None
      BY <2>2 DEF RejectNonImproving, PromoteSearchCandidate, EvidenceInv, ResultInv
    <3>2. finalist # None
      BY <3>1, StoreAssumption DEF EvidenceInv, FinalistInv, Exp
    <3>3. phase # "DISCOVERY"
      BY <3>2 DEF EvidenceInv, FinalistInv
    <3> QED
      BY <1>2, <3>3 DEF DiscoveryPlateauIsDiverse
  <2>3. ASSUME NEW step, AbandonNonFinalist(e, step)
        PROVE  DiscoveryPlateauIsDiverse'
    BY <1>3, <2>3 DEF AbandonNonFinalist, TransitionExperiment, convergenceVars
  <2>4. ASSUME NEW primary, NEW safe,
               \/ LockFinalist(e) \/ StartOfficial(e) \/ CompleteOfficial(e)
               \/ RecordOfficialMetrics(e, primary) \/ StoreOfficial(e, safe)
               \/ CountFailedTransaction(e)
        PROVE  DiscoveryPlateauIsDiverse'
    BY <1>3, <2>4 DEF LockFinalist, StartOfficial, CompleteOfficial, RecordOfficialMetrics,
       StoreOfficial, CountFailedTransaction, TransitionExperiment, convergenceVars
  <2> QED
    BY <1>7, <2>1, <2>2, <2>3, <2>4 DEF Judge
<1>8. CASE UNCHANGED storeVars
  BY <1>3, <1>8 DEF storeVars, convergenceVars
<1> QED
  BY <1>5, <1>6, <1>7, <1>8 DEF StoreNext

\* While discovery is open a recorded plateau rests on enough families, however
\* old the family count was that its caller took.
THEOREM DiscoveryPlateauDiverse == StoreSpec => []DiscoveryPlateauIsDiverse
<1>1. StoreInit => DiscoveryPlateauIsDiverse
  BY NullAssumption DEF StoreInit, DiscoveryPlateauIsDiverse, StopReasons
<1> QED
  BY <1>1, DiversityStep, TypeInvariant, EvidenceInvariant, PTL DEF StoreSpec

-----------------------------------------------------------------------------
(* The streak counts hypotheses once.  Two kinds of transactions lengthen  *)
(* it while discovery is open, each for the experiment it is about: they   *)
(* cannot both do so for one experiment because the cheap gate is decided  *)
(* before the full rung is reserved, and a rejection is final.             *)

\* What an experiment's journal says of the way it came.
Ladder(e) ==
    /\ state[e] = "CHEAP_COMPLETE" => Key("cheap-complete") \in journal[e]
    /\ state[e] = "FULL_RESERVED" => Key("full-reserved") \in journal[e]
    /\ Key("full-reserved") \in journal[e] => Key("cheap-complete") \in journal[e] /\ state[e] # "CHEAP_COMPLETE"
    /\ Key("full-running") \in journal[e] => Key("full-reserved") \in journal[e]
    /\ fullResult[e] # None => Key("full-running") \in journal[e]
    /\ shadow[e] # None => fullResult[e] # None
    /\ outcome[e] = "rejected_before_official" => state[e] = "REJECTED"

Counted == {e \in Exp : shadow[e] # None \/ outcome[e] = "rejected_before_official"}

StreakInv == (\A e \in Exp : Ladder(e)) /\ StreakCountsHypothesesOnce

\* Which moves respect the ladder, by the key they are journalled under.
Climbs(expected, next, key) ==
    /\ expected # "REJECTED"
    /\ next = "CHEAP_COMPLETE" => key = Key("cheap-complete")
    /\ next = "FULL_RESERVED" <=> key = Key("full-reserved")
    /\ key = Key("full-reserved") => expected = "CHEAP_COMPLETE"
    /\ key = Key("full-running") => expected = "FULL_RESERVED"

ladderVars == <<rowVars, fullResult, shadow, outcome>>

LEMMA LadderStays ==
    ASSUME \A e \in Exp : Ladder(e), UNCHANGED ladderVars
    PROVE  \A e \in Exp : Ladder(e)'
BY DEF Ladder, ladderVars, rowVars

LEMMA LadderMove ==
    ASSUME TypeInv, \A x \in Exp : Ladder(x), NEW e \in Exp, NEW expected, NEW next, NEW key,
           Move(e, expected, next, key), Climbs(expected, next, key), UNCHANGED <<fullResult, shadow>>,
           \A x \in Exp : x # e => outcome'[x] = outcome[x],
           outcome'[e] = "rejected_before_official" => outcome[e] = "rejected_before_official" \/ next = "REJECTED"
    PROVE  \A x \in Exp : Ladder(x)'
<1>1. /\ key \notin journal[e] /\ state[e] = expected /\ state'[e] = next /\ journal'[e] = journal[e] \cup {key}
      /\ \A x \in Exp : x # e => state'[x] = state[x] /\ journal'[x] = journal[x]
  BY DEF Move, TypeInv, TypeOK
<1>2. ASSUME NEW x \in Exp, x # e
      PROVE  Ladder(x)'
  BY <1>1, <1>2 DEF Ladder
<1>3. Ladder(e)'
  <2>1. Key("full-running") # Key("full-reserved") /\ Key("cheap-complete") # Key("full-reserved")
    BY DEF Key
  <2>2. /\ next = "CHEAP_COMPLETE" => Key("cheap-complete") \in journal'[e]
        /\ next = "FULL_RESERVED" => Key("full-reserved") \in journal'[e]
    BY <1>1 DEF Climbs
  <2>3. Key("full-reserved") \in journal'[e] => Key("cheap-complete") \in journal'[e] /\ next # "CHEAP_COMPLETE"
    <3>1. CASE key = Key("full-reserved")
      BY <1>1, <3>1 DEF Climbs, Ladder
    <3>2. CASE key # Key("full-reserved")
      BY <1>1, <3>2 DEF Climbs, Ladder
    <3> QED
      BY <3>1, <3>2
  <2>4. Key("full-running") \in journal'[e] => Key("full-reserved") \in journal'[e]
    BY <1>1 DEF Climbs, Ladder
  <2>5. outcome'[e] = "rejected_before_official" => next = "REJECTED"
    BY <1>1 DEF Climbs, Ladder
  <2> QED
    BY <1>1, <2>2, <2>3, <2>4, <2>5 DEF Ladder
<1> QED
  BY <1>2, <1>3

LEMMA LadderTransition ==
    ASSUME TypeInv, \A x \in Exp : Ladder(x), NEW e \in Exp, NEW expected, NEW next, NEW key,
           TransitionExperiment(e, expected, next, key), Climbs(expected, next, key)
    PROVE  \A x \in Exp : Ladder(x)'
BY LadderMove DEF TransitionExperiment, resultVars, shadowVars, convergenceVars

\* The moves the transactions ask for climb.
LEMMA PlainClimbs ==
    /\ Climbs("PROPOSED", "WORKTREE_READY", Key("worktree-ready"))
    /\ Climbs("WORKTREE_READY", "PATCHED", Key("patched"))
    /\ Climbs("PATCHED", "STATIC_VALID", Key("static-valid"))
    /\ Climbs("STATIC_VALID", "FIXTURE_VALID", Key("fixture-valid"))
    /\ Climbs("PROPOSED", "ABANDONED", Key("preparation-abandoned"))
    /\ Climbs("FIXTURE_VALID", "CHEAP_RUNNING", Key("cheap-running"))
    /\ Climbs("CHEAP_RUNNING", "CHEAP_COMPLETE", Key("cheap-complete"))
    /\ Climbs("CHEAP_COMPLETE", "FULL_RESERVED", Key("full-reserved"))
    /\ Climbs("FULL_RESERVED", "FULL_RUNNING", Key("full-running"))
    /\ Climbs("FULL_RUNNING", "FULL_COMPLETE", Key("full-complete"))
    /\ Climbs("FULL_COMPLETE", "DIAGNOSED", Key("diagnosed"))
    /\ Climbs("DIAGNOSED", "OFFICIAL_VALID_RUNNING", Key("official-valid-running"))
    /\ Climbs("OFFICIAL_VALID_RUNNING", "OFFICIAL_VALID_COMPLETE", Key("official-valid-complete"))
    /\ \A step \in {"non-finalist-abandoned", "not-locked-finalist"} : Climbs("DIAGNOSED", "ABANDONED", Key(step))
    /\ Climbs("CHEAP_COMPLETE", "REJECTED", Key("cheap-rejected"))
    /\ Climbs("DIAGNOSED", "REJECTED", Key("full-rejected"))
    /\ Climbs("OFFICIAL_VALID_COMPLETE", "REJECTED", Key("official-valid-rejected"))
    /\ \A next \in {"PROMOTED", "REJECTED"} : Climbs("OFFICIAL_VALID_COMPLETE", next, Key("search-promotion"))
BY DEF Climbs, Key

LEMMA FailureClimbs ==
    /\ \A r \in Rungs, used \in 0..MaxRepairs :
          /\ Climbs(RunningState(r), "FAILED_REPAIRABLE", RungKey("failure", r, used))
          /\ Climbs("FAILED_REPAIRABLE", "FAILED_FINAL", RungKey("failed-final", r, used))
    /\ \A n \in 1..MaxRepairs :
          /\ Climbs("FAILED_REPAIRABLE", "REPAIRING", RepairKey("repairing", n))
          /\ Climbs("REPAIRING", "FAILED_FINAL", RepairKey("repair-failed", n))
          /\ \A r \in Rungs : Climbs("REPAIRING", RunningState(r), RepairKey("completed", n))
BY DEF Climbs, Key, RungKey, RepairKey, RunningState, Rungs

LEMMA LadderStep ==
    ASSUME TypeInv, \A e \in Exp : Ladder(e), EvidenceInv, [StoreNext]_storeVars
    PROVE  \A e \in Exp : Ladder(e)'
<1>1. CASE UNCHANGED storeVars
  BY <1>1, LadderStays DEF storeVars, ladderVars, resultVars, shadowVars, convergenceVars
<1>2. CASE RunStep
  BY <1>2, LadderStays DEF RunStep, CreateRun, TransitionRun, EstablishBaseline, ladderVars, resultVars, shadowVars, convergenceVars
<1>3. ASSUME NEW e \in Exp, PrepareAndRun(e)
      PROVE  \A x \in Exp : Ladder(x)'
  <2>1. CASE CreateExperiment(e)
    <3>1. /\ state[e] = "NONE" /\ state'[e] = "PROPOSED" /\ \A x \in Exp : x # e => state'[x] = state[x]
          /\ UNCHANGED <<journal, fullResult, shadow, outcome>>
      BY <2>1 DEF CreateExperiment, EvidenceInv, RowsInv, TypeInv, TypeOK, Exp, resultVars, shadowVars, convergenceVars
    <3> QED
      BY <3>1 DEF Ladder
  <2>2. CASE PrepareStep(e) \/ AbandonPreparation(e) \/ StartCheap(e) \/ CompleteCheap(e)
    BY <2>2, PlainClimbs, LadderTransition DEF PrepareStep, AbandonPreparation, StartCheap, CompleteCheap
  <2>3. CASE ReserveFull(e) \/ StartFull(e) \/ CompleteFull(e) \/ Diagnose(e)
    BY <2>3, PlainClimbs, LadderTransition DEF ReserveFull, StartFull, CompleteFull, Diagnose
  <2>4. ASSUME NEW gate, StoreCheap(e, gate)
        PROVE  \A x \in Exp : Ladder(x)'
    BY <2>4, LadderStays DEF StoreCheap, ladderVars, shadowVars, convergenceVars
  <2>5. ASSUME NEW result, StoreFull(e, result)
        PROVE  \A x \in Exp : Ladder(x)'
    <3>1. /\ Key("full-running") \in journal[e] /\ fullResult[e] = None /\ UNCHANGED <<rowVars, shadow, outcome>>
          /\ \A x \in Exp : x # e => fullResult'[x] = fullResult[x]
      BY <2>5 DEF StoreFull, shadowVars, convergenceVars, TypeInv, TypeOK
    <3>2. ASSUME NEW x \in Exp
          PROVE  Ladder(x)'
      <4>1. CASE x = e
        BY <3>1, <4>1 DEF Ladder, rowVars
      <4>2. CASE x # e
        BY <3>1, <4>2 DEF Ladder, rowVars
      <4> QED
        BY <4>1, <4>2
    <3> QED
      BY <3>2
  <2> QED
    BY <1>3, <2>1, <2>2, <2>3, <2>4, <2>5 DEF PrepareAndRun
<1>4. ASSUME NEW e \in Exp, Repair(e)
      PROVE  \A x \in Exp : Ladder(x)'
  <2>1. ASSUME NEW r \in Rungs, NEW used \in 0..MaxRepairs, NEW status, FailRung(e, r, status, used)
        PROVE  \A x \in Exp : Ladder(x)'
    BY <2>1, FailureClimbs, LadderMove DEF FailRung, resultVars, shadowVars, convergenceVars
  <2>2. ASSUME NEW r \in Rungs, NEW used \in 0..MaxRepairs, FailFinal(e, r, used)
        PROVE  \A x \in Exp : Ladder(x)'
    BY <2>2, FailureClimbs, LadderTransition DEF FailFinal
  <2>3. ASSUME NEW cause, ReserveRepair(e, cause)
        PROVE  \A x \in Exp : Ladder(x)'
    BY <2>3, LadderStays DEF ReserveRepair, ladderVars, resultVars, shadowVars, convergenceVars
  <2>4. ASSUME NEW n \in 1..MaxRepairs, BeginRepair(e, n) \/ FailRepair(e, n)
        PROVE  \A x \in Exp : Ladder(x)'
    BY <2>4, FailureClimbs, LadderTransition DEF BeginRepair, FailRepair
  <2>5. ASSUME NEW n \in 1..MaxRepairs, ApplyRepairRevision(e, n) \/ CompleteRepair(e, n)
        PROVE  \A x \in Exp : Ladder(x)'
    BY <2>5, LadderStays DEF ApplyRepairRevision, CompleteRepair, ladderVars, resultVars, shadowVars, convergenceVars
  <2>6. ASSUME NEW n \in 1..MaxRepairs, ResumeRung(e, n)
        PROVE  \A x \in Exp : Ladder(x)'
    <3>1. repairFor[e][n] \in Failures
      BY <2>6, StoreAssumption DEF ResumeRung, TypeInv, TypeOK, ReservationsNamed
    <3>2. repairFor[e][n].rung \in Rungs
      BY <3>1 DEF Failures
    <3> QED
      BY <2>6, <3>2, FailureClimbs, LadderTransition DEF ResumeRung
  <2> QED
    BY <1>4, <2>1, <2>2, <2>3, <2>4, <2>5, <2>6 DEF Repair
<1>5. ASSUME NEW e \in Exp, Judge(e)
      PROVE  \A x \in Exp : Ladder(x)'
  <2>1. ASSUME NEW families, RecordShadowEvaluation(e, families)
        PROVE  \A x \in Exp : Ladder(x)'
    <3>1. /\ fullResult[e] # None /\ UNCHANGED <<rowVars, fullResult, outcome>>
          /\ \A x \in Exp : x # e => shadow'[x] = shadow[x]
      BY <2>1 DEF RecordShadowEvaluation, resultVars, TypeInv, TypeOK
    <3>2. ASSUME NEW x \in Exp
          PROVE  Ladder(x)'
      <4>1. CASE x = e
        BY <3>1, <4>1 DEF Ladder, rowVars
      <4>2. CASE x # e
        BY <3>1, <4>2 DEF Ladder, rowVars
      <4> QED
        BY <4>1, <4>2
    <3> QED
      BY <3>2
  <2>2. ASSUME NEW families, RejectCheap(e, families) \/ RejectFull(e, families)
        PROVE  \A x \in Exp : Ladder(x)'
    <3>1. /\ UNCHANGED <<fullResult, shadow>> /\ \A x \in Exp : x # e => outcome'[x] = outcome[x]
          /\ \/ Move(e, "CHEAP_COMPLETE", "REJECTED", Key("cheap-rejected"))
             \/ Move(e, "DIAGNOSED", "REJECTED", Key("full-rejected"))
      BY <2>2 DEF RejectCheap, RejectFull, RejectCandidate, resultVars, shadowVars, TypeInv, TypeOK
    <3> QED
      BY <3>1, PlainClimbs, LadderMove
  <2>3. ASSUME NEW step \in {"non-finalist-abandoned", "not-locked-finalist"}, AbandonNonFinalist(e, step)
        PROVE  \A x \in Exp : Ladder(x)'
    BY <2>3, PlainClimbs, LadderTransition DEF AbandonNonFinalist
  <2>4. CASE StartOfficial(e) \/ CompleteOfficial(e)
    BY <2>4, PlainClimbs, LadderTransition DEF StartOfficial, CompleteOfficial
  <2>5. CASE RejectNonImproving(e) \/ PromoteSearchCandidate(e)
    <3>1. PICK next \in {"PROMOTED", "REJECTED"}, step \in {"official-valid-rejected", "search-promotion"} :
             /\ Move(e, "OFFICIAL_VALID_COMPLETE", next, Key(step))
             /\ step = "official-valid-rejected" => next = "REJECTED"
      BY <2>5 DEF RejectNonImproving, PromoteSearchCandidate
    <3>2. /\ UNCHANGED <<fullResult, shadow>> /\ \A x \in Exp : x # e => outcome'[x] = outcome[x]
          /\ outcome'[e] # "rejected_before_official"
      BY <2>5 DEF RejectNonImproving, PromoteSearchCandidate, resultVars, shadowVars, TypeInv, TypeOK
    <3>3. Climbs("OFFICIAL_VALID_COMPLETE", next, Key(step))
      BY <3>1, PlainClimbs
    <3> QED
      BY <3>1, <3>2, <3>3, LadderMove
  <2>6. CASE LockFinalist(e)
    BY <2>6, LadderStays DEF LockFinalist, ladderVars, resultVars, shadowVars, convergenceVars
  <2>7. ASSUME NEW primary, NEW safe, RecordOfficialMetrics(e, primary) \/ StoreOfficial(e, safe)
        PROVE  \A x \in Exp : Ladder(x)'
    BY <2>7, LadderStays DEF RecordOfficialMetrics, StoreOfficial, ladderVars, resultVars, shadowVars, convergenceVars
  <2>8. CASE CountFailedTransaction(e)
    <3>1. /\ UNCHANGED <<rowVars, fullResult, shadow>> /\ outcome'[e] = "invalid_failure"
          /\ \A x \in Exp : x # e => outcome'[x] = outcome[x]
      BY <2>8 DEF CountFailedTransaction, resultVars, shadowVars, TypeInv, TypeOK
    <3>2. ASSUME NEW x \in Exp
          PROVE  Ladder(x)'
      <4>1. CASE x = e
        BY <3>1, <4>1 DEF Ladder, rowVars
      <4>2. CASE x # e
        BY <3>1, <4>2 DEF Ladder, rowVars
      <4> QED
        BY <4>1, <4>2
    <3> QED
      BY <3>2
  <2> QED
    BY <1>5, <2>1, <2>2, <2>3, <2>4, <2>5, <2>6, <2>7, <2>8 DEF Judge
<1> QED
  BY <1>1, <1>2, <1>3, <1>4, <1>5 DEF StoreNext

LEMMA CountedFinite == IsFiniteSet(Counted) /\ Cardinality(Counted) \in Nat
<1>1. IsFiniteSet(Exp) /\ Counted \subseteq Exp
  BY StoreAssumption, FS_Interval DEF Exp, Counted
<1> QED
  BY <1>1, FS_Subset, FS_CardinalityType

\* A transaction that lengthens the streak counts its experiment.
LEMMA CountsOne ==
    ASSUME TypeInv, StreakCountsHypothesesOnce, NEW e \in Exp, e \notin Counted, Counted' = Counted \cup {e},
           streak' \in {0, streak + 1}, phase = "DISCOVERY"
    PROVE  StreakCountsHypothesesOnce'
<1>1. Cardinality(Counted') = Cardinality(Counted) + 1
  BY CountedFinite, FS_AddElement
<1>2. streak <= Cardinality(Counted) /\ streak \in Nat
  BY DEF StreakCountsHypothesesOnce, Counted, TypeInv, TypeOK
<1>3. streak' <= Cardinality(Counted')
  BY <1>1, <1>2, CountedFinite
<1> QED
  BY <1>3 DEF StreakCountsHypothesesOnce, Counted

LEMMA CountsNone ==
    ASSUME StreakCountsHypothesesOnce, Counted' = Counted, streak' = streak, phase' = "DISCOVERY" => phase = "DISCOVERY"
    PROVE  StreakCountsHypothesesOnce'
BY DEF StreakCountsHypothesesOnce, Counted

LEMMA StreakStep ==
    ASSUME TypeInv, EvidenceInv, StreakInv, [StoreNext]_storeVars
    PROVE  StreakCountsHypothesesOnce'
<1>1. phase' = "DISCOVERY" => phase = "DISCOVERY"
  BY PhaseMovers DEF storeVars, validationVars, LockFinalist, RecordOfficialMetrics, PromoteSearchCandidate
<1>2. ASSUME UNCHANGED <<streak, shadow, outcome>>
      PROVE  StreakCountsHypothesesOnce'
  <2>1. Counted' = Counted
    BY <1>2 DEF Counted
  <2> QED
    BY <1>1, <1>2, <2>1, CountsNone DEF StreakInv
<1>3. CASE UNCHANGED storeVars
  BY <1>2, <1>3 DEF storeVars, shadowVars, convergenceVars
<1>4. CASE RunStep
  BY <1>2, <1>4 DEF RunStep, CreateRun, TransitionRun, EstablishBaseline, shadowVars, convergenceVars
<1>5. ASSUME NEW e \in Exp, PrepareAndRun(e) \/ Repair(e)
      PROVE  StreakCountsHypothesesOnce'
  BY <1>2, <1>5 DEF PrepareAndRun, CreateExperiment, PrepareStep, AbandonPreparation,
     StartCheap, CompleteCheap, ReserveFull, StartFull, CompleteFull, Diagnose, StoreCheap,
     StoreFull, Repair, FailRung, FailFinal, ReserveRepair, BeginRepair,
     ApplyRepairRevision, CompleteRepair, ResumeRung, FailRepair, TransitionExperiment,
     shadowVars, convergenceVars
<1>6. ASSUME NEW e \in Exp, Judge(e)
      PROVE  StreakCountsHypothesesOnce'
  <2>1. ASSUME NEW families, RecordShadowEvaluation(e, families)
        PROVE  StreakCountsHypothesesOnce'
    <3>1. /\ fullResult[e] # None /\ shadow[e] = None /\ state[e] = "DIAGNOSED" /\ phase = "DISCOVERY"
          /\ outcome' = outcome /\ shadow' = [shadow EXCEPT ![e] = fullResult[e]] /\ streak' \in {0, streak + 1}
      BY <2>1 DEF RecordShadowEvaluation, DiscoveryOpen
    <3>2. shadow'[e] # None /\ \A x \in Exp : x # e => shadow'[x] = shadow[x]
      BY <3>1 DEF TypeInv, TypeOK
    <3>3. e \notin Counted
      BY <3>1 DEF StreakInv, Ladder, Counted
    <3>4. Counted' = Counted \cup {e}
      BY <3>1, <3>2 DEF Counted
    <3> QED
      BY <3>1, <3>3, <3>4, CountsOne DEF StreakInv
  <2>2. ASSUME NEW families, RejectCheap(e, families)
        PROVE  StreakCountsHypothesesOnce'
    <3>1. /\ state[e] = "CHEAP_COMPLETE" /\ streak' = streak + 1 /\ shadow' = shadow
          /\ outcome' = [outcome EXCEPT ![e] = "rejected_before_official"]
          /\ phase' = phase
      BY <2>2 DEF RejectCheap, RejectCandidate, Move, shadowVars, validationVars
    <3>2. outcome'[e] = "rejected_before_official" /\ \A x \in Exp : x # e => outcome'[x] = outcome[x]
      BY <3>1 DEF TypeInv, TypeOK
    <3>3. e \notin Counted
      BY <3>1 DEF StreakInv, Ladder, Counted
    <3>4. Counted' = Counted \cup {e}
      BY <3>1, <3>2 DEF Counted
    <3>5. CASE phase = "DISCOVERY"
      BY <3>1, <3>3, <3>4, <3>5, CountsOne DEF StreakInv
    <3>6. CASE phase # "DISCOVERY"
      BY <3>1, <3>6 DEF StreakCountsHypothesesOnce
    <3> QED
      BY <3>5, <3>6
  <2>3. ASSUME NEW families, RejectFull(e, families)
        PROVE  StreakCountsHypothesesOnce'
    BY <1>2, <2>3 DEF RejectFull, RejectCandidate, shadowVars
  <2>4. CASE RejectNonImproving(e) \/ PromoteSearchCandidate(e)
    <3>1. officialMetric[e] # None
      BY <2>4 DEF RejectNonImproving, PromoteSearchCandidate, EvidenceInv, ResultInv
    <3>2. finalist # None
      BY <3>1, StoreAssumption DEF EvidenceInv, FinalistInv, Exp
    <3>3. phase # "DISCOVERY"
      BY <3>2 DEF EvidenceInv, FinalistInv
    <3> QED
      BY <1>1, <3>3 DEF StreakCountsHypothesesOnce
  <2>5. CASE CountFailedTransaction(e)
    <3>1. /\ outcome[e] = None /\ UNCHANGED <<streak, shadow>>
          /\ outcome'[e] = "invalid_failure" /\ \A x \in Exp : x # e => outcome'[x] = outcome[x]
      BY <2>5 DEF CountFailedTransaction, shadowVars, TypeInv, TypeOK
    <3>2. outcome[e] # "rejected_before_official"
      BY <2>5 DEF CountFailedTransaction, StreakInv, Ladder
    <3>3. Counted' = Counted
      BY <3>1, <3>2 DEF Counted
    <3> QED
      BY <1>1, <3>1, <3>3, CountsNone DEF StreakInv
  <2>6. ASSUME NEW step, AbandonNonFinalist(e, step)
        PROVE  StreakCountsHypothesesOnce'
    BY <1>2, <2>6 DEF AbandonNonFinalist, TransitionExperiment, shadowVars, convergenceVars
  <2>7. ASSUME NEW primary, NEW safe,
               \/ LockFinalist(e) \/ StartOfficial(e) \/ CompleteOfficial(e)
               \/ RecordOfficialMetrics(e, primary) \/ StoreOfficial(e, safe)
        PROVE  StreakCountsHypothesesOnce'
    BY <1>2, <2>7 DEF LockFinalist, StartOfficial, CompleteOfficial, RecordOfficialMetrics,
       StoreOfficial, TransitionExperiment, shadowVars, convergenceVars
  <2> QED
    BY <1>6, <2>1, <2>2, <2>3, <2>4, <2>5, <2>6, <2>7 DEF Judge
<1> QED
  BY <1>3, <1>4, <1>5, <1>6 DEF StoreNext

LEMMA StreakInvariant == StoreSpec => []StreakInv
<1>1. StoreInit => StreakInv
  <2> SUFFICES ASSUME StoreInit PROVE StreakInv
    OBVIOUS
  <2>1. \A e \in Exp : Ladder(e)
    <3> TAKE e \in Exp
    <3>1. /\ state[e] = "NONE" /\ journal[e] = {} /\ fullResult[e] = None
          /\ officialResult[e] = None /\ officialMetric[e] = None
          /\ shadow[e] = None /\ outcome[e] = None
      BY DEF StoreInit
    <3>2. None # "rejected_before_official"
      BY NullAssumption DEF Outcomes
    <3> QED
      BY <3>1, <3>2 DEF Ladder
  <2>2. StreakCountsHypothesesOnce
    BY CountedFinite DEF StoreInit, StreakCountsHypothesesOnce, Counted
  <2> QED
    BY <2>1, <2>2 DEF StreakInv
<1>2. TypeInv /\ EvidenceInv /\ StreakInv /\ [StoreNext]_storeVars => StreakInv'
  BY LadderStep, StreakStep DEF StreakInv
<1> QED
  BY <1>1, <1>2, TypeInvariant, EvidenceInvariant, PTL DEF StoreSpec

\* While discovery is open no hypothesis lengthens the streak twice, in however
\* many transactions and by however many controllers it is rejected.
THEOREM StreakCountsOnce == StoreSpec => []StreakCountsHypothesesOnce
<1>1. StreakInv => StreakCountsHypothesesOnce
  BY DEF StreakInv
<1> QED
  BY <1>1, StreakInvariant, PTL

-----------------------------------------------------------------------------
(* What a row says of its verdict.                                         *)

\* A supported candidate waits for the lock while discovery is open, a counted
\* outcome is that of a judged experiment or of a failure, and the finalist of an
\* evaluated run has been judged.
RowFact(e) ==
    /\ phase = "DISCOVERY" /\ shadow[e] # None /\ shadow[e].supported => state[e] = "DIAGNOSED"
    /\ outcome[e] \in {None, "invalid_failure"} \/ state[e] \in {"REJECTED", "PROMOTED"}
    /\ phase = "OFFICIAL_EVALUATED" /\ finalist = e => state[e] \in {"PROMOTED", "REJECTED"}

RowFacts == \A e \in Exp : RowFact(e)

\* A move that leaves the verdict alone.
Unjudged(e, expected, next) ==
    /\ expected \notin {"PROMOTED", "REJECTED"}
    /\ expected = "DIAGNOSED" => phase # "DISCOVERY" \/ shadow[e] = None \/ ~shadow[e].supported

LEMMA FactsStay ==
    ASSUME RowFacts, UNCHANGED <<phase, finalist, shadow, outcome, state>>
    PROVE  RowFacts'
BY DEF RowFacts, RowFact

LEMMA FactsMove ==
    ASSUME TypeInv, RowFacts, NEW e \in Exp, NEW expected, NEW next, NEW key, Move(e, expected, next, key),
           UNCHANGED <<phase, finalist, shadow, outcome>>, Unjudged(e, expected, next)
    PROVE  RowFacts'
<1>1. /\ state[e] = expected /\ state'[e] = next
      /\ \A x \in Exp : x # e => state'[x] = state[x]
  BY DEF Move, TypeInv, TypeOK
<1> QED
  BY <1>1 DEF RowFacts, RowFact, Unjudged

LEMMA FactsTransition ==
    ASSUME TypeInv, RowFacts, NEW e \in Exp, NEW expected, NEW next, NEW key,
           TransitionExperiment(e, expected, next, key), Unjudged(e, expected, next)
    PROVE  RowFacts'
BY FactsMove DEF TransitionExperiment, validationVars, shadowVars, convergenceVars

LEMMA FactsStep ==
    ASSUME TypeInv, EvidenceInv, RowFacts, [StoreNext]_storeVars
    PROVE  RowFacts'
<1>1. CASE UNCHANGED storeVars
  BY <1>1, FactsStay DEF storeVars, validationVars, shadowVars, convergenceVars, rowVars
<1>2. CASE RunStep
  BY <1>2, FactsStay DEF RunStep, CreateRun, TransitionRun, EstablishBaseline, validationVars, shadowVars,
     convergenceVars, rowVars
<1>3. ASSUME NEW e \in Exp, PrepareAndRun(e)
      PROVE  RowFacts'
  <2>1. CASE CreateExperiment(e)
    <3>1. /\ state[e] = "NONE" /\ \A x \in Exp : x # e => state'[x] = state[x]
          /\ UNCHANGED <<phase, finalist, shadow, outcome>>
      BY <2>1 DEF CreateExperiment, EvidenceInv, RowsInv, TypeInv, TypeOK, Exp, validationVars, shadowVars,
         convergenceVars
    <3> QED
      BY <3>1 DEF RowFacts, RowFact
  <2>2. CASE PrepareStep(e) \/ AbandonPreparation(e) \/ StartCheap(e) \/ CompleteCheap(e)
    BY <2>2, FactsTransition DEF PrepareStep, AbandonPreparation, StartCheap, CompleteCheap, Unjudged
  <2>3. CASE ReserveFull(e) \/ StartFull(e) \/ CompleteFull(e) \/ Diagnose(e)
    BY <2>3, FactsTransition DEF ReserveFull, StartFull, CompleteFull, Diagnose, Unjudged
  <2>4. ASSUME NEW gate, NEW result, StoreCheap(e, gate) \/ StoreFull(e, result)
        PROVE  RowFacts'
    BY <2>4, FactsStay DEF StoreCheap, StoreFull, validationVars, shadowVars, convergenceVars, rowVars
  <2> QED
    BY <1>3, <2>1, <2>2, <2>3, <2>4 DEF PrepareAndRun
<1>4. ASSUME NEW e \in Exp, Repair(e)
      PROVE  RowFacts'
  <2>1. ASSUME NEW r \in Rungs, NEW used, NEW status, FailRung(e, r, status, used)
        PROVE  RowFacts'
    <3>1. Unjudged(e, RunningState(r), "FAILED_REPAIRABLE")
      BY DEF Unjudged, RunningState, Rungs
    <3> QED
      BY <2>1, <3>1, FactsMove DEF FailRung, validationVars, shadowVars, convergenceVars
  <2>2. ASSUME NEW r, NEW used, FailFinal(e, r, used)
        PROVE  RowFacts'
    BY <2>2, FactsTransition DEF FailFinal, Unjudged
  <2>3. ASSUME NEW n, BeginRepair(e, n) \/ ResumeRung(e, n) \/ FailRepair(e, n)
        PROVE  RowFacts'
    BY <2>3, FactsTransition DEF BeginRepair, ResumeRung, FailRepair, Unjudged
  <2>4. ASSUME NEW cause, NEW n, ReserveRepair(e, cause) \/ ApplyRepairRevision(e, n) \/ CompleteRepair(e, n)
        PROVE  RowFacts'
    BY <2>4, FactsStay DEF ReserveRepair, ApplyRepairRevision, CompleteRepair, validationVars, shadowVars,
       convergenceVars, rowVars
  <2> QED
    BY <1>4, <2>1, <2>2, <2>3, <2>4 DEF Repair
<1>5. ASSUME NEW e \in Exp, Judge(e)
      PROVE  RowFacts'
  <2>1. ASSUME NEW families, RecordShadowEvaluation(e, families)
        PROVE  RowFacts'
    <3>1. /\ state[e] = "DIAGNOSED" /\ UNCHANGED <<phase, finalist, state, outcome>>
          /\ \A x \in Exp : x # e => shadow'[x] = shadow[x]
      BY <2>1 DEF RecordShadowEvaluation, validationVars, rowVars, TypeInv, TypeOK
    <3> QED
      BY <3>1 DEF RowFacts, RowFact
  <2>2. ASSUME NEW next \in {"PROMOTED", "REJECTED"}, NEW expected, NEW key, Move(e, expected, next, key),
               expected \notin {"PROMOTED", "REJECTED"},
               expected = "DIAGNOSED" => ~shadow[e].supported,
               phase' = "DISCOVERY" => phase = "DISCOVERY",
               phase' = "OFFICIAL_EVALUATED" => phase = "OFFICIAL_EVALUATED" \/ finalist = e,
               UNCHANGED <<finalist, shadow>>, \A x \in Exp : x # e => outcome'[x] = outcome[x]
        PROVE  RowFacts'
    <3>1. /\ state[e] = expected /\ state'[e] = next
          /\ \A x \in Exp : x # e => state'[x] = state[x]
      BY <2>2 DEF Move, TypeInv, TypeOK
    <3> QED
      BY <2>2, <3>1 DEF RowFacts, RowFact
  <2>3. ASSUME NEW families, RejectCheap(e, families) \/ RejectFull(e, families)
        PROVE  RowFacts'
    <3>1. /\ UNCHANGED <<phase, finalist, shadow>> /\ \A x \in Exp : x # e => outcome'[x] = outcome[x]
          /\ \/ Move(e, "CHEAP_COMPLETE", "REJECTED", Key("cheap-rejected"))
             \/ Move(e, "DIAGNOSED", "REJECTED", Key("full-rejected")) /\ ~shadow[e].supported
      BY <2>3 DEF RejectCheap, RejectFull, RejectCandidate, validationVars, shadowVars, TypeInv, TypeOK
    <3> QED
      BY <2>2, <3>1
  <2>4. ASSUME NEW step, AbandonNonFinalist(e, step)
        PROVE  RowFacts'
    BY <2>4, FactsTransition DEF AbandonNonFinalist, Unjudged, EvidenceInv, FinalistInv
  <2>5. CASE StartOfficial(e) \/ CompleteOfficial(e)
    BY <2>5, FactsTransition, StoreAssumption DEF StartOfficial, CompleteOfficial, Unjudged, EvidenceInv, FinalistInv, Exp
  <2>6. CASE RejectNonImproving(e) \/ PromoteSearchCandidate(e)
    <3>1. PICK next \in {"PROMOTED", "REJECTED"}, step \in {"official-valid-rejected", "search-promotion"} :
             Move(e, "OFFICIAL_VALID_COMPLETE", next, Key(step))
      BY <2>6 DEF RejectNonImproving, PromoteSearchCandidate
    <3>2. /\ UNCHANGED <<finalist, shadow>> /\ \A x \in Exp : x # e => outcome'[x] = outcome[x]
          /\ phase' = phase \/ (phase # "DISCOVERY" /\ finalist = e /\ phase' = "OFFICIAL_EVALUATED")
      BY <2>6 DEF RejectNonImproving, PromoteSearchCandidate, validationVars, shadowVars, TypeInv, TypeOK
    <3> QED
      BY <2>2, <3>1, <3>2
  <2>7. CASE LockFinalist(e)
    <3>1. phase' = "FINALIST_LOCKED" /\ UNCHANGED <<shadow, outcome, state>>
      BY <2>7 DEF LockFinalist, shadowVars, convergenceVars, rowVars
    <3> QED
      BY <3>1 DEF RowFacts, RowFact
  <2>8. ASSUME NEW primary, NEW safe, RecordOfficialMetrics(e, primary) \/ StoreOfficial(e, safe)
        PROVE  RowFacts'
    BY <2>8, FactsStay DEF RecordOfficialMetrics, StoreOfficial, validationVars, shadowVars, convergenceVars, rowVars
  <2>9. CASE CountFailedTransaction(e)
    <3>1. /\ UNCHANGED <<phase, finalist, shadow, state>> /\ outcome'[e] = "invalid_failure"
          /\ \A x \in Exp : x # e => outcome'[x] = outcome[x]
      BY <2>9 DEF CountFailedTransaction, validationVars, shadowVars, rowVars, TypeInv, TypeOK
    <3> QED
      BY <3>1 DEF RowFacts, RowFact
  <2> QED
    BY <1>5, <2>1, <2>3, <2>4, <2>5, <2>6, <2>7, <2>8, <2>9 DEF Judge
<1> QED
  BY <1>1, <1>2, <1>3, <1>4, <1>5 DEF StoreNext

LEMMA FactsKept == StoreSpec => []RowFacts
<1>1. StoreInit => RowFacts
  BY DEF StoreInit, RowFacts, RowFact
<1>2. TypeInv /\ EvidenceInv /\ RowFacts /\ [StoreNext]_storeVars => RowFacts'
  BY FactsStep
<1> QED
  BY <1>1, <1>2, TypeInvariant, EvidenceInvariant, PTL DEF StoreSpec

-----------------------------------------------------------------------------
(* The finalist comes with its evidence: no rung it was selected by is      *)
(* still to be recorded.                                                    *)

EvaluatedFact(e) ==
    /\ Key("cheap-complete") \in journal[e] => cheapResult[e] # None
    /\ finalist = e => shadow[e] # None
EvaluatedInv == \A e \in Exp : EvaluatedFact(e)

LEMMA EvaluatedMove ==
    ASSUME TypeInv, EvaluatedInv, NEW e \in Exp, NEW expected, NEW next, NEW key, Move(e, expected, next, key),
           UNCHANGED <<finalist, shadow, cheapResult>>,
           key.step = "cheap-complete" => cheapResult[e] # None
    PROVE  EvaluatedInv'
<1>1. /\ journal'[e] = journal[e] \cup {key}
      /\ \A x \in Exp : x # e => journal'[x] = journal[x]
  BY DEF Move, TypeInv, TypeOK
<1>2. key = Key("cheap-complete") => key.step = "cheap-complete"
  BY DEF Key
<1> QED
  BY <1>1, <1>2 DEF EvaluatedInv, EvaluatedFact

LEMMA EvaluatedStep ==
    ASSUME TypeInv, EvaluatedInv, [StoreNext]_storeVars
    PROVE  EvaluatedInv'
<1>1. ASSUME UNCHANGED <<finalist, shadow, cheapResult, journal>>
      PROVE  EvaluatedInv'
  BY <1>1 DEF EvaluatedInv, EvaluatedFact
<1>2. ASSUME NEW e \in Exp, NEW expected, NEW next, NEW key, TransitionExperiment(e, expected, next, key),
             key.step = "cheap-complete" => cheapResult[e] # None
      PROVE  EvaluatedInv'
  BY <1>2, EvaluatedMove DEF TransitionExperiment, validationVars, shadowVars, resultVars
<1>3. CASE RunStep \/ UNCHANGED storeVars
  BY <1>1, <1>3 DEF RunStep, CreateRun, TransitionRun, EstablishBaseline, storeVars, validationVars, shadowVars,
     rowVars, resultVars
<1>4. ASSUME NEW e \in Exp, PrepareAndRun(e)
      PROVE  EvaluatedInv'
  <2>1. CASE CreateExperiment(e)
    BY <1>1, <2>1 DEF CreateExperiment, validationVars, shadowVars, resultVars
  <2>2. CASE CompleteCheap(e)
    BY <1>2, <2>2 DEF CompleteCheap
  <2>3. CASE PrepareStep(e) \/ AbandonPreparation(e) \/ StartCheap(e)
    BY <1>2, <2>3 DEF PrepareStep, AbandonPreparation, StartCheap, Key
  <2>4. CASE ReserveFull(e) \/ StartFull(e) \/ CompleteFull(e) \/ Diagnose(e)
    BY <1>2, <2>4 DEF ReserveFull, StartFull, CompleteFull, Diagnose, Key
  <2>5. ASSUME NEW result, StoreFull(e, result)
        PROVE  EvaluatedInv'
    BY <1>1, <2>5 DEF StoreFull, validationVars, shadowVars, rowVars
  <2>6. ASSUME NEW gate, StoreCheap(e, gate)
        PROVE  EvaluatedInv'
    <3>1. /\ cheapResult[e] = None /\ UNCHANGED <<finalist, shadow, journal>>
          /\ \A x \in Exp : x # e => cheapResult'[x] = cheapResult[x]
      BY <2>6 DEF StoreCheap, validationVars, shadowVars, rowVars, TypeInv, TypeOK
    <3> QED
      BY <3>1 DEF EvaluatedInv, EvaluatedFact
  <2> QED
    BY <1>4, <2>1, <2>2, <2>3, <2>4, <2>5, <2>6 DEF PrepareAndRun
<1>5. ASSUME NEW e \in Exp, Repair(e)
      PROVE  EvaluatedInv'
  <2>1. ASSUME NEW r, NEW used, NEW status, FailRung(e, r, status, used)
        PROVE  EvaluatedInv'
    BY <2>1, EvaluatedMove DEF FailRung, RungKey, validationVars, shadowVars, resultVars
  <2>2. ASSUME NEW r, NEW used, FailFinal(e, r, used)
        PROVE  EvaluatedInv'
    BY <1>2, <2>2 DEF FailFinal, RungKey
  <2>3. ASSUME NEW n, BeginRepair(e, n) \/ ResumeRung(e, n) \/ FailRepair(e, n)
        PROVE  EvaluatedInv'
    BY <1>2, <2>3 DEF BeginRepair, ResumeRung, FailRepair, RepairKey
  <2>4. ASSUME NEW cause, NEW n, ReserveRepair(e, cause) \/ ApplyRepairRevision(e, n) \/ CompleteRepair(e, n)
        PROVE  EvaluatedInv'
    BY <1>1, <2>4 DEF ReserveRepair, ApplyRepairRevision, CompleteRepair, validationVars, shadowVars, rowVars,
       resultVars
  <2> QED
    BY <1>5, <2>1, <2>2, <2>3, <2>4 DEF Repair
<1>6. ASSUME NEW e \in Exp, Judge(e)
      PROVE  EvaluatedInv'
  <2>1. ASSUME NEW families, RecordShadowEvaluation(e, families)
        PROVE  EvaluatedInv'
    <3>1. /\ shadow[e] = None /\ UNCHANGED <<finalist, journal, cheapResult>> /\ shadow'[e] # None
          /\ \A x \in Exp : x # e => shadow'[x] = shadow[x]
      BY <2>1 DEF RecordShadowEvaluation, validationVars, rowVars, resultVars, TypeInv, TypeOK
    <3> QED
      BY <3>1 DEF EvaluatedInv, EvaluatedFact
  <2>2. ASSUME NEW families, RejectCheap(e, families) \/ RejectFull(e, families)
        PROVE  EvaluatedInv'
    BY <2>2, EvaluatedMove DEF RejectCheap, RejectFull, RejectCandidate, Key, validationVars, shadowVars, resultVars
  <2>3. ASSUME NEW step \in {"non-finalist-abandoned", "not-locked-finalist"}, AbandonNonFinalist(e, step)
        PROVE  EvaluatedInv'
    BY <1>2, <2>3 DEF AbandonNonFinalist, Key
  <2>4. CASE StartOfficial(e) \/ CompleteOfficial(e)
    BY <1>2, <2>4 DEF StartOfficial, CompleteOfficial, Key
  <2>5. CASE RejectNonImproving(e) \/ PromoteSearchCandidate(e)
    <3>1. PICK next \in {"PROMOTED", "REJECTED"}, step \in {"official-valid-rejected", "search-promotion"} :
             Move(e, "OFFICIAL_VALID_COMPLETE", next, Key(step))
      BY <2>5 DEF RejectNonImproving, PromoteSearchCandidate
    <3>2. UNCHANGED <<finalist, shadow, cheapResult>>
      BY <2>5 DEF RejectNonImproving, PromoteSearchCandidate, validationVars, shadowVars, resultVars
    <3> QED
      BY <3>1, <3>2, EvaluatedMove DEF Key
  <2>6. CASE LockFinalist(e)
    <3>1. finalist' = e /\ shadow[e] # None /\ UNCHANGED <<shadow, cheapResult, journal>>
      BY <2>6 DEF LockFinalist, shadowVars, rowVars, resultVars
    <3> QED
      BY <3>1 DEF EvaluatedInv, EvaluatedFact
  <2>7. ASSUME NEW primary, NEW safe, RecordOfficialMetrics(e, primary) \/ StoreOfficial(e, safe)
        PROVE  EvaluatedInv'
    BY <1>1, <2>7 DEF RecordOfficialMetrics, StoreOfficial, validationVars, shadowVars, rowVars, resultVars
  <2>8. CASE CountFailedTransaction(e)
    BY <1>1, <2>8 DEF CountFailedTransaction, validationVars, shadowVars, rowVars, resultVars
  <2> QED
    BY <1>6, <2>1, <2>2, <2>3, <2>4, <2>5, <2>6, <2>7, <2>8 DEF Judge
<1> QED
  BY <1>3, <1>4, <1>5, <1>6 DEF StoreNext

LEMMA EvaluatedKept == StoreSpec => []EvaluatedInv
<1>1. StoreInit => EvaluatedInv
  <2> SUFFICES ASSUME StoreInit
               PROVE  EvaluatedInv
    OBVIOUS
  <2> QED
    BY StoreAssumption DEF StoreInit, EvaluatedInv, EvaluatedFact, Exp
<1>2. TypeInv /\ EvaluatedInv /\ [StoreNext]_storeVars => EvaluatedInv'
  BY EvaluatedStep
<1> QED
  BY <1>1, <1>2, TypeInvariant, PTL DEF StoreSpec

\* Whoever was evaluated on shadow data has both of its rungs on record.
LEMMA EvaluatedRungs ==
    ASSUME StreakInv, EvaluatedInv, NEW e \in Exp, shadow[e] # None
    PROVE  cheapResult[e] # None /\ fullResult[e] # None
BY DEF StreakInv, Ladder, EvaluatedInv, EvaluatedFact

=============================================================================
