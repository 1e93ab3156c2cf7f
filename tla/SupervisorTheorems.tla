--------------------------- MODULE SupervisorTheorems ---------------------------
(***************************************************************************)
(* Whatever its controllers do, wherever they are killed and however many  *)
(* of them believe they own the run, a production run only takes steps the *)
(* store specification allows; so what is proved of the store holds of the *)
(* program.  What a controller kept in its local variables is still true   *)
(* enough of the rows for the transaction it runs next.                    *)
(*                                                                         *)
(* Of the program itself: an experiment never has two repairs under way;   *)
(* and, while a live controller's session is never taken over, the bundle  *)
(* on disk is the champion's, the finalist is the shadow champion and a    *)
(* search that is over leaves no row unsettled.                            *)
(***************************************************************************)
EXTENDS SupervisorProperties, StoreTheorems

\* The local variables of a controller.
Rows == UNION {[A -> ExperimentStates] : A \in SUBSET Exp}
Locals == [pc : Steps, e : Exp \cup {None}, rung : Rungs \cup {None},
           status : Statuses \cup {None}, n : 0..MaxRepairs, todo : Rows,
           seen : Phases \X (Exp \cup {None}), ret : {"loop", "locked", None},
           reason : StopReasons \cup {None}]

\* Run states from which the search is under way or over.
Begun == {"SEARCHING", "FINALIZING", "COMPLETE"}

OfOneExperiment == {"create", "prepare", "run", "rung", "stored", "failed", "reserved",
                    "resume", "mend", "mended", "lock"}
Searching == OfOneExperiment \cup {"scan", "next", "loop", "pick", "locked", "finish"}

\* A failure that was recorded is known, and a rejected baseline blocks the run.
FailuresKnown ==
    \A e \in Exp :
        (\/ state[e] \in {"FAILED_REPAIRABLE", "REPAIRING"}
         \/ \E r \in Rungs, n \in 0..MaxRepairs : RungKey("failure", r, n) \in journal[e])
        => failure[e] # None
BaselineBlocks == stopReason = "baseline_rejected" => runState = "BASELINE_BLOCKED"

StoreInv == TypeInv /\ FailuresKnown /\ BaselineBlocks

\* What a controller at each point may rely on.
Remembers(c) ==
    /\ ctl[c].pc \in OfOneExperiment => ctl[c].e \in Exp
    /\ ctl[c].pc \in {"rung", "failed"} => ctl[c].rung \in Rungs
    /\ ctl[c].pc = "failed" => ctl[c].status \in Statuses
    /\ ctl[c].pc \in {"reserved", "mend", "mended"} => ctl[c].n \in 1..MaxRepairs
    /\ ctl[c].pc = "resume" => failure[ctl[c].e] # None
    /\ ctl[c].pc \in Searching => runState \in Begun /\ ctl[c].ret \in {"loop", "locked"}
    /\ ctl[c].pc \in {"pick", "finish"} =>
         /\ ctl[c].reason \in StopReasons \ {"baseline_rejected"}
         /\ ctl[c].reason = "epsilon_plateau" =>
              stopReason = "epsilon_plateau" \/ runState # "SEARCHING"

SupInv == StoreInv /\ ctl \in [Controllers -> Locals] /\ \A c \in Controllers : Remembers(c)

-----------------------------------------------------------------------------
(* What no transaction undoes.                                             *)

Kept ==
    /\ \A e \in Exp : failure[e] # None => failure'[e] # None
    /\ runState \in Begun => runState' \in Begun
    /\ runState \in Begun /\ runState # "SEARCHING" => runState' # "SEARCHING"
    /\ runState \in Begun /\ stopReason = "epsilon_plateau" =>
         stopReason' = "epsilon_plateau" \/ runState' # "SEARCHING"

\* A transaction of an experiment never moves the run, and writes no other
\* stop reason than a plateau.
LEMMA RunUntouched ==
    ASSUME NEW e \in Exp, PrepareAndRun(e) \/ Judge(e) \/ Repair(e)
    PROVE  runState' = runState /\ stopReason' \in {stopReason, "epsilon_plateau"}
<1>1. CASE PrepareAndRun(e)
  BY <1>1 DEF PrepareAndRun, CreateExperiment, PrepareStep, AbandonPreparation, StartCheap,
     CompleteCheap, ReserveFull, StartFull, CompleteFull, Diagnose, StoreCheap, StoreFull,
     TransitionExperiment, runVars, convergenceVars
<1>2. CASE Repair(e)
  BY <1>2 DEF Repair, FailRung, FailFinal, ReserveRepair, BeginRepair,
     ApplyRepairRevision, CompleteRepair, ResumeRung, FailRepair, TransitionExperiment, runVars, convergenceVars
<1>3. CASE Judge(e)
  BY <1>3 DEF Judge, RecordShadowEvaluation, RejectCheap, RejectFull, RejectCandidate,
     LockFinalist, AbandonNonFinalist, StartOfficial, RecordOfficialMetrics, StoreOfficial,
     CompleteOfficial, RejectNonImproving, PromoteSearchCandidate, CountFailedTransaction,
     TransitionExperiment, Plateau, runVars, convergenceVars
<1> QED
  BY <1>1, <1>2, <1>3

LEMMA RunMoves ==
    ASSUME BaselineBlocks, RunStep
    PROVE  /\ runState \in Begun => runState' \in Begun
           /\ runState \in Begun /\ runState # "SEARCHING" => runState' # "SEARCHING"
           /\ runState \in Begun /\ stopReason = "epsilon_plateau" =>
                stopReason' = "epsilon_plateau" \/ runState' # "SEARCHING"
           /\ BaselineBlocks'
           /\ UNCHANGED <<state, journal, failure>>
BY DEF RunStep, CreateRun, TransitionRun, EstablishBaseline, FinalizeReasons, BaselineBlocks, Begun,
   runVars, convergenceVars, rowVars

\* An experiment whose last failure is not known has none to know.
Unknown(e) ==
    /\ state[e] \notin {"FAILED_REPAIRABLE", "REPAIRING"}
    /\ \A r \in Rungs, n \in 0..MaxRepairs : RungKey("failure", r, n) \notin journal[e]

\* Only a failure has the key of a failure.
LEMMA MoveKeepsFailures ==
    ASSUME StoreInv, NEW e \in Exp, NEW expected, NEW next, NEW key, Move(e, expected, next, key),
           UNCHANGED failure, key.step # "failure",
           next \in {"FAILED_REPAIRABLE", "REPAIRING"} => failure[e] # None
    PROVE  FailuresKnown' /\ \A x \in Exp : failure[x] # None => failure'[x] # None
<1>1. ASSUME NEW x \in Exp, Unknown(x), failure[x] = None
      PROVE  Unknown(x)'
  <2>1. CASE x = e
    <3>1. state'[x] = next /\ journal'[x] = journal[x] \cup {key}
      BY <2>1 DEF Move, StoreInv, TypeInv, TypeOK
    <3>2. \A r \in Rungs, n \in 0..MaxRepairs : RungKey("failure", r, n) # key
      BY DEF RungKey
    <3> QED
      BY <1>1, <2>1, <3>1, <3>2 DEF Unknown
  <2>2. CASE x # e
    <3>1. state'[x] = state[x] /\ journal'[x] = journal[x]
      BY <2>2 DEF Move, StoreInv, TypeInv, TypeOK
    <3> QED
      BY <1>1, <3>1 DEF Unknown
  <2> QED
    BY <2>1, <2>2
<1>2. \A x \in Exp : failure[x] # None \/ Unknown(x)
  BY DEF StoreInv, FailuresKnown, Unknown
<1>3. \A x \in Exp : failure'[x] # None \/ Unknown(x)'
  BY <1>1, <1>2
<1>4. FailuresKnown'
  BY <1>3 DEF FailuresKnown, Unknown
<1> QED
  BY <1>4

\* Failures are only ever replaced by failures, and no transaction but a failure
\* makes one known.
LEMMA FailuresKept ==
    ASSUME StoreInv, NEW e \in Exp, PrepareAndRun(e) \/ Judge(e) \/ Repair(e)
    PROVE  FailuresKnown' /\ \A x \in Exp : failure[x] # None => failure'[x] # None
<1> DEFINE Goal == FailuresKnown' /\ \A x \in Exp : failure[x] # None => failure'[x] # None
<1>1. ASSUME UNCHANGED <<state, journal, failure>>
      PROVE  Goal
  BY <1>1 DEF FailuresKnown, StoreInv
<1>2. ASSUME NEW expected, NEW next, NEW key, TransitionExperiment(e, expected, next, key),
             key.step # "failure", next \in {"FAILED_REPAIRABLE", "REPAIRING"} => failure[e] # None
      PROVE  Goal
  BY <1>2, MoveKeepsFailures DEF TransitionExperiment
<1>3. ASSUME NEW r \in Rungs, NEW used \in 0..MaxRepairs, NEW status \in Statuses, FailRung(e, r, status, used)
      PROVE  Goal
  <2>1. failure'[e] # None
    BY <1>3, NullAssumption DEF FailRung, StoreInv, TypeInv, TypeOK, Failures
  <2>2. ASSUME NEW x \in Exp, x # e
        PROVE  /\ failure'[x] = failure[x] /\ state'[x] = state[x] /\ journal'[x] = journal[x]
    BY <1>3, <2>2 DEF FailRung, Move, StoreInv, TypeInv, TypeOK
  <2> QED
    BY <2>1, <2>2 DEF FailuresKnown, StoreInv
<1>4. CASE PrepareAndRun(e)
  <2>1. CASE CreateExperiment(e)
    <3>1. /\ UNCHANGED <<journal, failure>> /\ state'[e] = "PROPOSED"
          /\ \A x \in Exp : x # e => state'[x] = state[x]
      BY <2>1 DEF CreateExperiment, StoreInv, TypeInv, TypeOK
    <3> QED
      BY <3>1 DEF FailuresKnown, StoreInv
  <2>2. CASE PrepareStep(e)
    BY <1>2, <2>2 DEF PrepareStep, Key
  <2>3. CASE \/ AbandonPreparation(e) \/ StartCheap(e) \/ CompleteCheap(e) \/ ReserveFull(e)
             \/ StartFull(e) \/ CompleteFull(e) \/ Diagnose(e)
    BY <1>2, <2>3 DEF AbandonPreparation, StartCheap, CompleteCheap, ReserveFull, StartFull, CompleteFull,
       Diagnose, Key
  <2>4. CASE \/ \E gate \in {"pass", "fail"} : StoreCheap(e, gate)
             \/ \E result \in FullResults : StoreFull(e, result)
    BY <1>1, <2>4 DEF StoreCheap, StoreFull, rowVars
  <2> QED
    BY <1>4, <2>1, <2>2, <2>3, <2>4 DEF PrepareAndRun
<1>5. CASE Judge(e)
  <2>1. ASSUME NEW expected, NEW step, NEW counted, NEW eligible, step # "failure",
               RejectCandidate(e, expected, step, counted, eligible)
        PROVE  Goal
    BY <2>1, MoveKeepsFailures DEF RejectCandidate, Key
  <2>2. ASSUME NEW families, RejectCheap(e, families) \/ RejectFull(e, families)
        PROVE  Goal
    BY <2>1, <2>2 DEF RejectCheap, RejectFull
  <2>3. CASE RejectNonImproving(e)
    BY <2>3, MoveKeepsFailures DEF RejectNonImproving, Key
  <2>4. CASE PromoteSearchCandidate(e)
    BY <2>4, MoveKeepsFailures DEF PromoteSearchCandidate, Key
  <2>5. CASE \/ \E step \in {"non-finalist-abandoned", "not-locked-finalist"} : AbandonNonFinalist(e, step)
             \/ StartOfficial(e) \/ CompleteOfficial(e)
    BY <1>2, <2>5 DEF AbandonNonFinalist, StartOfficial, CompleteOfficial, Key
  <2>6. CASE \/ \E families \in 0..Cardinality(ValidFamilies) : RecordShadowEvaluation(e, families)
             \/ LockFinalist(e) \/ CountFailedTransaction(e)
             \/ \E primary \in Scores : RecordOfficialMetrics(e, primary)
             \/ \E safe \in BOOLEAN : StoreOfficial(e, safe)
    BY <1>1, <2>6 DEF RecordShadowEvaluation, LockFinalist, CountFailedTransaction, RecordOfficialMetrics,
       StoreOfficial, rowVars
  <2> QED
    BY <1>5, <2>2, <2>3, <2>4, <2>5, <2>6 DEF Judge
<1>6. CASE Repair(e)
  <2>1. ASSUME NEW r \in Rungs, NEW used \in 0..MaxRepairs, FailFinal(e, r, used)
        PROVE  Goal
    BY <1>2, <2>1 DEF FailFinal, RungKey
  <2>2. CASE \E cause \in Failures : ReserveRepair(e, cause)
    BY <1>1, <2>2 DEF ReserveRepair, rowVars
  <2>3. ASSUME NEW number \in 1..MaxRepairs, ApplyRepairRevision(e, number) \/ CompleteRepair(e, number)
        PROVE  Goal
    BY <1>1, <2>3 DEF ApplyRepairRevision, CompleteRepair, rowVars
  <2>4. ASSUME NEW number \in 1..MaxRepairs, BeginRepair(e, number)
        PROVE  Goal
    <3>1. failure[e] # None
      BY <2>4 DEF BeginRepair, TransitionExperiment, Move, StoreInv, FailuresKnown
    <3> QED
      BY <1>2, <2>4, <3>1 DEF BeginRepair, RepairKey
  <2>5. ASSUME NEW number \in 1..MaxRepairs, FailRepair(e, number)
        PROVE  Goal
    BY <1>2, <2>5 DEF FailRepair, RepairKey
  <2>6. ASSUME NEW number \in 1..MaxRepairs, ResumeRung(e, number)
        PROVE  Goal
    <3>1. failure[e] # None
      BY <2>6 DEF ResumeRung, TransitionExperiment, Move, StoreInv, FailuresKnown
    <3> QED
      BY <1>2, <2>6, <3>1 DEF ResumeRung, RepairKey
  <2> QED
    BY <1>3, <1>6, <2>1, <2>2, <2>3, <2>4, <2>5, <2>6 DEF Repair
<1> QED
  BY <1>4, <1>5, <1>6

\* Every transaction keeps the store's rows consistent and undoes nothing a
\* controller may have read.
LEMMA StoreKept ==
    ASSUME StoreInv, [StoreNext]_storeVars
    PROVE  StoreInv' /\ Kept
<1>1. TypeInv'
  BY StepType DEF StoreInv
<1>2. CASE RunStep
  <2>1. FailuresKnown'
    BY <1>2, RunMoves DEF StoreInv, FailuresKnown
  <2> QED
    BY <1>1, <1>2, <2>1, RunMoves DEF StoreInv, Kept
<1>3. ASSUME NEW e \in Exp, PrepareAndRun(e) \/ Judge(e) \/ Repair(e)
      PROVE  StoreInv' /\ Kept
  BY <1>1, <1>3, RunUntouched, FailuresKept DEF StoreInv, BaselineBlocks, Kept
<1>4. CASE UNCHANGED storeVars
  BY <1>1, <1>4 DEF storeVars, StoreInv, FailuresKnown, BaselineBlocks, Kept, runVars, convergenceVars, rowVars
<1> QED
  BY <1>2, <1>3, <1>4 DEF StoreNext

-----------------------------------------------------------------------------
(* One controller's step.                                                  *)

LEMMA RowsOfExperiments ==
    ASSUME NEW rows \in Rows
    PROVE  /\ DOMAIN rows \subseteq Exp
           /\ \A e : [x \in DOMAIN rows \ {e} |-> rows[x]] \in Rows
<1>1. PICK A \in SUBSET Exp : rows \in [A -> ExperimentStates]
  BY DEF Rows
<1>2. ASSUME NEW e
      PROVE  [x \in DOMAIN rows \ {e} |-> rows[x]] \in Rows
  <2>1. [x \in A \ {e} |-> rows[x]] \in [A \ {e} -> ExperimentStates]
    BY <1>1
  <2> QED
    BY <1>1, <2>1 DEF Rows
<1> QED
  BY <1>1, <1>2

LEMMA NoRows == <<>> \in Rows
<1>1. <<>> \in [{} -> ExperimentStates]
  OBVIOUS
<1> QED
  BY <1>1 DEF Rows

\* The controller that moves and the others.
Alone(c) == ctl' \in [Controllers -> Locals] /\ \A d \in Controllers \ {c} : ctl'[d] = ctl[d]

StepOf(c) == [StoreNext]_storeVars /\ Alone(c) /\ Remembers(c)'

LEMMA StepKeepsInv ==
    ASSUME SupInv, NEW c \in Controllers, StepOf(c)
    PROVE  SupInv'
<1>1. StoreInv' /\ Kept
  BY StoreKept DEF SupInv, StepOf
<1>2. ASSUME NEW d \in Controllers, ctl'[d] = ctl[d]
      PROVE  Remembers(d)'
  BY <1>1, <1>2 DEF SupInv, Remembers, Kept, Searching, OfOneExperiment
<1> QED
  BY <1>1, <1>2 DEF SupInv, StepOf, Alone

LEMMA AfterExit ==
    ASSUME SupInv, NEW c \in Controllers, Exit(c)
    PROVE  Alone(c) /\ Remembers(c)'
<1>1. Fresh \in Locals
  BY NoRows, StoreAssumption DEF Fresh, Locals, Steps, Phases
<1>2. ctl'[c].pc = "down" /\ Alone(c)
  BY <1>1 DEF SupInv, Exit, Alone, Fresh
<1> QED
  BY <1>2 DEF Remembers, Searching, OfOneExperiment

LEMMA AfterGoto ==
    ASSUME SupInv, NEW c \in Controllers, NEW pc \in Steps, Goto(c, pc)
    PROVE  Alone(c) /\ ctl'[c] = [ctl[c] EXCEPT !.pc = pc]
BY DEF SupInv, Goto, Alone, Locals

LEMMA AfterUpdate ==
    ASSUME ctl \in [Controllers -> Locals], NEW c \in Controllers, NEW local \in Locals,
           ctl' = [ctl EXCEPT ![c] = local]
    PROVE  Alone(c) /\ ctl'[c] = local
BY DEF Alone

\* Points where a controller relies on nothing but the search and its row.
Plain == Steps \ {"rung", "failed", "reserved", "mend", "mended", "resume", "pick", "finish"}

LEMMA AfterPlainGoto ==
    ASSUME SupInv, [StoreNext]_storeVars, NEW c \in Controllers, NEW pc \in Plain, Goto(c, pc),
           pc \in OfOneExperiment => ctl[c].e \in Exp,
           pc \in Searching => ctl[c].pc \in Searching
    PROVE  StepOf(c)
<1>1. Alone(c) /\ ctl'[c] = [ctl[c] EXCEPT !.pc = pc]
  BY AfterGoto DEF Plain
<1>2. Kept
  BY StoreKept DEF SupInv
<1>3. ctl[c] \in Locals
  BY DEF SupInv
<1>4. /\ ctl'[c].pc = pc /\ ctl'[c].e = ctl[c].e /\ ctl'[c].ret = ctl[c].ret
  BY <1>1, <1>3 DEF Locals
<1>5. Remembers(c)'
  BY <1>2, <1>4 DEF SupInv, Remembers, Plain, Kept
<1> QED
  BY <1>1, <1>5 DEF StepOf

\* _resume_active is called.
LEMMA AfterRescan ==
    ASSUME SupInv, [StoreNext]_storeVars, NEW c \in Controllers, NEW ret \in {"loop", "locked"},
           ctl' = [ctl EXCEPT ![c].pc = "scan", ![c].ret = ret], runState' \in Begun
    PROVE  StepOf(c)
<1>1. Alone(c) /\ ctl'[c].pc = "scan" /\ ctl'[c].ret = ret
  <2> DEFINE local == [ctl[c] EXCEPT !.pc = "scan", !.ret = ret]
  <2>1. ctl[c] \in Locals /\ "scan" \in Steps
    BY DEF SupInv, Steps
  <2>2. local \in Locals /\ local.pc = "scan" /\ local.ret = ret
    BY <2>1 DEF Locals
  <2>3. ctl' = [ctl EXCEPT ![c] = local]
    BY <2>1 DEF SupInv, Locals
  <2> QED
    BY <2>2, <2>3, AfterUpdate DEF SupInv
<1> QED
  BY <1>1 DEF StepOf, Remembers, OfOneExperiment

LEMMA AfterRaise ==
    ASSUME SupInv, [StoreNext]_storeVars, NEW c \in Controllers, Exit(c)
    PROVE  StepOf(c)
BY AfterExit DEF StepOf

\* The caller's count of valid families.
LEMMA FamiliesCounted == Cardinality(ValidFamilies) \in 0..Cardinality(ValidFamilies)
<1> DEFINE evaluated == {x \in Exp : fullResult[x] # None}
<1>1. IsFiniteSet(evaluated)
  <2>1. IsFiniteSet(Exp)
    BY FS_Interval, StoreAssumption DEF Exp
  <2> QED
    BY <2>1, FS_Subset
<1>2. [e \in evaluated |-> Family[e]] \in Surjection(evaluated, ValidFamilies)
  BY DEF Surjection, ValidFamilies
<1>3. IsFiniteSet(ValidFamilies)
  BY <1>1, <1>2, FS_Surjection
<1> QED
  BY <1>3, FS_CardinalityType

-----------------------------------------------------------------------------
(* Opening and closing a run.                                              *)

LEMMA LaunchStep ==
    ASSUME SupInv, NEW c \in Controllers, Launch(c)
    PROVE  StepOf(c)
<1>1. [StoreNext]_storeVars
  BY DEF Launch, OpenRun, OpenSession, OpenCompletedRun, Commit, Read, StoreNext, RunStep
<1>2. \E pc \in {"down", "begin", "finalize"} : Goto(c, pc)
  BY DEF Launch, OpenRun, OpenSession, OpenCompletedRun, Commit, Read
<1> QED
  BY <1>1, <1>2, AfterPlainGoto DEF Plain, Steps, Searching, OfOneExperiment

LEMMA BeginStep ==
    ASSUME SupInv, NEW c \in Controllers, Begin(c) \/ VerifyBaseline(c)
    PROVE  StepOf(c)
<1>1. [StoreNext]_storeVars
  BY DEF Begin, VerifyBaseline, ResumeSearch, Rescan, Commit, Read, Raise, StoreNext, RunStep
<1>2. \/ \E pc \in {"baseline", "close"} : Goto(c, pc)
      \/ Exit(c)
      \/ ctl' = [ctl EXCEPT ![c].pc = "scan", ![c].ret = "loop"] /\ runState' = "SEARCHING"
  BY DEF Begin, VerifyBaseline, ResumeSearch, Rescan, Commit, Read, Raise, TransitionRun, storeVars, runVars
<1>3. CASE \E pc \in {"baseline", "close"} : Goto(c, pc)
  BY <1>1, <1>3, AfterPlainGoto DEF Plain, Steps, Searching, OfOneExperiment
<1>4. CASE ctl' = [ctl EXCEPT ![c].pc = "scan", ![c].ret = "loop"] /\ runState' = "SEARCHING"
  BY <1>1, <1>4, AfterRescan DEF Begun
<1> QED
  BY <1>1, <1>2, <1>3, <1>4, AfterRaise

LEMMA CloseStep ==
    ASSUME SupInv, NEW c \in Controllers, CloseSearch(c) \/ CloseSession(c) \/ Finalize(c) \/ Seal(c)
    PROVE  StepOf(c)
<1>1. [StoreNext]_storeVars
  <2>1. CASE TransitionRun("SEARCHING", "FINALIZING", ctl[c].reason) /\ At(c, "finish")
    <3>1. ctl[c].reason \in FinalizeReasons
      <4>1. /\ ctl[c].reason \in StopReasons \ {"baseline_rejected"}
            /\ ctl[c].reason = "epsilon_plateau" => stopReason = "epsilon_plateau"
        BY <2>1 DEF SupInv, Remembers, At, TransitionRun
      <4>2. None \notin StopReasons
        BY NullAssumption
      <4> QED
        BY <4>1, <4>2 DEF FinalizeReasons
    <3> QED
      BY <2>1, <3>1 DEF StoreNext, RunStep
  <2> QED
    BY <2>1 DEF CloseSearch, CloseSession, Finalize, Seal, Commit, Read, Raise, StoreNext, RunStep
<1>2. Exit(c) \/ \E pc \in {"close", "finalize", "seal"} : Goto(c, pc)
  BY DEF CloseSearch, CloseSession, Finalize, Seal, Commit, Read, Raise
<1>3. CASE \E pc \in {"close", "finalize", "seal"} : Goto(c, pc)
  BY <1>1, <1>3, AfterPlainGoto DEF Plain, Steps, Searching, OfOneExperiment
<1> QED
  BY <1>1, <1>2, <1>3, AfterRaise

-----------------------------------------------------------------------------
(* _resume_active and the preparation of a candidate.                      *)

LEMMA ScanStep ==
    ASSUME SupInv, NEW c \in Controllers, Scan(c)
    PROVE  StepOf(c)
<1> DEFINE active == {e \in 1..hypotheses : state[e] \notin Settled}
<1>1. active \subseteq Exp
  BY StoreAssumption DEF SupInv, StoreInv, TypeInv, TypeOK, Exp
<1>2. [e \in active |-> state[e]] \in Rows
  <2>1. [e \in active |-> state[e]] \in [active -> ExperimentStates]
    BY <1>1 DEF SupInv, StoreInv, TypeInv, TypeOK
  <2> QED
    BY <1>1, <2>1 DEF Rows
<1>3. <<phase, finalist>> \in Phases \X (Exp \cup {None})
  BY DEF SupInv, StoreInv, TypeInv, TypeOK
<1>4. /\ Alone(c) /\ ctl'[c].pc = "next" /\ ctl'[c].ret = ctl[c].ret
  <2> DEFINE rows == [e \in active |-> state[e]]
             local == [ctl[c] EXCEPT !.pc = "next", !.todo = rows, !.seen = <<phase, finalist>>]
  <2>1. ctl[c] \in Locals /\ "next" \in Steps
    BY DEF SupInv, Steps
  <2>2. local \in Locals /\ local.pc = "next" /\ local.ret = ctl[c].ret
    <3> HIDE DEF rows
    <3> QED
      BY <1>2, <1>3, <2>1 DEF Locals, rows
  <2>3. ctl' = [ctl EXCEPT ![c] = local]
    BY <2>1 DEF Scan, SupInv, Locals
  <2> QED
    BY <2>2, <2>3, AfterUpdate DEF SupInv
<1>5. Remembers(c)'
  BY <1>4 DEF Scan, At, storeVars, runVars, SupInv, Remembers, Searching, OfOneExperiment
<1> QED
  BY <1>4, <1>5 DEF Scan, StepOf

LEMMA NextStep ==
    ASSUME SupInv, NEW c \in Controllers, NextRow(c)
    PROVE  StepOf(c)
<1>1. ctl[c] \in Locals /\ ctl[c].todo \in Rows
  BY DEF SupInv, Locals
<1>2. runState \in Begun /\ ctl[c].ret \in {"loop", "locked"} /\ At(c, "next")
  BY DEF NextRow, SupInv, Remembers, At, Searching
<1>3. CASE ctl' = [ctl EXCEPT ![c].pc = ctl[c].ret, ![c].e = None, ![c].todo = <<>>] /\ UNCHANGED storeVars
  <2>1. Alone(c) /\ ctl'[c].pc = ctl[c].ret /\ ctl'[c].ret = ctl[c].ret
    <3> DEFINE local == [ctl[c] EXCEPT !.pc = ctl[c].ret, !.e = None, !.todo = <<>>]
    <3>1. ctl[c].ret \in Steps
      BY <1>2 DEF Steps
    <3>2. local \in Locals /\ local.pc = ctl[c].ret /\ local.ret = ctl[c].ret
      BY <1>1, <3>1, NoRows DEF Locals
    <3>3. ctl' = [ctl EXCEPT ![c] = local]
      BY <1>1, <1>3 DEF SupInv, Locals
    <3> QED
      BY <3>2, <3>3, AfterUpdate DEF SupInv
  <2>2. Remembers(c)'
    BY <1>2, <1>3, <2>1 DEF Remembers, OfOneExperiment, storeVars, runVars
  <2> QED
    BY <1>3, <2>1, <2>2 DEF StepOf
<1>4. ASSUME NEW e \in DOMAIN ctl[c].todo, DriveRow(c, e)
      PROVE  StepOf(c)
  <2>1. e \in Exp
    BY <1>1, RowsOfExperiments
  <2>2. [StoreNext]_storeVars
    BY <1>4, <2>1 DEF DriveRow, StoreNext, Judge
  <2>3. CASE \E pc \in {"next", "prepare", "run"} :
               ctl' = [ctl EXCEPT ![c].pc = pc, ![c].e = e,
                                  ![c].todo = [x \in DOMAIN ctl[c].todo \ {e} |-> ctl[c].todo[x]]]
    <3>1. PICK pc \in {"next", "prepare", "run"} :
               ctl' = [ctl EXCEPT ![c].pc = pc, ![c].e = e,
                                  ![c].todo = [x \in DOMAIN ctl[c].todo \ {e} |-> ctl[c].todo[x]]]
      BY <2>3
    <3>2. [x \in DOMAIN ctl[c].todo \ {e} |-> ctl[c].todo[x]] \in Rows
      BY <1>1, RowsOfExperiments
    <3>3. Alone(c) /\ ctl'[c].pc = pc /\ ctl'[c].e = e /\ ctl'[c].ret = ctl[c].ret
      BY <1>1, <2>1, <3>1, <3>2 DEF SupInv, Alone, Locals, Steps
    <3>4. runState' \in Begun
      BY <1>2, <2>2, StoreKept DEF SupInv, Kept
    <3>5. Remembers(c)'
      BY <1>2, <2>1, <3>3, <3>4 DEF Remembers
    <3> QED
      BY <2>2, <3>3, <3>5 DEF StepOf
  <2>4. Exit(c) \/ \E pc \in {"next", "prepare", "run"} :
               ctl' = [ctl EXCEPT ![c].pc = pc, ![c].e = e,
                                  ![c].todo = [x \in DOMAIN ctl[c].todo \ {e} |-> ctl[c].todo[x]]]
    BY <1>4 DEF DriveRow
  <2> QED
    BY <2>2, <2>3, <2>4, AfterRaise
<1> QED
  BY <1>3, <1>4 DEF NextRow

LEMMA PrepareCandidateStep ==
    ASSUME SupInv, NEW c \in Controllers, Create(c) \/ Prepare(c)
    PROVE  StepOf(c)
<1>1. At(c, "create") \/ At(c, "prepare")
  BY DEF Create, Prepare
<1>2. ctl[c].e \in Exp /\ ctl[c].pc \in Searching
  BY <1>1 DEF SupInv, Remembers, At, OfOneExperiment, Searching
<1>3. [StoreNext]_storeVars
  BY <1>2 DEF Create, Prepare, Commit, Read, Raise, StoreNext, PrepareAndRun
<1>4. Exit(c) \/ \E pc \in {"next", "prepare", "run"} : Goto(c, pc)
  BY DEF Create, Prepare, Commit, Read, Raise
<1>5. CASE \E pc \in {"next", "prepare", "run"} : Goto(c, pc)
  BY <1>2, <1>3, <1>5, AfterPlainGoto DEF Plain, Steps
<1> QED
  BY <1>3, <1>4, <1>5, AfterRaise

-----------------------------------------------------------------------------
(* _run_candidate and its rungs.                                           *)

\* At a point of one experiment the search is under way.
LEMMA DrivesAnExperiment ==
    ASSUME SupInv, NEW c \in Controllers, ctl[c].pc \in OfOneExperiment
    PROVE  /\ ctl[c] \in Locals /\ ctl[c].e \in Exp /\ ctl[c].pc \in Searching
           /\ runState \in Begun /\ ctl[c].ret \in {"loop", "locked"}
BY DEF SupInv, Remembers, Searching

LEMMA RunCandidateStep ==
    ASSUME SupInv, NEW c \in Controllers, RunCandidate(c)
    PROVE  StepOf(c)
<1> DEFINE e == ctl[c].e
<1>1. ctl[c].pc \in OfOneExperiment
  BY DEF RunCandidate, At, OfOneExperiment
<1>2. /\ ctl[c] \in Locals /\ e \in Exp /\ ctl[c].pc \in Searching
      /\ runState \in Begun /\ ctl[c].ret \in {"loop", "locked"}
  BY <1>1, DrivesAnExperiment
<1> HIDE DEF e
<1>3. [StoreNext]_storeVars
  BY <1>2, FamiliesCounted DEF RunCandidate, RunShadow, Commit, Read, Raise, StoreNext, PrepareAndRun, Judge, e
<1>4. \/ Exit(c)
      \/ \E pc \in {"run", "next"} : Goto(c, pc)
      \/ \E r \in Rungs : ctl' = [ctl EXCEPT ![c].pc = "rung", ![c].rung = r]
      \/ Goto(c, "resume") /\ state[e] \in {"FAILED_REPAIRABLE", "REPAIRING"} /\ UNCHANGED storeVars
  BY DEF RunCandidate, RunShadow, Commit, Read, Raise, e
<1>5. CASE \E pc \in {"run", "next"} : Goto(c, pc)
  BY <1>2, <1>3, <1>5, AfterPlainGoto DEF Plain, Steps, e
<1>6. ASSUME NEW r \in Rungs, ctl' = [ctl EXCEPT ![c].pc = "rung", ![c].rung = r]
      PROVE  StepOf(c)
  <2> DEFINE local == [ctl[c] EXCEPT !.pc = "rung", !.rung = r]
  <2>1. /\ local \in Locals /\ local.pc = "rung" /\ local.rung = r
        /\ local.e = ctl[c].e /\ local.ret = ctl[c].ret
    BY <1>2 DEF Locals, Steps
  <2>2. ctl' = [ctl EXCEPT ![c] = local]
    BY <1>2, <1>6 DEF SupInv, Locals
  <2>3. Alone(c) /\ ctl'[c] = local
    BY <2>1, <2>2, AfterUpdate DEF SupInv
  <2>4. runState' \in Begun
    BY <1>2, <1>3, StoreKept DEF SupInv, Kept
  <2> HIDE DEF local
  <2>5. Remembers(c)'
    BY <1>2, <2>1, <2>3, <2>4 DEF Remembers, e
  <2> QED
    BY <1>3, <2>3, <2>5 DEF StepOf
<1>7. CASE Goto(c, "resume") /\ state[e] \in {"FAILED_REPAIRABLE", "REPAIRING"} /\ UNCHANGED storeVars
  <2>1. Alone(c) /\ ctl'[c] = [ctl[c] EXCEPT !.pc = "resume"]
    BY <1>7, AfterGoto DEF Steps
  <2>2. ctl'[c].pc = "resume" /\ ctl'[c].e = e /\ ctl'[c].ret = ctl[c].ret
    BY <1>2, <2>1 DEF Locals, e
  <2>3. failure'[e] # None
    BY <1>2, <1>7 DEF SupInv, StoreInv, FailuresKnown, storeVars
  <2>4. runState' \in Begun
    BY <1>2, <1>7 DEF storeVars, runVars
  <2>5. Remembers(c)'
    BY <1>2, <2>2, <2>3, <2>4 DEF Remembers
  <2> QED
    BY <1>3, <2>1, <2>5 DEF StepOf
<1> QED
  BY <1>3, <1>4, <1>5, <1>6, <1>7, AfterRaise

\* The failure a controller handles is one with a rung and a status.
LEMMA KnownFailure ==
    ASSUME StoreInv, NEW e \in Exp, failure[e] # None
    PROVE  failure[e] \in Failures /\ failure[e].rung \in Rungs /\ failure[e].status \in Statuses
BY DEF StoreInv, TypeInv, TypeOK, Failures

LEMMA RungStep ==
    ASSUME SupInv, NEW c \in Controllers, Rung(c)
    PROVE  StepOf(c)
<1> DEFINE e == ctl[c].e
           r == ctl[c].rung
           Failed(status) == ctl' = [ctl EXCEPT ![c].pc = "failed", ![c].status = status, ![c].n = reserved[e]]
<1>1. ctl[c].pc \in OfOneExperiment /\ r \in Rungs
  BY DEF Rung, At, OfOneExperiment, SupInv, Remembers
<1>2. /\ ctl[c] \in Locals /\ e \in Exp /\ ctl[c].pc \in Searching
      /\ runState \in Begun /\ ctl[c].ret \in {"loop", "locked"}
  BY <1>1, DrivesAnExperiment
<1>3. reserved[e] \in 0..MaxRepairs
  BY <1>2 DEF SupInv, StoreInv, TypeInv, TypeOK
<1> HIDE DEF e, r
<1>4. [StoreNext]_storeVars
  BY <1>1, <1>2, <1>3 DEF Rung, StoreRung, Commit, Read, Raise, StoreNext, PrepareAndRun, Judge, Repair, e, r
<1>5. \/ Exit(c)
      \/ \E pc \in {"stored", "rung"} : Goto(c, pc) /\ pc \in Steps
      \/ \E status \in Statuses : Failed(status)
  <2>1. CASE RungKey("failure", r, reserved[e]) \in journal[e] /\ Failed(failure[e].status)
    BY <1>1, <1>2, <1>3, <2>1, KnownFailure DEF SupInv, StoreInv, FailuresKnown
  <2> QED
    BY <2>1 DEF Rung, Commit, Read, Raise, Steps, e, r
<1>6. ASSUME NEW pc \in {"stored", "rung"}, Goto(c, pc)
      PROVE  StepOf(c)
  <2>1. Alone(c) /\ ctl'[c] = [ctl[c] EXCEPT !.pc = pc]
    BY <1>6, AfterGoto DEF Steps
  <2>2. ctl'[c].pc = pc /\ ctl'[c].e = e /\ ctl'[c].ret = ctl[c].ret /\ ctl'[c].rung = r
    BY <1>2, <2>1 DEF Locals, e, r
  <2>3. runState' \in Begun
    BY <1>2, <1>4, StoreKept DEF SupInv, Kept
  <2>4. Remembers(c)'
    BY <1>1, <1>2, <2>2, <2>3 DEF Remembers
  <2> QED
    BY <1>4, <2>1, <2>4 DEF StepOf
<1>7. ASSUME NEW status \in Statuses, Failed(status)
      PROVE  StepOf(c)
  <2> DEFINE local == [ctl[c] EXCEPT !.pc = "failed", !.status = status, !.n = reserved[e]]
  <2>1. /\ local \in Locals /\ local.pc = "failed" /\ local.rung = r /\ local.status = status
        /\ local.e = e /\ local.ret = ctl[c].ret
    BY <1>2, <1>3 DEF Locals, Steps, e, r
  <2>2. ctl' = [ctl EXCEPT ![c] = local]
    BY <1>2, <1>7 DEF SupInv, Locals
  <2>3. Alone(c) /\ ctl'[c] = local
    BY <2>1, <2>2, AfterUpdate DEF SupInv
  <2>4. runState' \in Begun
    BY <1>2, <1>4, StoreKept DEF SupInv, Kept
  <2> HIDE DEF local
  <2>5. Remembers(c)'
    BY <1>1, <1>2, <2>1, <2>3, <2>4 DEF Remembers
  <2> QED
    BY <1>4, <2>3, <2>5 DEF StepOf
<1> QED
  BY <1>4, <1>5, <1>6, <1>7, AfterRaise

LEMMA CompleteStep ==
    ASSUME SupInv, NEW c \in Controllers, Complete(c)
    PROVE  StepOf(c)
<1>1. ctl[c].pc \in OfOneExperiment
  BY DEF Complete, At, OfOneExperiment
<1>2. /\ ctl[c] \in Locals /\ ctl[c].e \in Exp
      /\ runState \in Begun /\ ctl[c].ret \in {"loop", "locked"}
  BY <1>1, DrivesAnExperiment
<1>3. [StoreNext]_storeVars
  BY <1>2 DEF Complete, StoreNext, PrepareAndRun, Judge
<1>4. CASE ctl' = [ctl EXCEPT ![c].pc = "run", ![c].rung = None]
  <2> DEFINE local == [ctl[c] EXCEPT !.pc = "run", !.rung = None]
  <2>1. local \in Locals /\ local.pc = "run" /\ local.e = ctl[c].e /\ local.ret = ctl[c].ret
    BY <1>2 DEF Locals, Steps
  <2>2. ctl' = [ctl EXCEPT ![c] = local]
    BY <1>2, <1>4 DEF SupInv, Locals
  <2>3. Alone(c) /\ ctl'[c] = local
    BY <2>1, <2>2, AfterUpdate DEF SupInv
  <2>4. runState' \in Begun
    BY <1>2, <1>3, StoreKept DEF SupInv, Kept
  <2> HIDE DEF local
  <2>5. Remembers(c)'
    BY <1>2, <2>1, <2>3, <2>4 DEF Remembers
  <2> QED
    BY <1>3, <2>3, <2>5 DEF StepOf
<1> QED
  BY <1>3, <1>4, AfterRaise DEF Complete

-----------------------------------------------------------------------------
(* A failure is planned for, and a repair carried out.                     *)

\* A controller that stays with its experiment and relies on nothing new but
\* the number of a repair.
LEMMA AfterPlainUpdate ==
    ASSUME SupInv, [StoreNext]_storeVars, NEW c \in Controllers, NEW local \in Locals,
           ctl' = [ctl EXCEPT ![c] = local], ctl[c].pc \in OfOneExperiment,
           local.e = ctl[c].e, local.ret = ctl[c].ret,
           \/ local.pc \in Plain
           \/ local.pc \in {"reserved", "mend", "mended"} /\ local.n \in 1..MaxRepairs
    PROVE  StepOf(c)
<1>1. ctl[c].e \in Exp /\ runState \in Begun /\ ctl[c].ret \in {"loop", "locked"}
  BY DrivesAnExperiment
<1>2. Alone(c) /\ ctl'[c] = local
  BY AfterUpdate DEF SupInv
<1>3. runState' \in Begun
  BY <1>1, StoreKept DEF SupInv, Kept
<1>4. Remembers(c)'
  BY <1>1, <1>2, <1>3 DEF Remembers, Plain
<1> QED
  BY <1>2, <1>4 DEF StepOf

\* reserve_experiment_repair, or its replay.
LEMMA ReserveStep ==
    ASSUME SupInv, NEW c \in Controllers, ctl[c].pc \in OfOneExperiment,
           NEW cause \in Failures, Reserve(c, ctl[c].e, cause)
    PROVE  StepOf(c)
<1> DEFINE e == ctl[c].e
           Holding(number) == ctl' = [ctl EXCEPT ![c].pc = "reserved", ![c].n = number,
                                                 ![c].rung = None, ![c].status = None]
<1>1. ctl[c] \in Locals /\ e \in Exp
  BY DrivesAnExperiment
<1>2. reserved[e] \in 0..MaxRepairs
  BY <1>1 DEF SupInv, StoreInv, TypeInv, TypeOK
<1>3. [StoreNext]_storeVars
  BY <1>1 DEF Reserve, Raise, StoreNext, Repair
<1>4. Exit(c) \/ \E number \in 1..MaxRepairs : Holding(number)
  <2>1. CASE AllowanceLeft(e) /\ Holding(reserved[e] + 1)
    <3>1. reserved[e] + 1 \in 1..MaxRepairs
      BY <1>2, <2>1, StoreAssumption DEF AllowanceLeft
    <3> HIDE DEF Holding
    <3> QED
      BY <2>1, <3>1
  <2>2. CASE Incomplete(e) # {} /\ Holding(reserved[e])
    <3>1. reserved[e] # 0
      BY <2>2 DEF Incomplete
    <3>2. reserved[e] \in 1..MaxRepairs
      BY <1>2, <3>1, StoreAssumption
    <3> QED
      BY <2>2, <3>2
  <2> QED
    BY <2>1, <2>2 DEF Reserve, ReserveRepair, Raise
<1>5. ASSUME NEW number \in 1..MaxRepairs, Holding(number)
      PROVE  StepOf(c)
  <2> DEFINE local == [ctl[c] EXCEPT !.pc = "reserved", !.n = number, !.rung = None, !.status = None]
  <2>1. /\ local \in Locals /\ local.pc = "reserved" /\ local.n = number
        /\ local.e = ctl[c].e /\ local.ret = ctl[c].ret
    <3>1. "reserved" \in Steps /\ number \in 0..MaxRepairs
      BY StoreAssumption DEF Steps
    <3> QED
      BY <1>1, <3>1 DEF Locals
  <2>2. ctl' = [ctl EXCEPT ![c] = local]
    BY <1>1, <1>5 DEF SupInv, Locals
  <2> HIDE DEF local
  <2> QED
    BY <1>3, <2>1, <2>2, AfterPlainUpdate
<1> QED
  BY <1>3, <1>4, <1>5, AfterRaise

LEMMA PlanStep ==
    ASSUME SupInv, NEW c \in Controllers, ctl[c].pc \in OfOneExperiment,
           NEW cause \in Failures, NEW used \in 0..MaxRepairs, ActOnPlan(c, ctl[c].e, cause, used)
    PROVE  StepOf(c)
<1> DEFINE Continue == ctl' = [ctl EXCEPT ![c].pc = "run", ![c].n = 0, ![c].rung = None, ![c].status = None]
<1>1. ctl[c] \in Locals /\ ctl[c].e \in Exp /\ cause.rung \in Rungs
  BY DrivesAnExperiment DEF Failures
<1>2. CASE Reserve(c, ctl[c].e, cause)
  BY <1>2, ReserveStep
<1>3. CASE ~Reserve(c, ctl[c].e, cause)
  <2>1. [StoreNext]_storeVars
    BY <1>1, <1>3 DEF ActOnPlan, Raise, StoreNext, Repair
  <2>2. Exit(c) \/ Continue
    BY <1>3 DEF ActOnPlan, Raise
  <2>3. CASE Continue
    <3> DEFINE local == [ctl[c] EXCEPT !.pc = "run", !.n = 0, !.rung = None, !.status = None]
    <3>1. local \in Locals /\ local.pc = "run" /\ local.e = ctl[c].e /\ local.ret = ctl[c].ret
      <4>1. "run" \in Steps /\ 0 \in 0..MaxRepairs
        BY StoreAssumption DEF Steps
      <4> QED
        BY <1>1, <4>1 DEF Locals
    <3>2. ctl' = [ctl EXCEPT ![c] = local]
      BY <1>1, <2>3 DEF SupInv, Locals
    <3> HIDE DEF local
    <3> QED
      BY <2>1, <3>1, <3>2, AfterPlainUpdate DEF Plain, Steps
  <2> QED
    BY <2>1, <2>2, <2>3, AfterRaise
<1> QED
  BY <1>2, <1>3

LEMMA HandleFailureStep ==
    ASSUME SupInv, NEW c \in Controllers, HandleFailure(c)
    PROVE  StepOf(c)
<1>1. ctl[c].pc = "failed" /\ ctl[c].pc \in OfOneExperiment
  BY DEF HandleFailure, At, OfOneExperiment
<1>2. [rung |-> ctl[c].rung, status |-> ctl[c].status] \in Failures
  BY <1>1 DEF SupInv, Remembers, Failures
<1>3. ctl[c].n \in 0..MaxRepairs
  BY DEF SupInv, Locals
<1> QED
  BY <1>1, <1>2, <1>3, PlanStep DEF HandleFailure

\* Steps of a repair that keep its number.
LEMMA AfterRepairGoto ==
    ASSUME SupInv, [StoreNext]_storeVars, NEW c \in Controllers, NEW pc \in {"mend", "mended", "run"},
           Goto(c, pc), ctl[c].pc \in {"reserved", "mend", "mended"}
    PROVE  StepOf(c)
<1>1. ctl[c] \in Locals /\ ctl[c].pc \in OfOneExperiment /\ ctl[c].n \in 1..MaxRepairs
  BY DEF SupInv, Remembers, OfOneExperiment
<1> DEFINE local == [ctl[c] EXCEPT !.pc = pc]
<1>2. local \in Locals /\ local.pc = pc /\ local.e = ctl[c].e /\ local.ret = ctl[c].ret /\ local.n = ctl[c].n
  BY <1>1 DEF Locals, Steps
<1>3. ctl' = [ctl EXCEPT ![c] = local]
  BY <1>1 DEF Goto, SupInv, Locals
<1> HIDE DEF local
<1> QED
  BY <1>1, <1>2, <1>3, AfterPlainUpdate DEF Plain, Steps

LEMMA MendStep ==
    ASSUME SupInv, NEW c \in Controllers, Reserved(c) \/ Mend(c) \/ Mended(c)
    PROVE  StepOf(c)
<1>1. ctl[c].pc \in {"reserved", "mend", "mended"}
  BY DEF Reserved, Mend, Mended, At
<1>2. ctl[c].e \in Exp /\ ctl[c].n \in 1..MaxRepairs
  BY <1>1 DEF SupInv, Remembers, OfOneExperiment
<1>3. [StoreNext]_storeVars
  BY <1>2 DEF Reserved, Mend, Mended, Commit, Read, Raise, StoreNext, Repair
<1>4. Exit(c) \/ \E pc \in {"mend", "mended", "run"} : Goto(c, pc)
  BY DEF Reserved, Mend, Mended, Commit, Read, Raise
<1> QED
  BY <1>1, <1>3, <1>4, AfterRaise, AfterRepairGoto

LEMMA ResumeRepairStep ==
    ASSUME SupInv, NEW c \in Controllers, ResumeRepair(c)
    PROVE  StepOf(c)
<1> DEFINE e == ctl[c].e
           number == LatestReservation(e)
<1>1. ctl[c].pc = "resume" /\ ctl[c].pc \in OfOneExperiment
  BY DEF ResumeRepair, At, OfOneExperiment
<1>2. ctl[c] \in Locals /\ e \in Exp /\ failure[e] # None
  BY <1>1, DrivesAnExperiment DEF SupInv, Remembers
<1>3. number \in 0..MaxRepairs
  BY <1>2 DEF LatestReservation, SupInv, StoreInv, TypeInv, TypeOK
<1>4. CASE ActOnPlan(c, e, failure[e], 0)
  BY <1>1, <1>2, <1>4, KnownFailure, PlanStep, StoreAssumption DEF SupInv
<1>5. CASE Raise(c)
  BY <1>5, AfterRaise DEF Raise
<1>6. ASSUME NEW pc \in {"reserved", "mend"}, number > 0, UNCHANGED storeVars,
             ctl' = [ctl EXCEPT ![c].pc = pc, ![c].n = number]
      PROVE  StepOf(c)
  <2> DEFINE local == [ctl[c] EXCEPT !.pc = pc, !.n = number]
  <2>1. number \in 1..MaxRepairs
    BY <1>3, <1>6, StoreAssumption
  <2> HIDE DEF number
  <2>2. /\ local \in Locals /\ local.pc = pc /\ local.n = number
        /\ local.e = ctl[c].e /\ local.ret = ctl[c].ret
    <3>1. pc \in Steps /\ number \in 0..MaxRepairs
      BY <2>1, StoreAssumption DEF Steps
    <3> QED
      BY <1>2, <3>1 DEF Locals
  <2>3. ctl' = [ctl EXCEPT ![c] = local]
    BY <1>2, <1>6 DEF SupInv, Locals
  <2> HIDE DEF local
  <2> QED
    BY <1>1, <1>6, <2>1, <2>2, <2>3, AfterPlainUpdate
<1> QED
  BY <1>4, <1>5, <1>6 DEF ResumeRepair

-----------------------------------------------------------------------------
(* The search loop.                                                        *)

LEMMA SearchLoopStep ==
    ASSUME SupInv, NEW c \in Controllers, SearchLoop(c)
    PROVE  StepOf(c)
<1>1. /\ ctl[c] \in Locals /\ runState \in Begun /\ ctl[c].ret \in {"loop", "locked"}
      /\ UNCHANGED storeVars
  BY DEF SearchLoop, At, SupInv, Remembers, Searching, Finish, Rescan
<1>2. stopReason # "baseline_rejected" /\ stopReason \in StopReasons \cup {None}
  BY <1>1 DEF SupInv, StoreInv, BaselineBlocks, Begun, TypeInv, TypeOK
<1>3. CASE ctl' = [ctl EXCEPT ![c].pc = "scan", ![c].ret = "locked"]
  BY <1>1, <1>3, AfterRescan DEF storeVars, runVars
<1>4. ASSUME NEW pc \in {"pick", "finish"}, NEW reason \in StopReasons \ {"baseline_rejected"},
             reason = "epsilon_plateau" => stopReason = "epsilon_plateau",
             ctl' = [ctl EXCEPT ![c].pc = pc, ![c].reason = reason]
      PROVE  StepOf(c)
  <2> DEFINE local == [ctl[c] EXCEPT !.pc = pc, !.reason = reason]
  <2>1. local \in Locals /\ local.pc = pc /\ local.reason = reason /\ local.ret = ctl[c].ret
    BY <1>1 DEF Locals, Steps
  <2>2. ctl' = [ctl EXCEPT ![c] = local]
    BY <1>1, <1>4 DEF SupInv, Locals
  <2> HIDE DEF local
  <2>3. Alone(c) /\ ctl'[c] = local
    BY <2>1, <2>2, AfterUpdate DEF SupInv
  <2>4. Remembers(c)'
    BY <1>1, <1>4, <2>1, <2>3 DEF Remembers, storeVars, runVars, convergenceVars, OfOneExperiment
  <2> QED
    BY <1>1, <2>3, <2>4 DEF StepOf
<1>5. CASE ctl' = [ctl EXCEPT ![c].pc = "create", ![c].e = hypotheses + 1] /\ hypotheses # NumCards
  <2> DEFINE local == [ctl[c] EXCEPT !.pc = "create", !.e = hypotheses + 1]
  <2>1. hypotheses + 1 \in Exp
    <3>1. hypotheses \in 0..NumCards
      BY DEF SupInv, StoreInv, TypeInv, TypeOK
    <3> QED
      BY <1>5, <3>1, StoreAssumption DEF Exp
  <2>2. local \in Locals /\ local.pc = "create" /\ local.e = hypotheses + 1 /\ local.ret = ctl[c].ret
    BY <1>1, <2>1 DEF Locals, Steps
  <2>3. ctl' = [ctl EXCEPT ![c] = local]
    BY <1>1, <1>5 DEF SupInv, Locals
  <2> HIDE DEF local
  <2>4. Alone(c) /\ ctl'[c] = local
    BY <2>2, <2>3, AfterUpdate DEF SupInv
  <2>5. Remembers(c)'
    BY <1>1, <2>1, <2>2, <2>4 DEF Remembers, storeVars, runVars
  <2> QED
    BY <1>1, <2>4, <2>5 DEF StepOf
<1>6. StopReasonNow # None =>
        /\ StopReasonNow \in StopReasons \ {"baseline_rejected"}
        /\ StopReasonNow = "epsilon_plateau" => stopReason = "epsilon_plateau"
  BY DEF StopReasonNow, StopReasons
<1>7. StopReasonNow = None => hypotheses # NumCards
  BY NullAssumption DEF StopReasonNow, StopReasons
<1>8. "official_finalist_evaluated" \in StopReasons
  BY DEF StopReasons
<1> QED
  BY <1>2, <1>3, <1>4, <1>5, <1>6, <1>7, <1>8 DEF SearchLoop, Rescan, Finish

LEMMA PickStep ==
    ASSUME SupInv, NEW c \in Controllers, PickFinalist(c)
    PROVE  StepOf(c)
<1> DEFINE candidates == {e \in 1..hypotheses : state[e] = "DIAGNOSED" /\ fullResult[e] # None}
<1>1. /\ ctl[c] \in Locals /\ runState \in Begun /\ ctl[c].ret \in {"loop", "locked"} /\ ctl[c].pc = "pick"
      /\ UNCHANGED storeVars
  BY DEF PickFinalist, At, SupInv, Remembers, Searching, Read, Rescan
<1>2. CASE ctl' = [ctl EXCEPT ![c].pc = "scan", ![c].ret = "loop"]
  BY <1>1, <1>2, AfterRescan DEF storeVars, runVars
<1>3. CASE Goto(c, "finish")
  <2>1. Alone(c) /\ ctl'[c] = [ctl[c] EXCEPT !.pc = "finish"]
    BY <1>3, AfterGoto DEF Steps
  <2>2. ctl'[c].pc = "finish" /\ ctl'[c].reason = ctl[c].reason /\ ctl'[c].ret = ctl[c].ret
    BY <1>1, <2>1 DEF Locals
  <2>3. Remembers(c)'
    BY <1>1, <2>2 DEF SupInv, Remembers, storeVars, runVars, convergenceVars, OfOneExperiment
  <2> QED
    BY <1>1, <2>1, <2>3 DEF StepOf
<1>4. ASSUME NEW e \in Selected(candidates), ctl' = [ctl EXCEPT ![c].pc = "lock", ![c].e = e]
      PROVE  StepOf(c)
  <2> DEFINE local == [ctl[c] EXCEPT !.pc = "lock", !.e = e]
  <2>1. e \in Exp
    <3>1. candidates \subseteq Exp
      BY StoreAssumption DEF Exp, SupInv, StoreInv, TypeInv, TypeOK
    <3> QED
      BY <3>1 DEF Selected
  <2>2. local \in Locals /\ local.pc = "lock" /\ local.e = e /\ local.ret = ctl[c].ret
    BY <1>1, <2>1 DEF Locals, Steps
  <2>3. ctl' = [ctl EXCEPT ![c] = local]
    BY <1>1, <1>4 DEF SupInv, Locals
  <2> HIDE DEF local
  <2>4. Alone(c) /\ ctl'[c] = local
    BY <2>2, <2>3, AfterUpdate DEF SupInv
  <2>5. Remembers(c)'
    BY <1>1, <2>1, <2>2, <2>4 DEF Remembers, storeVars, runVars
  <2> QED
    BY <1>1, <2>4, <2>5 DEF StepOf
<1> QED
  BY <1>2, <1>3, <1>4 DEF PickFinalist, Rescan, Read

LEMMA LockStep ==
    ASSUME SupInv, NEW c \in Controllers, Lock(c)
    PROVE  StepOf(c)
<1>1. ctl[c].pc \in OfOneExperiment
  BY DEF Lock, At, OfOneExperiment
<1>2. ctl[c].e \in Exp /\ runState \in Begun
  BY <1>1, DrivesAnExperiment
<1>3. [StoreNext]_storeVars
  BY <1>2 DEF Lock, Rescan, Raise, StoreNext, Judge
<1>4. runState' \in Begun
  BY <1>2, <1>3, StoreKept DEF SupInv, Kept
<1>5. Exit(c) \/ ctl' = [ctl EXCEPT ![c].pc = "scan", ![c].ret = "loop"]
  BY DEF Lock, Rescan, Raise
<1> QED
  BY <1>3, <1>4, <1>5, AfterRescan, AfterRaise

LEMMA AfterFinalistStep ==
    ASSUME SupInv, NEW c \in Controllers, AfterFinalist(c)
    PROVE  StepOf(c)
<1>1. /\ ctl[c] \in Locals /\ runState \in Begun /\ ctl[c].ret \in {"loop", "locked"} /\ ctl[c].pc = "locked"
      /\ UNCHANGED storeVars
  BY DEF AfterFinalist, At, SupInv, Remembers, Searching, Read, Finish, Raise
<1>2. CASE Goto(c, "loop")
  BY <1>1, <1>2, AfterPlainGoto DEF Plain, Steps, Searching, OfOneExperiment
<1>3. CASE Exit(c)
  BY <1>1, <1>3, AfterRaise
<1>4. CASE ctl' = [ctl EXCEPT ![c].pc = "finish", ![c].reason = "locked_official_finalist_failed"]
  <2> DEFINE local == [ctl[c] EXCEPT !.pc = "finish", !.reason = "locked_official_finalist_failed"]
  <2>1. /\ local \in Locals /\ local.pc = "finish" /\ local.ret = ctl[c].ret
        /\ local.reason = "locked_official_finalist_failed"
    BY <1>1 DEF Locals, Steps, StopReasons
  <2>2. ctl' = [ctl EXCEPT ![c] = local]
    BY <1>1, <1>4 DEF SupInv, Locals
  <2> HIDE DEF local
  <2>3. Alone(c) /\ ctl'[c] = local
    BY <2>1, <2>2, AfterUpdate DEF SupInv
  <2>4. Remembers(c)'
    BY <1>1, <2>1, <2>3 DEF Remembers, storeVars, runVars, OfOneExperiment, StopReasons
  <2> QED
    BY <1>1, <2>3, <2>4 DEF StepOf
<1> QED
  BY <1>2, <1>3, <1>4 DEF AfterFinalist, Read, Finish, Raise

-----------------------------------------------------------------------------
(* All steps.                                                              *)

LEMMA WorkStep ==
    ASSUME SupInv, NEW c \in Controllers, Work(c)
    PROVE  StepOf(c)
BY LaunchStep, BeginStep, CloseStep, ScanStep, NextStep, PrepareCandidateStep, RunCandidateStep, RungStep,
   CompleteStep, HandleFailureStep, MendStep, ResumeRepairStep, SearchLoopStep, PickStep, LockStep,
   AfterFinalistStep
DEF Work, Drive

LEMMA FaultStep ==
    ASSUME SupInv, NEW c \in Controllers, Crash(c) \/ Interrupt(c)
    PROVE  StepOf(c)
<1>1. UNCHANGED storeVars
  BY DEF Crash, Interrupt
<1>2. CASE Interrupt(c)
  BY <1>1, <1>2, AfterRaise DEF Interrupt
<1>3. CASE Crash(c)
  <2>1. Fresh \in Locals /\ Fresh.pc = "down"
    BY NoRows, StoreAssumption DEF Fresh, Locals, Steps, Phases
  <2>2. Alone(c) /\ ctl'[c] = Fresh
    BY <1>3, <2>1, AfterUpdate DEF Crash, SupInv
  <2>3. Remembers(c)'
    BY <2>1, <2>2 DEF Remembers, Searching, OfOneExperiment
  <2> QED
    BY <1>1, <2>2, <2>3 DEF StepOf
<1> QED
  BY <1>2, <1>3

LEMMA SupStep ==
    ASSUME SupInv, [SupNext]_supVars
    PROVE  SupInv' /\ [StoreNext]_storeVars
<1>1. ASSUME NEW c \in Controllers, Work(c) \/ Crash(c) \/ Interrupt(c)
      PROVE  SupInv' /\ [StoreNext]_storeVars
  BY <1>1, WorkStep, FaultStep, StepKeepsInv DEF StepOf
<1>2. ASSUME UNCHANGED <<storeVars, ctl>>
      PROVE  SupInv' /\ [StoreNext]_storeVars
  <2>1. StoreInv' /\ Kept
    BY <1>2, StoreKept DEF SupInv
  <2>2. \A c \in Controllers : Remembers(c)'
    BY <1>2, <2>1 DEF SupInv, Remembers, Kept, Searching, OfOneExperiment
  <2> QED
    BY <1>2, <2>1, <2>2 DEF SupInv
<1> QED
  BY <1>1, <1>2 DEF SupNext, Expire, supVars

LEMMA SupStart == SupInit => SupInv
<1> SUFFICES ASSUME SupInit
             PROVE  SupInv
  OBVIOUS
<1>1. TypeInv
  BY InitType DEF SupInit
<1>2. FailuresKnown
  BY DEF SupInit, StoreInit, FailuresKnown
<1>3. BaselineBlocks
  BY NullAssumption DEF SupInit, StoreInit, BaselineBlocks, StopReasons
<1>4. Fresh \in Locals /\ Fresh.pc = "down"
  BY NoRows, StoreAssumption DEF Fresh, Locals, Steps, Phases
<1>5. ctl = [c \in Controllers |-> Fresh]
  BY DEF SupInit
<1>6. \A c \in Controllers : Remembers(c)
  BY <1>4, <1>5 DEF Remembers, Searching, OfOneExperiment
<1> QED
  BY <1>1, <1>2, <1>3, <1>4, <1>5, <1>6 DEF SupInv, StoreInv

\* What a controller keeps in its local variables between two transactions is true
\* enough of the rows, although another controller or a resumed one may have
\* moved the run on: the invariant behind the next theorem.
THEOREM ControllersRemember == SupSafety => []SupInv
BY SupStart, SupStep, PTL DEF SupSafety

\* A production run implements the store: whatever its controllers do and wherever
\* they are killed, they only run transactions that the store specification lets
\* anybody run.
THEOREM StoreImplemented == SupSafety => ImplementsStore
<1>1. SupInit => StoreInit
  BY DEF SupInit
<1> QED
  BY <1>1, SupStep, ControllersRemember, PTL DEF SupSafety, ImplementsStore, StoreSpec

\* So the program evaluates one finalist officially, promotes a champion that
\* earned it, keeps the best shadow champion, declares no plateau on too few
\* families in discovery and asks for no illegal transition.
THEOREM ProgramKeepsStore ==
    SupSafety => /\ [](OfficialBoundToFinalist /\ ChampionEarnedIt /\ ShadowChampionIsBest
                       /\ DiscoveryPlateauIsDiverse)
                 /\ OnlyLegalTransitions /\ ValidationIsOneWay
BY StoreImplemented, OneOfficialEvaluation, ChampionEarned, ShadowChampionBest, DiscoveryPlateauDiverse,
   TransitionsAreLegal, ValidationRefined, PTL DEF ImplementsStore

-----------------------------------------------------------------------------
(* Repairs.  Only the latest reservation can be incomplete, whoever holds  *)
(* it, so a revision is always applied for the latest one.                 *)

RepairsInv ==
    \A e \in Exp :
        /\ repairDone[e] \subseteq 1..reserved[e] /\ revised[e] \subseteq 1..reserved[e]
        /\ Incomplete(e) \subseteq {reserved[e]}
        /\ \A n \in repairDone[e] : repairFor[e][n].status \in Revising => n \in revised[e]
        /\ \A n \in revised[e] : n <= revision[e]

\* A revision is applied before its repair is complete, and a repair that revises
\* is completed only after it.
Revises(e, n) == n \notin repairDone[e] /\ ApplyRepairRevision(e, n)
Completes(e, n) ==
    (n \in revised[e] \/ repairFor[e][n].status \notin Revising) /\ CompleteRepair(e, n)

RepairMoves ==
    \/ UNCHANGED repairVars
    \/ \E e \in Exp, cause \in Failures : ReserveRepair(e, cause)
    \/ \E e \in Exp, n \in 1..MaxRepairs : Revises(e, n) \/ Completes(e, n)

LEMMA PlanMoves ==
    ASSUME SupInv, NEW c \in Controllers, HandleFailure(c) \/ ResumeRepair(c)
    PROVE  RepairMoves
<1>1. ctl[c].e \in Exp
  BY DrivesAnExperiment DEF HandleFailure, ResumeRepair, At, OfOneExperiment
<1>2. ASSUME NEW cause \in Failures, NEW used, ActOnPlan(c, ctl[c].e, cause, used)
      PROVE  RepairMoves
  BY <1>1, <1>2 DEF ActOnPlan, Reserve, Raise, FailFinal, TransitionExperiment, storeVars, RepairMoves
<1>3. CASE HandleFailure(c)
  <2>1. [rung |-> ctl[c].rung, status |-> ctl[c].status] \in Failures
    BY <1>3 DEF SupInv, Remembers, Failures, HandleFailure, At
  <2> QED
    BY <1>2, <1>3, <2>1 DEF HandleFailure
<1>4. CASE ResumeRepair(c)
  <2>1. failure[ctl[c].e] \in Failures
    BY <1>1, <1>4, KnownFailure DEF SupInv, Remembers, ResumeRepair, At
  <2> QED
    BY <1>2, <1>4, <2>1 DEF ResumeRepair, Raise, storeVars, RepairMoves
<1> QED
  BY <1>3, <1>4

LEMMA MendMoves ==
    ASSUME SupInv, NEW c \in Controllers, Reserved(c) \/ Mend(c) \/ Mended(c)
    PROVE  RepairMoves
<1>1. ctl[c].e \in Exp /\ ctl[c].n \in 1..MaxRepairs
  BY DrivesAnExperiment DEF SupInv, Remembers, Reserved, Mend, Mended, At, OfOneExperiment
<1>2. CASE Reserved(c) \/ Mended(c)
  BY <1>2 DEF Reserved, Mended, Commit, Read, Raise, BeginRepair, ResumeRung, TransitionExperiment,
     storeVars, RepairMoves
<1>3. CASE Mend(c)
  BY <1>1, <1>3 DEF Mend, Commit, Read, Raise, FailRepair, TransitionExperiment, storeVars, RepairMoves,
     Revises, Completes
<1> QED
  BY <1>2, <1>3

LEMMA OtherMoves ==
    ASSUME NEW c \in Controllers,
           \/ Launch(c) \/ Begin(c) \/ VerifyBaseline(c) \/ Scan(c) \/ NextRow(c) \/ Create(c) \/ Prepare(c)
           \/ RunCandidate(c) \/ Rung(c) \/ Complete(c) \/ SearchLoop(c) \/ PickFinalist(c) \/ Lock(c)
           \/ AfterFinalist(c) \/ CloseSearch(c) \/ CloseSession(c) \/ Finalize(c) \/ Seal(c)
           \/ Crash(c) \/ Interrupt(c)
    PROVE  UNCHANGED repairVars
<1>1. CASE Launch(c) \/ Begin(c) \/ VerifyBaseline(c) \/ CloseSearch(c) \/ CloseSession(c) \/ Finalize(c)
           \/ Seal(c) \/ Crash(c) \/ Interrupt(c)
  BY <1>1 DEF Launch, OpenRun, OpenSession, OpenCompletedRun, Begin, VerifyBaseline, ResumeSearch,
     CloseSearch, CloseSession, Finalize, Seal, Crash, Interrupt, Commit, Read, Raise, Rescan,
     CreateRun, EstablishBaseline, TransitionRun, storeVars
<1>2. CASE Scan(c) \/ NextRow(c) \/ SearchLoop(c) \/ PickFinalist(c) \/ Lock(c) \/ AfterFinalist(c)
  BY <1>2 DEF Scan, NextRow, DriveRow, SearchLoop, PickFinalist, Lock, AfterFinalist, Read, Raise, Rescan, Finish,
     AbandonNonFinalist, LockFinalist, TransitionExperiment, storeVars
<1>3. CASE Create(c) \/ Prepare(c)
  BY <1>3 DEF Create, Prepare, Commit, Read, Raise, CreateExperiment, PrepareStep, AbandonPreparation,
     TransitionExperiment, storeVars
<1>4. CASE RunCandidate(c)
  BY <1>4 DEF RunCandidate, RunShadow, Commit, Read, Raise, StartCheap, CompleteCheap, RejectCheap, ReserveFull,
     StartFull, CompleteFull, Diagnose, CompleteOfficial, RejectNonImproving, PromoteSearchCandidate,
     CountFailedTransaction, RecordShadowEvaluation, RejectFull, RejectCandidate, AbandonNonFinalist,
     StartOfficial, TransitionExperiment, storeVars
<1>5. CASE Rung(c) \/ Complete(c)
  BY <1>5 DEF Rung, Complete, StoreRung, Commit, Read, Raise, StoreCheap, StoreFull, StoreOfficial, RecordOfficialMetrics,
     FailRung, CompleteCheap, CompleteFull, CompleteOfficial, TransitionExperiment, storeVars
<1> QED
  BY <1>1, <1>2, <1>3, <1>4, <1>5

LEMMA ReserveKeepsRepairs ==
    ASSUME TypeOK, RepairsInv, NEW e \in Exp, NEW cause \in Failures, ReserveRepair(e, cause)
    PROVE  RepairsInv'
<1>1. /\ reserved[e] \in 0..MaxRepairs /\ reserved'[e] = reserved[e] + 1
      /\ repairFor[e] \in [1..MaxRepairs -> Failures \cup {None}]
      /\ \A x \in Exp : x # e => reserved'[x] = reserved[x] /\ repairFor'[x] = repairFor[x]
      /\ \A n \in 1..MaxRepairs : n # reserved[e] + 1 => repairFor'[e][n] = repairFor[e][n]
      /\ UNCHANGED <<repairDone, revised, revision>>
      /\ repairDone[e] \in SUBSET (1..MaxRepairs)
  BY DEF ReserveRepair, TypeOK
<1>2. \A n \in 1..reserved[e] : n \in repairDone[e]
  BY DEF ReserveRepair, Incomplete
<1>3. \A x \in Exp : x # e => Incomplete(x)' = Incomplete(x)
  BY <1>1 DEF Incomplete
<1>4. Incomplete(e)' \subseteq {reserved[e] + 1}
  BY <1>1, <1>2 DEF Incomplete
<1>5. \A n \in repairDone[e] : n # reserved[e] + 1 /\ n \in 1..MaxRepairs
  BY <1>1 DEF RepairsInv
<1>6. 1..reserved[e] \subseteq 1..(reserved[e] + 1)
  BY <1>1
<1> QED
  BY <1>1, <1>3, <1>4, <1>5, <1>6 DEF RepairsInv

LEMMA RepairKeepsRepairs ==
    ASSUME TypeOK, RepairsInv, NEW e \in Exp, NEW n \in 1..MaxRepairs, Revises(e, n) \/ Completes(e, n)
    PROVE  RepairsInv'
<1>1. /\ n \in 1..reserved[e] /\ reserved[e] \in 0..MaxRepairs /\ UNCHANGED <<reserved, repairFor>>
  BY StoreAssumption DEF Revises, Completes, ApplyRepairRevision, CompleteRepair, TypeOK
<1>2. CASE Revises(e, n)
  <2>1. /\ UNCHANGED repairDone
        /\ revised'[e] = revised[e] \cup {n} /\ revision'[e] = n
        /\ \A x \in Exp : x # e => revised'[x] = revised[x] /\ revision'[x] = revision[x]
    BY <1>2 DEF Revises, ApplyRepairRevision, TypeOK
  <2>2. n = reserved[e]
    BY <1>1, <1>2 DEF Revises, RepairsInv, Incomplete
  <2>3. \A x \in Exp : Incomplete(x)' = Incomplete(x)
    BY <1>1, <2>1 DEF Incomplete
  <2>4. \A m \in revised'[e] : m \in 1..reserved[e] /\ m <= n
    BY <1>1, <2>1, <2>2 DEF RepairsInv
  <2> QED
    BY <1>1, <2>1, <2>2, <2>3, <2>4 DEF RepairsInv
<1>3. CASE Completes(e, n)
  <2>1. /\ UNCHANGED <<revised, revision>>
        /\ repairDone'[e] = repairDone[e] \cup {n}
        /\ \A x \in Exp : x # e => repairDone'[x] = repairDone[x]
        /\ repairFor[e][n].status \in Revising => n \in revised[e]
    BY <1>3 DEF Completes, CompleteRepair, TypeOK
  <2>2. \A x \in Exp : Incomplete(x)' \subseteq Incomplete(x)
    BY <1>1, <2>1 DEF Incomplete
  <2> QED
    BY <1>1, <2>1, <2>2 DEF RepairsInv
<1> QED
  BY <1>2, <1>3

LEMMA RepairsStep ==
    ASSUME SupInv, RepairsInv, [SupNext]_supVars
    PROVE  RepairsInv'
<1>1. CASE UNCHANGED repairVars
  BY <1>1 DEF repairVars, RepairsInv, Incomplete
<1>2. ASSUME NEW c \in Controllers, Work(c) \/ Crash(c) \/ Interrupt(c)
      PROVE  RepairMoves
  BY <1>2, PlanMoves, MendMoves, OtherMoves DEF Work, Drive, RepairMoves
<1>3. ASSUME RepairMoves
      PROVE  RepairsInv'
  BY <1>1, <1>3, ReserveKeepsRepairs, RepairKeepsRepairs DEF RepairMoves, SupInv, StoreInv, TypeInv
<1>4. CASE Expire \/ UNCHANGED supVars
  BY <1>1, <1>4 DEF Expire, supVars, storeVars
<1> QED
  BY <1>2, <1>3, <1>4 DEF SupNext

LEMMA RepairsStart == SupInit => RepairsInv
<1> SUFFICES ASSUME SupInit, NEW e \in Exp
             PROVE  /\ repairDone[e] = {} /\ revised[e] = {} /\ Incomplete(e) = {}
  BY DEF RepairsInv
<1> QED
  BY DEF SupInit, StoreInit, Incomplete

\* Two controllers that both believe they own the run never have two repairs of
\* one experiment under way, a completed repair has left its revision, and no
\* overtaken repair ever sets the effective revision.
THEOREM OneRepairUnderWay == SupSafety => []OneRepairAtATime
<1>1. RepairsInv => OneRepairAtATime
  <2> SUFFICES ASSUME RepairsInv, NEW e \in Exp
               PROVE  Cardinality(Incomplete(e)) <= 1
    BY DEF OneRepairAtATime, RepairsInv, Incomplete
  <2>1. IsFiniteSet({reserved[e]}) /\ Cardinality({reserved[e]}) = 1
    BY FS_Singleton
  <2>2. Cardinality(Incomplete(e)) <= Cardinality({reserved[e]})
    BY <2>1, FS_Subset DEF RepairsInv
  <2> QED
    BY <2>1, <2>2
<1> QED
  BY <1>1, RepairsStart, RepairsStep, ControllersRemember, PTL DEF SupSafety

-----------------------------------------------------------------------------
(* The session.  While a live controller's session is never taken over,    *)
(* whoever searches holds the session and the run is searching: nobody     *)
(* else moves the run or its experiments.                                  *)

Unheld == {"down", "finalize", "seal"}

Holds(c) ==
    /\ ctl[c].pc \notin Unheld => owner = c
    /\ ctl[c].pc \in Searching => runState = "SEARCHING"
    /\ ctl[c].pc = "seal" => runState = "COMPLETE"
HeldInv == \A c \in Controllers : Holds(c)

\* The bundle is the champion of a run that is over.
SealInv == HeldInv /\ SealedIsChampion

\* A step that goes on searching, or ends the process.
SearchMove(c) ==
    /\ ctl[c].pc \in Searching
    /\ runState' = runState
    /\ Exit(c) \/ (ctl'[c].pc \in Searching /\ owner' = owner)

SearchStep(c) ==
    \/ Scan(c) \/ NextRow(c) \/ Create(c) \/ Prepare(c) \/ RunCandidate(c) \/ Rung(c) \/ Complete(c)
    \/ HandleFailure(c) \/ Reserved(c) \/ ResumeRepair(c) \/ Mend(c) \/ Mended(c)
    \/ SearchLoop(c) \/ PickFinalist(c) \/ Lock(c) \/ AfterFinalist(c)

\* What a step of c must leave to the others.
LEMMA OthersHold ==
    ASSUME HeldInv, NEW c \in Controllers, Alone(c), Holds(c)',
           owner' = owner \/ owner \notin Controllers \/ owner = c \/ ctl[owner].pc = "down",
           \/ runState' = runState
           \/ runState \notin {"SEARCHING", "COMPLETE"}
           \/ runState = "SEARCHING" /\ owner = c
    PROVE  HeldInv'
<1>1. ASSUME NEW d \in Controllers \ {c}
      PROVE  Holds(d)'
  <2>1. ctl'[d] = ctl[d] /\ Holds(d)
    BY DEF Alone, HeldInv
  <2>2. ctl[d].pc \in Searching => ctl[d].pc \notin Unheld
    BY DEF Searching, OfOneExperiment, Unheld
  <2>3. ctl[d].pc \notin Unheld => owner' = d /\ owner = d
    BY <2>1 DEF Holds, Unheld
  <2> QED
    BY <2>1, <2>2, <2>3 DEF Holds
<1> QED
  BY <1>1 DEF HeldInv

LEMMA PcAfterGoto ==
    ASSUME SupInv, NEW c \in Controllers, NEW pc, Goto(c, pc)
    PROVE  ctl'[c].pc = pc
BY DEF SupInv, Goto, Locals

LEMMA PcAfterExit ==
    ASSUME SupInv, NEW c \in Controllers, Exit(c)
    PROVE  ctl'[c].pc = "down" /\ owner' = IF owner = c THEN None ELSE owner
BY DEF SupInv, Exit, Fresh

\* No step of an experiment moves the run.
LEMMA SearchMoves ==
    ASSUME SupInv, NEW c \in Controllers, SearchStep(c)
    PROVE  SearchMove(c)
<1> DEFINE Stays == Exit(c) \/ (ctl'[c].pc \in Searching /\ owner' = owner)
<1>1. ctl[c].pc \in Searching
  BY DEF SearchStep, Scan, NextRow, Create, Prepare, RunCandidate, Rung, Complete, HandleFailure, Reserved,
     ResumeRepair, Mend, Mended, SearchLoop, PickFinalist, Lock, AfterFinalist, At, Searching, OfOneExperiment
<1>2. ctl \in [Controllers -> Locals] /\ ctl[c] \in Locals
  BY DEF SupInv
<1>3. ctl[c].ret \in Searching
  BY <1>1 DEF SupInv, Remembers, Searching, OfOneExperiment
<1>4. CASE Scan(c) \/ NextRow(c)
  <2>1. runState' = runState
    BY <1>4 DEF Scan, NextRow, DriveRow, AbandonNonFinalist, TransitionExperiment, storeVars, runVars
  <2>2. ASSUME Scan(c)
        PROVE  Stays
    <3>1. ctl'[c].pc = "next" /\ owner' = owner
      BY <1>2, <2>2 DEF Scan, Locals
    <3> QED
      BY <3>1 DEF Searching, OfOneExperiment
  <2>3. ASSUME NEW e, DriveRow(c, e)
        PROVE  Stays
    <3>1. Exit(c) \/ (ctl'[c].pc \in {"next", "prepare", "run"} /\ owner' = owner)
      BY <1>2, <2>3 DEF DriveRow, Locals
    <3> QED
      BY <3>1 DEF Searching, OfOneExperiment
  <2>4. ASSUME ctl' = [ctl EXCEPT ![c].pc = ctl[c].ret, ![c].e = None, ![c].todo = <<>>], owner' = owner
        PROVE  Stays
    <3>1. ctl'[c].pc = ctl[c].ret
      BY <1>2, <2>4 DEF Locals
    <3> QED
      BY <1>3, <2>4, <3>1
  <2> QED
    BY <1>1, <1>4, <2>1, <2>2, <2>3, <2>4 DEF SearchMove, NextRow
<1>5. CASE SearchLoop(c) \/ PickFinalist(c) \/ Lock(c) \/ AfterFinalist(c)
  <2>1. runState' = runState
    BY <1>5 DEF SearchLoop, PickFinalist, Lock, AfterFinalist, Read, Raise, Rescan, Finish, LockFinalist,
       storeVars, runVars
  <2>2. ASSUME NEW ret, Rescan(c, ret) \/ Finish(c, ret) \/ ctl' = [ctl EXCEPT ![c].pc = "scan", ![c].ret = ret]
        PROVE  ctl'[c].pc \in Searching
    <3>1. ctl'[c].pc \in {"scan", "finish"}
      BY <1>2, <2>2 DEF Rescan, Finish, Locals
    <3> QED
      BY <3>1 DEF Searching, OfOneExperiment
  <2>3. ASSUME NEW pc \in {"pick", "create", "lock"}, NEW x,
               \/ ctl' = [ctl EXCEPT ![c].pc = pc, ![c].e = x]
               \/ ctl' = [ctl EXCEPT ![c].pc = pc, ![c].reason = x]
        PROVE  ctl'[c].pc \in Searching
    <3>1. ctl'[c].pc = pc
      BY <1>2, <2>3 DEF Locals
    <3> QED
      BY <3>1 DEF Searching, OfOneExperiment
  <2>4. ASSUME NEW pc \in {"loop", "finish"}, Read(c, pc)
        PROVE  ctl'[c].pc \in Searching
    BY <2>4, PcAfterGoto DEF Read, Searching, OfOneExperiment
  <2>5. Stays
    <3>1. Exit(c) \/ owner' = owner
      BY <1>5 DEF SearchLoop, PickFinalist, Lock, AfterFinalist, Read, Raise, Rescan, Finish
    <3>2. Exit(c) \/ ctl'[c].pc \in Searching
      BY <1>5, <2>2, <2>3, <2>4 DEF SearchLoop, PickFinalist, Lock, AfterFinalist, Raise
    <3> QED
      BY <3>1, <3>2
  <2> QED
    BY <1>1, <2>1, <2>5 DEF SearchMove
<1>6. CASE Create(c) \/ Prepare(c)
  <2>1. runState' = runState
    BY <1>6 DEF Create, Prepare, Commit, Read, Raise, CreateExperiment, PrepareStep, AbandonPreparation,
       TransitionExperiment, storeVars, runVars
  <2>2. Stays
    BY <1>2, <1>6 DEF Create, Prepare, Commit, Read, Raise, Goto, Locals, Searching, OfOneExperiment
  <2> QED
    BY <1>1, <2>1, <2>2 DEF SearchMove
<1>7. CASE RunCandidate(c)
  <2>1. runState' = runState
    BY <1>7 DEF RunCandidate, RunShadow, Commit, Read, Raise, StartCheap, CompleteCheap, RejectCheap, ReserveFull,
       StartFull, CompleteFull, Diagnose, CompleteOfficial, RejectNonImproving, PromoteSearchCandidate,
       CountFailedTransaction, RecordShadowEvaluation, RejectFull, RejectCandidate, AbandonNonFinalist,
       StartOfficial, TransitionExperiment, storeVars, runVars
  <2>2. Stays
    BY <1>2, <1>7 DEF RunCandidate, RunShadow, Commit, Read, Raise, Goto, Locals, Searching, OfOneExperiment
  <2> QED
    BY <1>1, <2>1, <2>2 DEF SearchMove
<1>8. CASE Rung(c) \/ Complete(c)
  <2>1. runState' = runState
    BY <1>8 DEF Rung, Complete, StoreRung, Commit, Read, Raise, StoreCheap, StoreFull, StoreOfficial,
       RecordOfficialMetrics, FailRung, CompleteCheap, CompleteFull, CompleteOfficial, TransitionExperiment,
       storeVars, runVars
  <2>2. ASSUME Rung(c)
        PROVE  Exit(c) \/ (ctl'[c].pc \in {"rung", "stored", "failed"} /\ owner' = owner)
    <3>1. ASSUME NEW status, ctl' = [ctl EXCEPT ![c].pc = "failed", ![c].status = status, ![c].n = reserved[ctl[c].e]]
          PROVE  ctl'[c].pc = "failed"
      BY <1>2, <3>1 DEF Locals
    <3> QED
      BY <2>2, <3>1, PcAfterGoto DEF Rung, Commit, Read, Raise
  <2>3. ASSUME Complete(c)
        PROVE  Exit(c) \/ (ctl'[c].pc = "run" /\ owner' = owner)
    <3>1. ASSUME ctl' = [ctl EXCEPT ![c].pc = "run", ![c].rung = None]
          PROVE  ctl'[c].pc = "run"
      BY <1>2, <3>1 DEF Locals
    <3> QED
      BY <2>3, <3>1 DEF Complete
  <2>4. Stays
    BY <1>8, <2>2, <2>3 DEF Searching, OfOneExperiment
  <2> QED
    BY <1>1, <2>1, <2>4 DEF SearchMove
<1>9. ASSUME NEW cause, NEW used, ActOnPlan(c, ctl[c].e, cause, used)
      PROVE  runState' = runState /\ Stays
  <2>1. runState' = runState
    BY <1>9 DEF ActOnPlan, Reserve, Raise, ReserveRepair, FailFinal, TransitionExperiment, storeVars, runVars
  <2>2. Stays
    BY <1>2, <1>9 DEF ActOnPlan, Reserve, Raise, Locals, Searching, OfOneExperiment
  <2> QED
    BY <2>1, <2>2
<1>10. CASE HandleFailure(c) \/ ResumeRepair(c)
  <2>1. runState' = runState /\ Stays
    BY <1>2, <1>9, <1>10 DEF HandleFailure, ResumeRepair, Raise, storeVars, runVars, Locals, Searching,
       OfOneExperiment
  <2> QED
    BY <1>1, <2>1 DEF SearchMove
<1>11. CASE Reserved(c) \/ Mend(c) \/ Mended(c)
  <2>1. runState' = runState
    BY <1>11 DEF Reserved, Mend, Mended, Commit, Read, Raise, BeginRepair, ApplyRepairRevision, CompleteRepair,
       FailRepair, ResumeRung, TransitionExperiment, storeVars, runVars
  <2>2. Stays
    BY <1>2, <1>11 DEF Reserved, Mend, Mended, Commit, Read, Raise, Goto, Locals, Searching, OfOneExperiment
  <2> QED
    BY <1>1, <2>1, <2>2 DEF SearchMove
<1> QED
  BY <1>4, <1>5, <1>6, <1>7, <1>8, <1>10, <1>11 DEF SearchStep

LEMMA HeldWhileSearching ==
    ASSUME SupInv, HeldInv, NEW c \in Controllers, SearchMove(c), Alone(c)
    PROVE  HeldInv'
<1>1. owner = c /\ runState = "SEARCHING" /\ runState' = runState
  BY DEF HeldInv, Holds, SearchMove, Searching, OfOneExperiment, Unheld
<1>2. Holds(c)'
  <2>1. CASE Exit(c)
    BY <2>1, PcAfterExit DEF Holds, Unheld, Searching, OfOneExperiment
  <2>2. CASE ctl'[c].pc \in Searching /\ owner' = owner
    BY <1>1, <2>2 DEF Holds, Searching, OfOneExperiment
  <2> QED
    BY <2>1, <2>2 DEF SearchMove
<1> QED
  BY <1>1, <1>2, OthersHold

\* The steps that open, close and seal a run.
LEMMA HeldAtTheEnds ==
    ASSUME SupInv, HeldInv, ~StaleTakeover, NEW c \in Controllers, Alone(c),
           \/ Launch(c) \/ Begin(c) \/ VerifyBaseline(c) \/ CloseSearch(c) \/ CloseSession(c)
           \/ Finalize(c) \/ Seal(c) \/ Crash(c) \/ Interrupt(c)
    PROVE  HeldInv'
<1>1. Holds(c)
  BY DEF HeldInv
<1>2. CASE OpenRun(c)
  <2>1. ctl'[c].pc = "down" /\ owner' = owner /\ runState = "ABSENT"
    BY <1>2, PcAfterGoto DEF OpenRun, Commit
  <2> QED
    BY <2>1, OthersHold DEF Holds, Unheld, Searching, OfOneExperiment
<1>3. CASE OpenSession(c)
  <2>1. /\ ctl'[c].pc = "begin" /\ owner' = c /\ runState' = runState
        /\ owner \notin Controllers \/ ctl[owner].pc = "down"
    BY <1>3, PcAfterGoto DEF OpenSession, At, storeVars, runVars
  <2> QED
    BY <2>1, OthersHold DEF Holds, Unheld, Searching, OfOneExperiment
<1>4. CASE OpenCompletedRun(c)
  <2>1. ctl'[c].pc = "finalize" /\ owner' = owner /\ runState' = runState
    BY <1>4, PcAfterGoto DEF OpenCompletedRun, Read, storeVars, runVars
  <2> QED
    BY <2>1, OthersHold DEF Holds, Unheld, Searching, OfOneExperiment
<1>5. CASE Exit(c) /\ runState' = runState
  <2>1. Holds(c)'
    BY <1>5, PcAfterExit DEF Holds, Unheld, Searching, OfOneExperiment
  <2> QED
    BY <1>5, <2>1, PcAfterExit, OthersHold
<1>6. CASE Begin(c)
  <2>1. ctl[c].pc = "begin" /\ owner = c
    BY <1>1, <1>6 DEF Begin, At, Holds, Unheld
  <2>2. CASE TransitionRun("INITIALIZING", "BASELINE_VERIFYING", None) /\ Goto(c, "baseline") /\ owner' = owner
    <3>1. ctl'[c].pc = "baseline" /\ runState = "INITIALIZING"
      BY <2>2, PcAfterGoto DEF TransitionRun
    <3> QED
      BY <2>1, <2>2, <3>1, OthersHold DEF Holds, Unheld, Searching, OfOneExperiment
  <2>3. ASSUME NEW pc \in {"baseline", "close"}, Read(c, pc)
        PROVE  HeldInv'
    <3>1. ctl'[c].pc = pc /\ runState' = runState /\ owner' = owner
      BY <2>3, PcAfterGoto DEF Read, storeVars, runVars
    <3> QED
      BY <2>1, <3>1, OthersHold DEF Holds, Unheld, Searching, OfOneExperiment
  <2>4. CASE ResumeSearch(c)
    <3>1. ctl'[c].pc = "scan" /\ runState' = "SEARCHING" /\ runState' = runState /\ owner' = owner
      BY <2>4 DEF ResumeSearch, Rescan, storeVars, runVars, SupInv, Locals
    <3> QED
      BY <2>1, <3>1, OthersHold DEF Holds, Unheld, Searching, OfOneExperiment
  <2> QED
    BY <1>5, <1>6, <2>2, <2>3, <2>4 DEF Begin, Commit, Raise, storeVars, runVars
<1>7. CASE VerifyBaseline(c)
  <2>1. ctl[c].pc = "baseline" /\ owner = c
    BY <1>1, <1>7 DEF VerifyBaseline, At, Holds, Unheld
  <2>2. CASE EstablishBaseline /\ Goto(c, "baseline") /\ owner' = owner
    <3>1. ctl'[c].pc = "baseline" /\ runState' = runState
      BY <2>2, PcAfterGoto DEF EstablishBaseline, runVars
    <3> QED
      BY <2>1, <2>2, <3>1, OthersHold DEF Holds, Unheld, Searching, OfOneExperiment
  <2>3. CASE TransitionRun("BASELINE_VERIFYING", "BASELINE_BLOCKED", "baseline_rejected") /\ Exit(c)
    <3>1. runState = "BASELINE_VERIFYING"
      BY <2>3 DEF TransitionRun
    <3>2. Holds(c)'
      BY <2>3, PcAfterExit DEF Holds, Unheld, Searching, OfOneExperiment
    <3> QED
      BY <2>1, <3>1, <3>2, OthersHold
  <2>4. CASE /\ TransitionRun("BASELINE_VERIFYING", "SEARCHING", None) /\ owner' = owner
             /\ ctl' = [ctl EXCEPT ![c].pc = "scan", ![c].ret = "loop"]
    <3>1. ctl'[c].pc = "scan" /\ runState' = "SEARCHING" /\ runState = "BASELINE_VERIFYING" /\ owner' = owner
      BY <2>4 DEF TransitionRun, SupInv, Locals
    <3> QED
      BY <2>1, <3>1, OthersHold DEF Holds, Unheld, Searching, OfOneExperiment
  <2> QED
    BY <1>5, <1>7, <2>2, <2>3, <2>4 DEF VerifyBaseline, Commit, Raise, storeVars, runVars
<1>8. CASE CloseSearch(c)
  <2>1. ctl[c].pc = "finish" /\ owner = c
    BY <1>1, <1>8 DEF CloseSearch, At, Holds, Unheld
  <2>2. CASE TransitionRun("SEARCHING", "FINALIZING", ctl[c].reason) /\ Goto(c, "close") /\ owner' = owner
    <3>1. ctl'[c].pc = "close" /\ runState = "SEARCHING"
      BY <2>2, PcAfterGoto DEF TransitionRun
    <3> QED
      BY <2>1, <2>2, <3>1, OthersHold DEF Holds, Unheld, Searching, OfOneExperiment
  <2> QED
    BY <1>5, <1>8, <2>2 DEF CloseSearch, Commit, Raise, storeVars, runVars
<1>9. CASE CloseSession(c)
  <2>1. CASE owner = c /\ Goto(c, "finalize") /\ UNCHANGED storeVars
    <3>1. ctl'[c].pc = "finalize" /\ runState' = runState
      BY <2>1, PcAfterGoto DEF storeVars, runVars
    <3> QED
      BY <2>1, <3>1, OthersHold DEF Holds, Unheld, Searching, OfOneExperiment
  <2> QED
    BY <1>5, <1>9, <2>1 DEF CloseSession, Raise, storeVars, runVars
<1>10. CASE Finalize(c)
  <2>1. /\ ctl'[c].pc = "seal" /\ owner' = owner /\ runState' = "COMPLETE"
        /\ runState' = runState \/ runState = "FINALIZING"
    BY <1>10, PcAfterGoto DEF Finalize, Commit, Read, TransitionRun, storeVars, runVars
  <2> QED
    BY <2>1, OthersHold DEF Holds, Unheld, Searching, OfOneExperiment
<1>11. CASE Seal(c) \/ Interrupt(c)
  BY <1>5, <1>11 DEF Seal, Interrupt, storeVars, runVars
<1>12. CASE Crash(c)
  <2>1. ctl'[c].pc = "down" /\ owner' = owner /\ runState' = runState
    BY <1>12 DEF Crash, SupInv, Fresh, storeVars, runVars
  <2> QED
    BY <2>1, OthersHold DEF Holds, Unheld, Searching, OfOneExperiment
<1> QED
  BY <1>2, <1>3, <1>4, <1>6, <1>7, <1>8, <1>9, <1>10, <1>11, <1>12 DEF Launch

\* The champion moves only while the run verifies its baseline or searches.
LEMMA ChampionMoves ==
    ASSUME SupInv, HeldInv, NEW c \in Controllers, Work(c) \/ Crash(c) \/ Interrupt(c)
    PROVE  champion' = champion \/ runState \in {"BASELINE_VERIFYING", "SEARCHING"}
<1>1. CASE SearchStep(c)
  BY <1>1, SearchMoves DEF HeldInv, Holds, SearchMove
<1>2. CASE \/ Launch(c) \/ Begin(c) \/ VerifyBaseline(c) \/ CloseSearch(c) \/ CloseSession(c)
           \/ Finalize(c) \/ Seal(c) \/ Crash(c) \/ Interrupt(c)
  BY <1>2 DEF Launch, OpenRun, OpenSession, OpenCompletedRun, Begin, VerifyBaseline, ResumeSearch,
     CloseSearch, CloseSession, Finalize, Seal, Crash, Interrupt, Commit, Read, Raise, Rescan,
     CreateRun, EstablishBaseline, TransitionRun, storeVars, incumbentVars
<1> QED
  BY <1>1, <1>2 DEF Work, Drive, SearchStep

\* A complete run stays complete.
LEMMA CompleteStays ==
    ASSUME SupInv, [StoreNext]_storeVars, runState = "COMPLETE"
    PROVE  runState' = "COMPLETE"
<1>1. CASE RunStep
  BY <1>1 DEF RunStep, CreateRun, TransitionRun, EstablishBaseline, runVars
<1>2. CASE UNCHANGED storeVars
  BY <1>2 DEF storeVars, runVars
<1> QED
  BY <1>1, <1>2, RunUntouched DEF StoreNext

LEMMA SealStep ==
    ASSUME SupInv, SealInv, ~StaleTakeover, [SupNext]_supVars
    PROVE  SealInv'
<1>1. ASSUME NEW c \in Controllers, Work(c) \/ Crash(c) \/ Interrupt(c)
      PROVE  SealInv'
  <2>1. Alone(c) /\ [StoreNext]_storeVars
    BY <1>1, WorkStep, FaultStep DEF StepOf
  <2>2. HeldInv'
    BY <1>1, <2>1, SearchMoves, HeldWhileSearching, HeldAtTheEnds DEF SealInv, Work, Drive, SearchStep
  <2>3. champion' = champion \/ runState \in {"BASELINE_VERIFYING", "SEARCHING"}
    BY <1>1, ChampionMoves DEF SealInv
  <2>4. runState = "COMPLETE" => runState' = "COMPLETE"
    BY <2>1, CompleteStays
  <2>5. CASE sealed' = sealed
    BY <2>2, <2>3, <2>4, <2>5 DEF SealInv, SealedIsChampion
  <2>6. CASE Seal(c)
    BY <2>2, <2>6 DEF Seal, At, SealInv, HeldInv, Holds, SealedIsChampion, storeVars, runVars, incumbentVars
  <2> QED
    BY <1>1, <2>5, <2>6 DEF Work, Crash, Interrupt
<1>2. ASSUME UNCHANGED <<storeVars, ctl, owner, sealed>>
      PROVE  SealInv'
  BY <1>2 DEF SealInv, HeldInv, Holds, SealedIsChampion, storeVars, runVars, incumbentVars
<1> QED
  BY <1>1, <1>2 DEF SupNext, Expire, supVars

LEMMA SealStart == SupInit => SealInv
<1> SUFFICES ASSUME SupInit
             PROVE  SealInv
  OBVIOUS
<1>1. \A c \in Controllers : ctl[c].pc = "down"
  BY DEF SupInit, Fresh
<1>2. HeldInv
  BY <1>1 DEF HeldInv, Holds, Unheld, Searching, OfOneExperiment
<1> QED
  BY <1>2 DEF SealInv, SupInit, SealedIsChampion

LEMMA SealKept ==
    ASSUME ~StaleTakeover
    PROVE  SupSafety => []SealInv
BY SealStart, SealStep, ControllersRemember, PTL DEF SupSafety

\* The bundle on disk is that of a completed run and of the champion it ended
\* with, and the champion never changes again, wherever controllers are killed
\* between completing the run and sealing it.
THEOREM SealedChampion ==
    ASSUME ~StaleTakeover
    PROVE  SupSafety => []SealedIsChampion
<1>1. SealInv => SealedIsChampion
  BY DEF SealInv
<1> QED
  BY <1>1, SealKept, PTL

-----------------------------------------------------------------------------
(* How a search ends.  A controller that searches alone has driven every   *)
(* row it no longer lists as far as the phase it read lets it: to a        *)
(* settled end, or, for a supported candidate, to where the lock finds it. *)

Quit(e) == state[e] \in Settled \/ (state[e] = "FAILED_FINAL" /\ outcome[e] = "invalid_failure")
Parked(e) == state[e] = "DIAGNOSED" /\ shadow[e] # None /\ shadow[e].supported
Rested(e) == Quit(e) \/ Parked(e)
Created == 1..hypotheses
Ended ==
    \A e \in Created : Quit(e) \/ (Parked(e) /\ e # finalist /\ phase = "OFFICIAL_EVALUATED")

Driving == OfOneExperiment \ {"create", "lock"}

\* What _resume_active read of the run, and what it owes the rows.
Saw(c, p) == ctl[c].seen[1] = p
Covered(c, e) == IF Saw(c, "FINALIST_LOCKED") THEN Quit(e) ELSE Rested(e)

SeenInv(c) ==
    ctl[c].pc \in Searching =>
      /\ ctl[c].ret = "locked" => phase # "DISCOVERY"
      /\ ctl[c].pc # "scan" =>
           /\ Saw(c, "DISCOVERY") <=> phase = "DISCOVERY"
           /\ Saw(c, "OFFICIAL_EVALUATED") => phase = "OFFICIAL_EVALUATED"
           /\ phase # "DISCOVERY" => ctl[c].seen[2] = finalist

DriveInv(c) ==
    /\ ctl[c].pc \in Driving \cup {"next"} =>
         /\ \A e \in DOMAIN ctl[c].todo : e \in Created /\ ctl[c].todo[e] = state[e]
         /\ ~Saw(c, "OFFICIAL_EVALUATED") =>
              \A e \in Created \ DOMAIN ctl[c].todo :
                  Covered(c, e) \/ (ctl[c].pc # "next" /\ e = ctl[c].e)
    /\ ctl[c].pc \in Driving =>
         /\ ctl[c].e \notin DOMAIN ctl[c].todo
         /\ ~Saw(c, "OFFICIAL_EVALUATED")
         /\ Saw(c, "FINALIST_LOCKED") =>
              ctl[c].e = finalist \/ (ctl[c].pc = "run" /\ Quit(ctl[c].e))

LoopInv(c) ==
    /\ ctl[c].pc \in {"loop", "create", "pick", "lock"} /\ phase = "DISCOVERY" =>
         \A e \in Created : Rested(e)
    /\ ctl[c].pc \in {"loop", "create", "locked"} => ctl[c].todo = <<>>
    /\ ctl[c].pc = "create" => phase = "DISCOVERY"
    /\ ctl[c].pc = "lock" /\ phase = "DISCOVERY" => shadowChampion \in {None, ctl[c].e}
    /\ ctl[c].pc = "locked" => phase # "DISCOVERY"
    /\ ctl[c].pc = "locked" /\ phase = "FINALIST_LOCKED" => \A e \in Created : Quit(e)
    /\ ctl[c].pc = "finish" => Ended

ClosedInv ==
    /\ phase # "DISCOVERY" => \A e \in Created : e # finalist => Rested(e)
    /\ runState \in {"FINALIZING", "COMPLETE"} => Ended
    /\ exhausted \subseteq Exp
    /\ \A e \in exhausted : state[e] \in {"PROPOSED", "ABANDONED"}
    /\ FinalistIsShadowChampion

Tracks(c) == SeenInv(c) /\ DriveInv(c) /\ LoopInv(c)
SettleInv == ClosedInv /\ \A c \in Controllers : Tracks(c)

\* What is known of the store and of the session.
Known == SupInv /\ HeldInv /\ EvidenceInv /\ ShadowChampionIsBest /\ StreakInv /\ RowFacts

settleVars == <<hypotheses, phase, finalist, shadowChampion, state, shadow, outcome>>

LEMMA IdleTracks ==
    ASSUME NEW c \in Controllers, ctl[c].pc \notin Searching
    PROVE  Tracks(c)
BY DEF Tracks, SeenInv, DriveInv, LoopInv, Searching, OfOneExperiment, Driving

LEMMA ScanTracks ==
    ASSUME NEW c \in Controllers, ctl[c].pc = "scan", ctl[c].ret = "locked" => phase # "DISCOVERY"
    PROVE  Tracks(c)
BY DEF Tracks, SeenInv, DriveInv, LoopInv, OfOneExperiment, Driving

\* A transaction of an experiment says nothing new of another one.
OneRow(e) ==
    \A x \in Exp : x # e => state'[x] = state[x] /\ shadow'[x] = shadow[x] /\ outcome'[x] = outcome[x]

LEMMA RowIsOne ==
    ASSUME TypeInv, NEW e \in Exp, PrepareAndRun(e) \/ Judge(e) \/ Repair(e) \/ UNCHANGED storeVars
    PROVE  OneRow(e)
<1>1. CASE PrepareAndRun(e)
  BY <1>1 DEF OneRow, PrepareAndRun, CreateExperiment, PrepareStep, AbandonPreparation, StartCheap, CompleteCheap,
     ReserveFull, StartFull, CompleteFull, Diagnose, StoreCheap, StoreFull, TransitionExperiment, Move,
     shadowVars, convergenceVars, rowVars, TypeInv, TypeOK
<1>2. CASE Repair(e)
  BY <1>2 DEF OneRow, Repair, FailRung, FailFinal, ReserveRepair, BeginRepair, ApplyRepairRevision,
     CompleteRepair, ResumeRung, FailRepair, TransitionExperiment, Move,
     shadowVars, convergenceVars, rowVars, TypeInv, TypeOK
<1>3. CASE Judge(e)
  <2>1. ASSUME NEW families, RecordShadowEvaluation(e, families) \/ RejectCheap(e, families) \/ RejectFull(e, families)
        PROVE  OneRow(e)
    BY <2>1 DEF OneRow, RecordShadowEvaluation, RejectCheap, RejectFull, RejectCandidate, Move,
       shadowVars, rowVars, TypeInv, TypeOK
  <2>2. CASE LockFinalist(e) \/ StartOfficial(e) \/ CompleteOfficial(e) \/ RejectNonImproving(e)
             \/ PromoteSearchCandidate(e) \/ CountFailedTransaction(e)
             \/ \E step \in {"non-finalist-abandoned", "not-locked-finalist"} : AbandonNonFinalist(e, step)
    BY <2>2 DEF OneRow, LockFinalist, StartOfficial, CompleteOfficial, RejectNonImproving, PromoteSearchCandidate,
       CountFailedTransaction, AbandonNonFinalist, TransitionExperiment, Move, shadowVars, convergenceVars, rowVars,
       TypeInv, TypeOK
  <2>3. ASSUME NEW primary, NEW safe, RecordOfficialMetrics(e, primary) \/ StoreOfficial(e, safe)
        PROVE  OneRow(e)
    BY <2>3 DEF OneRow, RecordOfficialMetrics, StoreOfficial, shadowVars, convergenceVars, rowVars
  <2> QED
    BY <1>3, <2>1, <2>2, <2>3 DEF Judge
<1>4. CASE UNCHANGED storeVars
  BY <1>4 DEF OneRow, storeVars, shadowVars, convergenceVars, rowVars
<1> QED
  BY <1>1, <1>2, <1>3, <1>4

\* The finalist's standing moves only where it is locked.
LEMMA ChoiceStands ==
    ASSUME FinalistInv, FinalistIsShadowChampion, [StoreNext]_storeVars, finalist' = finalist
    PROVE  FinalistIsShadowChampion'
<1>1. CASE UNCHANGED shadowVars
  BY <1>1 DEF FinalistIsShadowChampion, shadowVars
<1>2. ASSUME NEW e, NEW families, RecordShadowEvaluation(e, families)
      PROVE  finalist' = None
  BY <1>2 DEF RecordShadowEvaluation, DiscoveryOpen, FinalistInv
<1> QED
  BY <1>1, <1>2, ShadowMovers DEF FinalistIsShadowChampion, storeVars

-----------------------------------------------------------------------------
(* One step with one row.                                                  *)

\* The row that is driven is moved on, stays in hand, or is left where it may rest;
\* once the finalist is locked only the finalist's row moves.
Drives(c, e) ==
    /\ ctl[c].pc \in Driving /\ e = ctl[c].e
    /\ UNCHANGED <<runState, hypotheses, finalist, exhausted>>
    /\ phase' = phase \/ (phase # "DISCOVERY" /\ phase' = "OFFICIAL_EVALUATED")
    /\ e \in exhausted => state'[e] \in {"PROPOSED", "ABANDONED"}
    /\ Saw(c, "FINALIST_LOCKED") /\ e # finalist => UNCHANGED <<state, shadow, outcome>>
    /\ \/ ctl'[c].pc \notin Searching
       \/ /\ ctl'[c].todo = ctl[c].todo /\ ctl'[c].seen = ctl[c].seen
          /\ ctl'[c].e = e /\ ctl'[c].ret = ctl[c].ret
          /\ \/ ctl'[c].pc \in Driving /\ (Saw(c, "FINALIST_LOCKED") => e = finalist)
             \/ ctl'[c].pc = "next" /\ Covered(c, e)'

LEMMA DriveSettles ==
    ASSUME Known, SettleInv, NEW c \in Controllers, NEW e \in Exp, Drives(c, e), OneRow(e), [StoreNext]_storeVars
    PROVE  ClosedInv' /\ Tracks(c)'
<1>1. /\ ctl[c].pc \in Searching /\ runState = "SEARCHING" /\ runState' = "SEARCHING"
      /\ SeenInv(c) /\ DriveInv(c)
  BY DEF Drives, Driving, Searching, Known, HeldInv, Holds, SettleInv, Tracks
<1>2. /\ Created' = Created /\ Created \subseteq Exp
  BY StoreAssumption DEF Drives, Created, Exp, Known, SupInv, StoreInv, TypeInv, TypeOK
<1>3. \A x \in Exp : x # e => (Quit(x)' <=> Quit(x)) /\ (Rested(x)' <=> Rested(x))
  BY DEF OneRow, Quit, Rested, Parked
<1>4. \/ Saw(c, "DISCOVERY") /\ phase = "DISCOVERY" /\ phase' = "DISCOVERY"
      \/ Saw(c, "FINALIST_LOCKED") /\ phase # "DISCOVERY" /\ phase' # "DISCOVERY"
  <2>1. ctl[c].seen[1] \in Phases /\ phase \in Phases
    BY DEF Known, SupInv, Locals, StoreInv, TypeInv, TypeOK
  <2>2. /\ ctl[c].pc # "scan" /\ ~Saw(c, "OFFICIAL_EVALUATED")
    BY <1>1 DEF Drives, Driving, OfOneExperiment, DriveInv
  <2> QED
    BY <1>1, <2>1, <2>2 DEF SeenInv, Drives, Saw, Phases
<1>5. ClosedInv'
  <2>1. phase' # "DISCOVERY" => \A x \in Created : x # finalist => Rested(x)'
    <3>1. SUFFICES ASSUME phase' # "DISCOVERY", NEW x \in Created, x # finalist
                   PROVE  Rested(x)'
      OBVIOUS
    <3>2. Rested(x) /\ Saw(c, "FINALIST_LOCKED")
      BY <1>4, <3>1 DEF SettleInv, ClosedInv
    <3>3. CASE x = e
      BY <3>1, <3>2, <3>3 DEF Drives, Rested, Quit, Parked
    <3> QED
      BY <1>2, <1>3, <3>2, <3>3
  <2>2. \A x \in exhausted' : state'[x] \in {"PROPOSED", "ABANDONED"}
    <3>1. SUFFICES ASSUME NEW x \in exhausted
                   PROVE  state'[x] \in {"PROPOSED", "ABANDONED"}
      BY DEF Drives
    <3>2. state[x] \in {"PROPOSED", "ABANDONED"}
      BY DEF SettleInv, ClosedInv
    <3>3. exhausted \subseteq Exp
      BY DEF SettleInv, ClosedInv
    <3> QED
      BY <3>2, <3>3 DEF Drives, OneRow
  <2>3. FinalistIsShadowChampion'
    BY ChoiceStands DEF Drives, Known, EvidenceInv, SettleInv, ClosedInv
  <2>4. exhausted' \subseteq Exp
    BY DEF SettleInv, ClosedInv, Drives
  <2> QED
    BY <1>1, <1>2, <2>1, <2>2, <2>3, <2>4 DEF ClosedInv, Drives
<1>6. CASE ctl'[c].pc \notin Searching
  <2>1. Tracks(c)'
    BY <1>6 DEF Tracks, SeenInv, DriveInv, LoopInv, Searching, OfOneExperiment, Driving
  <2> QED
    BY <1>5, <2>1
<1>7. CASE /\ ctl'[c].todo = ctl[c].todo /\ ctl'[c].seen = ctl[c].seen
           /\ ctl'[c].e = e /\ ctl'[c].ret = ctl[c].ret
           /\ \/ ctl'[c].pc \in Driving /\ (Saw(c, "FINALIST_LOCKED") => e = finalist)
              \/ ctl'[c].pc = "next" /\ Covered(c, e)'
  <2>1. ctl'[c].pc \in Driving \cup {"next"} /\ ctl[c].pc # "scan" /\ ctl[c].pc # "next"
    BY <1>7 DEF Drives, Driving, OfOneExperiment
  <2>2. \A p : Saw(c, p)' <=> Saw(c, p)
    BY <1>7 DEF Saw
  <2>3. SeenInv(c)'
    BY <1>1, <1>4, <1>7, <2>1, <2>2 DEF SeenInv, Drives
  <2>4. DriveInv(c)'
    <3>1. \A x \in DOMAIN ctl[c].todo : x \in Created /\ x # e /\ ctl[c].todo[x] = state'[x]
      BY <1>1, <1>2 DEF DriveInv, Drives, OneRow
    <3>2. \A x \in Created \ DOMAIN ctl[c].todo : x # e => Covered(c, x)'
      <4>1. SUFFICES ASSUME NEW x \in Created \ DOMAIN ctl[c].todo, x # e
                     PROVE  Covered(c, x)'
        OBVIOUS
      <4>2. Covered(c, x)
        BY <1>1, <4>1 DEF DriveInv, Drives
      <4> QED
        BY <1>2, <1>3, <2>2, <4>1, <4>2 DEF Covered
    <3>3. ctl'[c].pc = "next" => Covered(c, e)'
      BY <1>7 DEF Driving, OfOneExperiment
    <3>4. e \notin DOMAIN ctl[c].todo /\ ~Saw(c, "OFFICIAL_EVALUATED")
      BY <1>1 DEF DriveInv, Drives
    <3>5. ctl'[c].pc \in Driving => (Saw(c, "FINALIST_LOCKED") => e = finalist')
      BY <1>7 DEF Driving, OfOneExperiment, Drives
    <3> QED
      BY <1>2, <1>7, <2>2, <3>1, <3>2, <3>3, <3>4, <3>5 DEF DriveInv
  <2>5. LoopInv(c)'
    BY <2>1 DEF LoopInv, Driving, OfOneExperiment
  <2> QED
    BY <1>5, <2>3, <2>4, <2>5 DEF Tracks
<1> QED
  BY <1>6, <1>7 DEF Drives

-----------------------------------------------------------------------------
(* The steps that drive a row.                                             *)

\* What a step that drives a row does to the controller.
Keeps(c) ==
    /\ ctl'[c].todo = ctl[c].todo /\ ctl'[c].seen = ctl[c].seen
    /\ ctl'[c].e = ctl[c].e /\ ctl'[c].ret = ctl[c].ret

LEMMA KeepsGoto ==
    ASSUME SupInv, NEW c \in Controllers, NEW pc, Goto(c, pc)
    PROVE  Keeps(c) /\ ctl'[c].pc = pc
BY DEF SupInv, Goto, Keeps, Locals

LEMMA DriveContext ==
    ASSUME Known, SettleInv, NEW c \in Controllers, ctl[c].pc \in Driving
    PROVE  /\ ctl[c].e \in Exp /\ ctl[c] \in Locals /\ ctl \in [Controllers -> Locals] /\ TypeInv
           /\ Saw(c, "FINALIST_LOCKED") => phase # "DISCOVERY" /\ (ctl[c].pc # "run" => ctl[c].e = finalist)
           /\ ~Saw(c, "FINALIST_LOCKED") => phase = "DISCOVERY"
           /\ ctl[c].e \in exhausted => state[ctl[c].e] \in {"PROPOSED", "ABANDONED"}
<1>1. ctl[c].pc \in OfOneExperiment /\ ctl[c].pc \in Searching /\ ctl[c].pc # "scan"
  BY DEF Driving, OfOneExperiment, Searching
<1>2. /\ ctl[c].e \in Exp /\ ctl[c] \in Locals /\ ctl \in [Controllers -> Locals] /\ TypeInv
  BY <1>1, DrivesAnExperiment DEF Known, SupInv, StoreInv
<1>3. SeenInv(c) /\ DriveInv(c) /\ ClosedInv
  BY DEF SettleInv, Tracks
<1>4. ctl[c].seen[1] \in Phases /\ phase \in Phases
  BY <1>2 DEF Locals, TypeInv, TypeOK
<1> QED
  BY <1>1, <1>2, <1>3, <1>4 DEF SeenInv, DriveInv, ClosedInv, Saw, Phases

\* A step in the middle of a row, at a point only the finalist is at once it is
\* locked.
LEMMA MidDrives ==
    ASSUME Known, SettleInv, NEW c \in Controllers, NEW e \in Exp, e = ctl[c].e,
           ctl[c].pc \in Driving \ {"run"},
           UNCHANGED <<runState, hypotheses, finalist, phase, exhausted>>,
           state[e] \in {"PROPOSED", "ABANDONED"} => state'[e] \in {"PROPOSED", "ABANDONED"},
           Exit(c) \/ (Keeps(c) /\ ctl'[c].pc \in Driving)
    PROVE  Drives(c, e)
<1>1. Exit(c) => ctl'[c].pc \notin Searching
  BY PcAfterExit DEF Known, Searching, OfOneExperiment
<1> QED
  BY <1>1, DriveContext DEF Drives, Keeps

LEMMA PrepareDrives ==
    ASSUME Known, SettleInv, NEW c \in Controllers, NEW e \in Exp, e = ctl[c].e, Prepare(c)
    PROVE  Drives(c, e) /\ OneRow(e)
<1>1. ctl[c].pc = "prepare" /\ ctl[c].pc \in Driving
  BY DEF Prepare, At, Driving, OfOneExperiment
<1>2. TypeInv /\ SupInv
  BY DEF Known, SupInv, StoreInv
<1>3. PrepareAndRun(e) \/ UNCHANGED storeVars
  BY DEF Prepare, Commit, Read, Raise, PrepareAndRun
<1>4. OneRow(e)
  BY <1>2, <1>3, RowIsOne
<1>5. UNCHANGED <<runState, hypotheses, finalist, phase, exhausted>>
  BY DEF Prepare, Commit, Read, Raise, PrepareStep, AbandonPreparation, TransitionExperiment, storeVars, runVars,
     validationVars
<1>6. CASE e \in exhausted
  <2>1. ctl'[c].pc = "next" /\ Keeps(c)
    BY <1>2, <1>6, KeepsGoto DEF Prepare, Commit, Read
  <2>2. state[e] \in {"PROPOSED", "ABANDONED"}
    BY <1>1, <1>6, DriveContext
  <2>3. state'[e] = "ABANDONED"
    BY <1>2, <1>6, <2>2 DEF Prepare, Commit, Read, AbandonPreparation, TransitionExperiment, Move, TypeInv, TypeOK,
       storeVars, rowVars
  <2>4. Covered(c, e)'
    BY <2>3 DEF Covered, Rested, Quit, Settled
  <2> QED
    BY <1>1, <1>4, <1>5, <2>1, <2>3, <2>4, DriveContext DEF Drives, Keeps
<1>7. CASE e \notin exhausted
  <2>1. Exit(c) \/ (Keeps(c) /\ ctl'[c].pc \in Driving)
    BY <1>2, <1>7, KeepsGoto DEF Prepare, Commit, Read, Raise, Driving, OfOneExperiment
  <2>2. Exit(c) => ctl'[c].pc \notin Searching
    BY <1>2, PcAfterExit DEF Searching, OfOneExperiment
  <2> QED
    BY <1>1, <1>4, <1>5, <1>7, <2>1, <2>2, DriveContext DEF Drives, Keeps
<1> QED
  BY <1>6, <1>7

LEMMA RungDrives ==
    ASSUME Known, SettleInv, NEW c \in Controllers, NEW e \in Exp, e = ctl[c].e, Rung(c) \/ Complete(c)
    PROVE  Drives(c, e) /\ OneRow(e)
<1>1. ctl[c].pc \in {"rung", "stored"} /\ ctl[c].pc \in Driving \ {"run"}
  BY DEF Rung, Complete, At, Driving, OfOneExperiment
<1>2. TypeInv /\ SupInv /\ ctl \in [Controllers -> Locals] /\ ctl[c] \in Locals
  BY DEF Known, SupInv, StoreInv
<1>3. PrepareAndRun(e) \/ Judge(e) \/ Repair(e) \/ UNCHANGED storeVars
  <2>1. CASE Rung(c)
    <3>1. ctl[c].rung \in Rungs /\ reserved[e] \in 0..MaxRepairs
      BY <1>2, <2>1 DEF Rung, At, SupInv, Remembers, TypeInv, TypeOK
    <3> QED
      BY <2>1, <3>1 DEF Rung, StoreRung, Commit, Read, Raise, PrepareAndRun, Judge, Repair
  <2>2. CASE Complete(c)
    BY <2>2 DEF Complete, PrepareAndRun, Judge
  <2> QED
    BY <2>1, <2>2
<1>4. OneRow(e)
  BY <1>2, <1>3, RowIsOne
<1>5. UNCHANGED <<runState, hypotheses, finalist, phase, exhausted>>
  BY DEF Rung, Complete, StoreRung, Commit, Read, Raise, StoreCheap, StoreFull, StoreOfficial,
     RecordOfficialMetrics, FailRung, CompleteCheap, CompleteFull, CompleteOfficial, TransitionExperiment,
     storeVars, runVars, validationVars
<1>6. state[e] \in {"PROPOSED", "ABANDONED"} => state'[e] \in {"PROPOSED", "ABANDONED"}
  <2>1. \A r \in Rungs : RunningState(r) \notin {"PROPOSED", "ABANDONED"}
    BY DEF Rungs, RunningState
  <2>2. Rung(c) => ctl[c].rung \in Rungs
    BY <1>2 DEF Rung, At, SupInv, Remembers
  <2> QED
    BY <2>1, <2>2 DEF Rung, Complete, StoreRung, Commit, Read, Raise, StoreCheap, StoreFull, StoreOfficial,
       RecordOfficialMetrics, FailRung, CompleteCheap, CompleteFull, CompleteOfficial, TransitionExperiment, Move,
       storeVars, rowVars
<1>7. Exit(c) \/ (Keeps(c) /\ ctl'[c].pc \in Driving)
  <2>1. ASSUME NEW status, ctl' = [ctl EXCEPT ![c].pc = "failed", ![c].status = status, ![c].n = reserved[ctl[c].e]]
        PROVE  Keeps(c) /\ ctl'[c].pc = "failed"
    BY <1>2, <2>1 DEF Locals, Keeps
  <2>2. ASSUME ctl' = [ctl EXCEPT ![c].pc = "run", ![c].rung = None]
        PROVE  Keeps(c) /\ ctl'[c].pc = "run"
    BY <1>2, <2>2 DEF Locals, Keeps
  <2>3. Rung(c) => Exit(c) \/ (Keeps(c) /\ ctl'[c].pc \in {"rung", "stored", "failed"})
    BY <1>2, <2>1, KeepsGoto DEF Rung, Commit, Read, Raise
  <2>4. Complete(c) => Exit(c) \/ (Keeps(c) /\ ctl'[c].pc = "run")
    BY <2>2 DEF Complete
  <2> QED
    BY <2>3, <2>4 DEF Driving, OfOneExperiment
<1> QED
  BY <1>1, <1>4, <1>5, <1>6, <1>7, MidDrives

\* A failure is planned for, or a repair carried out.
LEMMA RepairDrives ==
    ASSUME Known, SettleInv, NEW c \in Controllers, NEW e \in Exp, e = ctl[c].e,
           HandleFailure(c) \/ Reserved(c) \/ ResumeRepair(c) \/ Mend(c) \/ Mended(c)
    PROVE  Drives(c, e) /\ OneRow(e)
<1>1. ctl[c].pc \in Driving \ {"run"}
  BY DEF HandleFailure, Reserved, ResumeRepair, Mend, Mended, At, Driving, OfOneExperiment
<1>2. TypeInv /\ SupInv /\ ctl \in [Controllers -> Locals] /\ ctl[c] \in Locals
  BY DEF Known, SupInv, StoreInv
<1> DEFINE Goal == /\ Repair(e) \/ UNCHANGED storeVars
                   /\ UNCHANGED <<runState, hypotheses, finalist, phase, exhausted>>
                   /\ state[e] \in {"PROPOSED", "ABANDONED"} => state'[e] \in {"PROPOSED", "ABANDONED"}
                   /\ Exit(c) \/ (Keeps(c) /\ ctl'[c].pc \in {"run", "reserved", "mend", "mended"})
<1>3. ASSUME NEW cause \in Failures, NEW used \in 0..MaxRepairs, ActOnPlan(c, e, cause, used)
      PROVE  Goal
  <2>1. Repair(e) \/ UNCHANGED storeVars
    BY <1>3 DEF ActOnPlan, Reserve, Raise, Repair, Failures
  <2>2. /\ UNCHANGED <<runState, hypotheses, finalist, phase, exhausted>>
        /\ state[e] \in {"PROPOSED", "ABANDONED"} => state'[e] \in {"PROPOSED", "ABANDONED"}
    BY <1>3 DEF ActOnPlan, Reserve, Raise, ReserveRepair, FailFinal, TransitionExperiment, Move,
       storeVars, runVars, validationVars, rowVars
  <2>3. ASSUME NEW number, ctl' = [ctl EXCEPT ![c].pc = "reserved", ![c].n = number, ![c].rung = None, ![c].status = None]
        PROVE  Keeps(c) /\ ctl'[c].pc = "reserved"
    BY <1>2, <2>3 DEF Locals, Keeps
  <2>4. ASSUME ctl' = [ctl EXCEPT ![c].pc = "run", ![c].n = 0, ![c].rung = None, ![c].status = None]
        PROVE  Keeps(c) /\ ctl'[c].pc = "run"
    BY <1>2, <2>4 DEF Locals, Keeps
  <2>5. Exit(c) \/ (Keeps(c) /\ ctl'[c].pc \in {"run", "reserved"})
    BY <1>3, <2>3, <2>4 DEF ActOnPlan, Reserve, Raise
  <2> QED
    BY <2>1, <2>2, <2>5
<1>4. ASSUME HandleFailure(c)
      PROVE  Goal
  <2>1. [rung |-> ctl[c].rung, status |-> ctl[c].status] \in Failures /\ ctl[c].n \in 0..MaxRepairs
    BY <1>2, <1>4 DEF SupInv, Remembers, Failures, HandleFailure, At, Locals
  <2> QED
    BY <1>3, <1>4, <2>1 DEF HandleFailure
<1>5. ASSUME ResumeRepair(c)
      PROVE  Goal
  <2>1. failure[e] \in Failures /\ 0 \in 0..MaxRepairs
    BY <1>2, <1>5, KnownFailure, StoreAssumption DEF SupInv, Remembers, ResumeRepair, At
  <2>2. ASSUME NEW pc \in {"reserved", "mend"}, NEW number, ctl' = [ctl EXCEPT ![c].pc = pc, ![c].n = number]
        PROVE  Keeps(c) /\ ctl'[c].pc = pc
    BY <1>2, <2>2 DEF Locals, Keeps
  <2>3. CASE ActOnPlan(c, e, failure[e], 0)
    BY <1>3, <2>1, <2>3
  <2>4. CASE UNCHANGED <<storeVars, exhausted>> /\ (Exit(c) \/ (Keeps(c) /\ ctl'[c].pc \in {"reserved", "mend"}))
    BY <2>4 DEF storeVars, runVars, validationVars, rowVars
  <2> QED
    BY <1>5, <2>2, <2>3, <2>4 DEF ResumeRepair, Raise
<1>6. ASSUME Reserved(c) \/ Mend(c) \/ Mended(c)
      PROVE  Goal
  <2>1. ctl[c].n \in 1..MaxRepairs
    BY <1>2, <1>6 DEF SupInv, Remembers, Reserved, Mend, Mended, At
  <2>2. Repair(e) \/ UNCHANGED storeVars
    BY <1>6, <2>1 DEF Reserved, Mend, Mended, Commit, Read, Raise, Repair
  <2>3. /\ UNCHANGED <<runState, hypotheses, finalist, phase, exhausted>>
        /\ state[e] \in {"PROPOSED", "ABANDONED"} => state'[e] \in {"PROPOSED", "ABANDONED"}
    BY <1>6 DEF Reserved, Mend, Mended, Commit, Read, Raise, BeginRepair, ApplyRepairRevision, CompleteRepair,
       FailRepair, ResumeRung, TransitionExperiment, Move, storeVars, runVars, validationVars, rowVars
  <2>4. Exit(c) \/ (Keeps(c) /\ ctl'[c].pc \in {"run", "mend", "mended"})
    BY <1>2, <1>6, KeepsGoto DEF Reserved, Mend, Mended, Commit, Read, Raise
  <2> QED
    BY <2>2, <2>3, <2>4
<1>7. Goal
  BY <1>4, <1>5, <1>6
<1>8. OneRow(e)
  BY <1>2, <1>7, RowIsOne
<1>9. Exit(c) \/ (Keeps(c) /\ ctl'[c].pc \in Driving)
  BY <1>7 DEF Driving, OfOneExperiment
<1> QED
  BY <1>1, <1>7, <1>8, <1>9, MidDrives

\* A controller leaves a row only where it may rest: a settled end, or a parked
\* candidate whose phase lets it be.
LEMMA RunDrives ==
    ASSUME Known, SettleInv, NEW c \in Controllers, NEW e \in Exp, e = ctl[c].e, RunCandidate(c)
    PROVE  Drives(c, e) /\ OneRow(e)
<1>1. ctl[c].pc = "run" /\ ctl[c].pc \in Driving
  BY DEF RunCandidate, At, Driving, OfOneExperiment
<1>2. TypeInv /\ SupInv /\ ctl \in [Controllers -> Locals] /\ ctl[c] \in Locals
  BY DEF Known, SupInv, StoreInv
<1>3. PrepareAndRun(e) \/ Judge(e) \/ UNCHANGED storeVars
  BY FamiliesCounted DEF RunCandidate, RunShadow, Commit, Read, Raise, PrepareAndRun, Judge
<1>4. OneRow(e)
  BY <1>2, <1>3, RowIsOne
<1>5. /\ UNCHANGED <<runState, hypotheses, finalist, exhausted>>
      /\ phase' = phase \/ (phase # "DISCOVERY" /\ phase' = "OFFICIAL_EVALUATED")
  BY DEF RunCandidate, RunShadow, Commit, Read, Raise, StartCheap, CompleteCheap, RejectCheap, ReserveFull,
     StartFull, CompleteFull, Diagnose, CompleteOfficial, RejectNonImproving, PromoteSearchCandidate,
     CountFailedTransaction, RecordShadowEvaluation, RejectFull, RejectCandidate, AbandonNonFinalist,
     StartOfficial, TransitionExperiment, storeVars, runVars, validationVars
<1>6. state[e] \in {"PROPOSED", "ABANDONED"} => state'[e] \in {"PROPOSED", "ABANDONED"}
  BY DEF RunCandidate, RunShadow, Commit, Read, Raise, StartCheap, CompleteCheap, RejectCheap, ReserveFull,
     StartFull, CompleteFull, Diagnose, CompleteOfficial, RejectNonImproving, PromoteSearchCandidate,
     CountFailedTransaction, RecordShadowEvaluation, RejectFull, RejectCandidate, AbandonNonFinalist,
     StartOfficial, TransitionExperiment, Move, storeVars, rowVars
<1>7. Quit(e) => UNCHANGED <<state, shadow, outcome>> /\ (Exit(c) \/ Goto(c, "next"))
  <2>1. SUFFICES ASSUME Quit(e)
                 PROVE  UNCHANGED <<state, shadow, outcome>> /\ (Exit(c) \/ Goto(c, "next"))
    OBVIOUS
  <2>2. state[e] \in Settled \cup {"FAILED_FINAL"} /\ (state[e] = "FAILED_FINAL" => outcome[e] # None)
    <3>1. None # "invalid_failure"
      BY NullAssumption DEF Outcomes
    <3> QED
      BY <2>1, <3>1 DEF Quit, Settled
  <2>3. \A r \in Rungs : state[e] # RunningState(r)
    BY <2>2 DEF Settled, Rungs, RunningState
  <2> QED
    BY <2>2, <2>3 DEF RunCandidate, RunShadow, Commit, Read, Raise, StartCheap, CompleteCheap, RejectCheap, ReserveFull,
     StartFull, CompleteFull, Diagnose, CompleteOfficial, RejectNonImproving, PromoteSearchCandidate,
     CountFailedTransaction, RecordShadowEvaluation, RejectFull, RejectCandidate, AbandonNonFinalist,
     StartOfficial, TransitionExperiment, Move, storeVars, rowVars, shadowVars, convergenceVars, Settled
<1>8. Goto(c, "next") => Quit(e)' \/ (Rested(e)' /\ (Saw(c, "FINALIST_LOCKED") => e # finalist /\ ~Quit(e)))
  <2>1. SUFFICES ASSUME Goto(c, "next")
                 PROVE  Quit(e)' \/ (Rested(e)' /\ (Saw(c, "FINALIST_LOCKED") => e # finalist /\ ~Quit(e)))
    OBVIOUS
  <2>2. ctl'[c].pc = "next"
    BY <1>2, <2>1, KeepsGoto
  <2>3. \/ RejectCheap(e, Cardinality(ValidFamilies)) \/ RejectFull(e, Cardinality(ValidFamilies))
        \/ AbandonNonFinalist(e, "not-locked-finalist") \/ RejectNonImproving(e) \/ PromoteSearchCandidate(e)
        \/ CountFailedTransaction(e)
        \/ /\ UNCHANGED storeVars
           /\ \/ state[e] \in Settled \/ (state[e] = "FAILED_FINAL" /\ outcome[e] # None)
              \/ /\ shadow[e] # None /\ shadow[e].supported /\ state[e] = "DIAGNOSED"
                 /\ phase \in {"DISCOVERY", "OFFICIAL_EVALUATED"}
    <3>1. \A pc : Goto(c, pc) => ctl'[c].pc = pc
      BY <1>2, KeepsGoto
    <3>2. ~Raise(c)
      BY <1>2, <2>2, PcAfterExit DEF Raise
    <3>3. \A r : ctl' # [ctl EXCEPT ![c].pc = "rung", ![c].rung = r]
      BY <1>2, <2>2 DEF Locals
    <3> QED
      BY <2>2, <3>1, <3>2, <3>3 DEF RunCandidate, RunShadow, Commit, Read
  <2>4. CASE \/ RejectCheap(e, Cardinality(ValidFamilies)) \/ RejectFull(e, Cardinality(ValidFamilies))
             \/ AbandonNonFinalist(e, "not-locked-finalist") \/ RejectNonImproving(e) \/ PromoteSearchCandidate(e)
    <3>1. state'[e] \in Settled
      BY <1>2, <2>4 DEF RejectCheap, RejectFull, RejectCandidate, AbandonNonFinalist, RejectNonImproving,
         PromoteSearchCandidate, TransitionExperiment, Move, Settled, TypeInv, TypeOK
    <3> QED
      BY <3>1 DEF Quit
  <2>5. CASE CountFailedTransaction(e)
    <3>1. state'[e] = "FAILED_FINAL" /\ outcome'[e] = "invalid_failure"
      BY <1>2, <2>5 DEF CountFailedTransaction, rowVars, TypeInv, TypeOK
    <3> QED
      BY <3>1 DEF Quit
  <2>6. CASE UNCHANGED storeVars /\ (state[e] \in Settled \/ (state[e] = "FAILED_FINAL" /\ outcome[e] # None))
    <3>1. Quit(e)
      BY <2>6 DEF Quit, Settled, Known, RowFacts, RowFact
    <3> QED
      BY <2>6, <3>1 DEF Quit, storeVars, rowVars, convergenceVars
  <2>7. CASE /\ UNCHANGED storeVars /\ shadow[e] # None /\ shadow[e].supported /\ state[e] = "DIAGNOSED"
             /\ phase \in {"DISCOVERY", "OFFICIAL_EVALUATED"}
    <3>1. Rested(e)'
      BY <2>7 DEF Rested, Parked, storeVars, rowVars, shadowVars
    <3>2. ~Quit(e)
      BY <2>7 DEF Quit, Settled
    <3>3. Saw(c, "FINALIST_LOCKED") => phase = "OFFICIAL_EVALUATED"
      BY <1>1, <2>7, DriveContext
    <3>4. phase = "OFFICIAL_EVALUATED" => e # finalist
      BY <2>7 DEF Known, RowFacts, RowFact
    <3> QED
      BY <3>1, <3>2, <3>3, <3>4
  <2> QED
    BY <2>3, <2>4, <2>5, <2>6, <2>7
<1>9. Saw(c, "FINALIST_LOCKED") => e = finalist \/ Quit(e)
  BY <1>1 DEF SettleInv, Tracks, DriveInv
<1>10. Goto(c, "next") => Covered(c, e)'
  <2>1. SUFFICES ASSUME Goto(c, "next")
                 PROVE  Covered(c, e)'
    OBVIOUS
  <2>2. Saw(c, "FINALIST_LOCKED")' <=> Saw(c, "FINALIST_LOCKED")
    BY <1>2, <2>1, KeepsGoto DEF Saw, Keeps
  <2>3. Quit(e)' => Rested(e)'
    BY DEF Rested
  <2> QED
    BY <1>8, <1>9, <2>1, <2>2, <2>3 DEF Covered
<1>11. \/ Exit(c)
       \/ Keeps(c) /\ (ctl'[c].pc \in {"run", "rung", "resume"} \/ (ctl'[c].pc = "next" /\ Goto(c, "next")))
  <2>1. ASSUME NEW r, ctl' = [ctl EXCEPT ![c].pc = "rung", ![c].rung = r]
        PROVE  Keeps(c) /\ ctl'[c].pc = "rung"
    BY <1>2, <2>1 DEF Locals, Keeps
  <2> QED
    BY <1>2, <2>1, KeepsGoto DEF RunCandidate, RunShadow, Commit, Read, Raise
<1>12. Exit(c) => ctl'[c].pc \notin Searching
  BY <1>2, PcAfterExit DEF Searching, OfOneExperiment
<1>13. Goto(c, "next") => ctl'[c].pc = "next"
  BY <1>2, KeepsGoto
<1>14. e \in exhausted => state'[e] \in {"PROPOSED", "ABANDONED"}
  BY <1>1, <1>6, DriveContext
<1>15. {"run", "rung", "resume"} \subseteq Driving
  BY DEF Driving, OfOneExperiment
<1>16. Saw(c, "FINALIST_LOCKED") /\ e # finalist => UNCHANGED <<state, shadow, outcome>> /\ (Exit(c) \/ Goto(c, "next"))
  BY <1>7, <1>9
<1> QED
  BY <1>1, <1>4, <1>5, <1>10, <1>11, <1>12, <1>13, <1>14, <1>15, <1>16 DEF Drives, Keeps

-----------------------------------------------------------------------------
(* The steps between rows.                                                 *)

\* What a closed discovery and a search that is over keep while no row moves.
LEMMA ClosedStays ==
    ASSUME ClosedInv, UNCHANGED <<settleVars, runState, exhausted>>
    PROVE  ClosedInv'
BY DEF ClosedInv, settleVars, Ended, Created, Rested, Quit, Parked, FinalistIsShadowChampion

LEMMA RowsStay ==
    ASSUME UNCHANGED storeVars
    PROVE  UNCHANGED settleVars /\ runState' = runState
BY DEF storeVars, settleVars, runVars, validationVars, shadowVars, rowVars, convergenceVars

LEMMA SearchContext ==
    ASSUME Known, SettleInv, NEW c \in Controllers, ctl[c].pc \in Searching
    PROVE  /\ ctl[c] \in Locals /\ ctl \in [Controllers -> Locals] /\ TypeInv /\ SupInv
           /\ runState = "SEARCHING" /\ ctl[c].ret \in {"loop", "locked"}
           /\ ClosedInv /\ SeenInv(c) /\ DriveInv(c) /\ LoopInv(c)
           /\ ctl[c].seen[1] \in Phases /\ phase \in Phases /\ Created \subseteq Exp
<1>1. /\ ctl[c] \in Locals /\ ctl \in [Controllers -> Locals] /\ TypeInv /\ SupInv
      /\ runState = "SEARCHING" /\ ctl[c].ret \in {"loop", "locked"}
  BY DEF Known, SupInv, StoreInv, Remembers, HeldInv, Holds
<1>2. ClosedInv /\ SeenInv(c) /\ DriveInv(c) /\ LoopInv(c)
  BY DEF SettleInv, Tracks
<1>3. ctl[c].seen[1] \in Phases /\ phase \in Phases /\ Created \subseteq Exp
  BY <1>1, StoreAssumption DEF Locals, TypeInv, TypeOK, Created, Exp
<1> QED
  BY <1>1, <1>2, <1>3

\* When the finalist has been judged everything has ended.
LEMMA JudgedEnds ==
    ASSUME Known, ClosedInv, phase = "OFFICIAL_EVALUATED"
    PROVE  Ended
<1>1. SUFFICES ASSUME NEW e \in Created
               PROVE  Quit(e) \/ (Parked(e) /\ e # finalist)
  BY DEF Ended
<1>2. e \in Exp
  BY StoreAssumption DEF Created, Exp, Known, SupInv, StoreInv, TypeInv, TypeOK
<1>3. CASE e = finalist
  BY <1>2, <1>3 DEF Known, RowFacts, RowFact, Quit, Settled
<1>4. CASE e # finalist
  BY <1>4 DEF ClosedInv, Rested
<1> QED
  BY <1>3, <1>4

\* _resume_active reads the rows.
LEMMA ScanSettles ==
    ASSUME Known, SettleInv, NEW c \in Controllers, Scan(c)
    PROVE  ClosedInv' /\ Tracks(c)'
<1> DEFINE active == {e \in 1..hypotheses : state[e] \notin Settled}
<1>1. ctl[c].pc = "scan" /\ ctl[c].pc \in Searching /\ UNCHANGED storeVars /\ exhausted' = exhausted
  BY DEF Scan, At, Searching
<1>2. UNCHANGED settleVars /\ runState' = runState
  BY <1>1, RowsStay
<1>3. ClosedInv'
  BY <1>1, <1>2, ClosedStays DEF SettleInv
<1>4. ctl[c] \in Locals /\ ctl \in [Controllers -> Locals] /\ SeenInv(c) /\ phase \in Phases
  BY <1>1, SearchContext
<1>5. /\ ctl'[c].pc = "next" /\ ctl'[c].ret = ctl[c].ret /\ ctl'[c].seen = <<phase, finalist>>
      /\ ctl'[c].todo = [e \in active |-> state[e]]
  BY <1>4 DEF Scan, Locals
<1>6. SeenInv(c)'
  BY <1>1, <1>2, <1>4, <1>5 DEF SeenInv, Saw, settleVars
<1>7. DriveInv(c)'
  <2>1. active = DOMAIN ctl'[c].todo /\ \A e \in active : e \in Created /\ ctl'[c].todo[e] = state[e]
    BY <1>5 DEF Created
  <2>2. \A e \in Created \ active : Covered(c, e)'
    BY <1>2 DEF Created, Covered, Quit, Rested, settleVars
  <2>3. ctl'[c].pc \notin Driving
    BY <1>5 DEF Driving, OfOneExperiment
  <2> HIDE DEF active
  <2> QED
    BY <1>2, <2>1, <2>2, <2>3 DEF DriveInv, Created, settleVars
<1>8. LoopInv(c)'
  BY <1>5 DEF LoopInv
<1> QED
  BY <1>3, <1>6, <1>7, <1>8 DEF Tracks

\* The last row has been driven.
LEMMA RowsDone ==
    ASSUME Known, SettleInv, NEW c \in Controllers, At(c, "next"),
           DOMAIN ctl[c].todo = {} \/ Saw(c, "OFFICIAL_EVALUATED"),
           ctl' = [ctl EXCEPT ![c].pc = ctl[c].ret, ![c].e = None, ![c].todo = <<>>],
           UNCHANGED <<storeVars, exhausted>>
    PROVE  ClosedInv' /\ Tracks(c)'
<1>1. ctl[c].pc = "next" /\ ctl[c].pc \in Searching
  BY DEF At, Searching
<1>2. UNCHANGED settleVars /\ runState' = runState
  BY RowsStay
<1>3. ClosedInv'
  BY <1>2, ClosedStays DEF SettleInv
<1>4. /\ ctl[c] \in Locals /\ ctl \in [Controllers -> Locals] /\ SeenInv(c) /\ DriveInv(c)
      /\ ctl[c].ret \in {"loop", "locked"} /\ phase \in Phases /\ ctl[c].seen[1] \in Phases
  BY <1>1, SearchContext
<1>5. /\ ctl'[c].pc = ctl[c].ret /\ ctl'[c].ret = ctl[c].ret /\ ctl'[c].seen = ctl[c].seen /\ ctl'[c].todo = <<>>
  BY <1>4 DEF Locals
<1>6. SeenInv(c)'
  BY <1>1, <1>2, <1>4, <1>5 DEF SeenInv, Saw, settleVars
<1>7. DriveInv(c)'
  BY <1>4, <1>5 DEF DriveInv, Driving, OfOneExperiment
<1>8. LoopInv(c)'
  <2>1. ~Saw(c, "OFFICIAL_EVALUATED") => \A e \in Created : Covered(c, e)
    BY <1>1, <1>4 DEF DriveInv
  <2>2. phase = "DISCOVERY" => \A e \in Created : Rested(e)
    BY <1>1, <1>4, <2>1 DEF SeenInv, Covered, Saw
  <2>3. phase = "FINALIST_LOCKED" => \A e \in Created : Quit(e)
    BY <1>1, <1>4, <2>1 DEF SeenInv, Covered, Saw, Phases
  <2>4. \A e : (Rested(e)' <=> Rested(e)) /\ (Quit(e)' <=> Quit(e))
    BY <1>2 DEF Rested, Quit, Parked, settleVars
  <2>5. Created' = Created /\ phase' = phase
    BY <1>2 DEF Created, settleVars
  <2>6. ctl[c].ret = "locked" => phase # "DISCOVERY"
    BY <1>1, <1>4 DEF SeenInv
  <2> QED
    BY <1>4, <1>5, <2>2, <2>3, <2>4, <2>5, <2>6 DEF LoopInv
<1> QED
  BY <1>3, <1>6, <1>7, <1>8 DEF Tracks

\* One row is taken.
LEMMA RowTaken ==
    ASSUME Known, SettleInv, NEW c \in Controllers, At(c, "next"), NEW e \in DOMAIN ctl[c].todo,
           ~Saw(c, "OFFICIAL_EVALUATED"), DriveRow(c, e), exhausted' = exhausted
    PROVE  ClosedInv' /\ Tracks(c)'
<1> DEFINE rows == ctl[c].todo
           rest == [x \in DOMAIN rows \ {e} |-> rows[x]]
           lost == Saw(c, "FINALIST_LOCKED") /\ rows[e] = "DIAGNOSED" /\ e # ctl[c].seen[2]
<1>1. ctl[c].pc = "next" /\ ctl[c].pc \in Searching
  BY DEF At, Searching
<1>2. /\ ctl[c] \in Locals /\ ctl \in [Controllers -> Locals] /\ TypeInv /\ SupInv /\ ClosedInv
      /\ SeenInv(c) /\ DriveInv(c) /\ phase \in Phases /\ ctl[c].seen[1] \in Phases /\ Created \subseteq Exp
  BY <1>1, SearchContext
<1>3. /\ \A x \in DOMAIN rows : x \in Created /\ rows[x] = state[x]
      /\ \A x \in Created \ DOMAIN rows : Covered(c, x)
  BY <1>1, <1>2 DEF DriveInv
<1>4. e \in Exp /\ e \in Created /\ rows[e] = state[e]
  BY <1>2, <1>3
<1>5. \/ Saw(c, "DISCOVERY") /\ phase = "DISCOVERY" /\ ~Saw(c, "FINALIST_LOCKED")
      \/ Saw(c, "FINALIST_LOCKED") /\ phase # "DISCOVERY" /\ ctl[c].seen[2] = finalist
  BY <1>1, <1>2 DEF SeenInv, Saw, Phases
<1>6. CASE Exit(c) /\ UNCHANGED storeVars
  <2>1. ctl'[c].pc \notin Searching
    BY <1>2, <1>6, PcAfterExit DEF Searching, OfOneExperiment
  <2>2. Tracks(c)'
    BY <2>1 DEF Tracks, SeenInv, DriveInv, LoopInv, Searching, OfOneExperiment, Driving
  <2> QED
    BY <1>2, <1>6, <2>2, RowsStay, ClosedStays
<1>7. ASSUME NEW pc \in {"next", "prepare", "run"}, ctl' = [ctl EXCEPT ![c].pc = pc, ![c].e = e, ![c].todo = rest]
      PROVE  /\ ctl'[c].pc = pc /\ ctl'[c].e = e /\ ctl'[c].ret = ctl[c].ret /\ ctl'[c].seen = ctl[c].seen
             /\ DOMAIN ctl'[c].todo = DOMAIN rows \ {e}
             /\ \A x \in DOMAIN rows \ {e} : ctl'[c].todo[x] = rows[x]
  <2> HIDE DEF rest
  <2>1. /\ ctl'[c].pc = pc /\ ctl'[c].e = e /\ ctl'[c].ret = ctl[c].ret /\ ctl'[c].seen = ctl[c].seen
        /\ ctl'[c].todo = rest
    BY <1>2, <1>7 DEF Locals
  <2>2. DOMAIN rest = DOMAIN rows \ {e} /\ \A x \in DOMAIN rows \ {e} : rest[x] = rows[x]
    BY DEF rest
  <2> QED
    BY <2>1, <2>2
<1>8. CASE lost /\ AbandonNonFinalist(e, "non-finalist-abandoned")
            /\ ctl' = [ctl EXCEPT ![c].pc = "next", ![c].e = e, ![c].todo = rest]
  <2>1. /\ state'[e] = "ABANDONED" /\ \A x \in Exp : x # e => state'[x] = state[x]
        /\ UNCHANGED <<hypotheses, phase, finalist, shadow, outcome, runState, shadowChampion>>
    BY <1>2, <1>4, <1>8 DEF AbandonNonFinalist, TransitionExperiment, Move, TypeInv, TypeOK, runVars, validationVars,
       shadowVars, convergenceVars
  <2>2. \A x \in Exp : x # e => (Quit(x)' <=> Quit(x)) /\ (Rested(x)' <=> Rested(x))
    BY <2>1 DEF Quit, Rested, Parked
  <2>3. Quit(e)' /\ Rested(e)'
    BY <2>1 DEF Quit, Rested, Settled
  <2>4. ClosedInv'
    <3>1. runState' = "SEARCHING"
      BY <1>1, <2>1 DEF Known, HeldInv, Holds
    <3>2. \A x \in Created : x # finalist => Rested(x)'
      BY <1>2, <1>5, <1>8, <2>2, <2>3 DEF ClosedInv
    <3>3. \A x \in exhausted : state'[x] \in {"PROPOSED", "ABANDONED"}
      BY <1>2, <2>1 DEF ClosedInv
    <3>4. Created' = Created
      BY <2>1 DEF Created
    <3> QED
      BY <1>2, <2>1, <3>1, <3>2, <3>3, <3>4 DEF ClosedInv, FinalistIsShadowChampion
  <2>5. /\ ctl'[c].pc = "next" /\ ctl'[c].e = e /\ ctl'[c].ret = ctl[c].ret /\ ctl'[c].seen = ctl[c].seen
        /\ DOMAIN ctl'[c].todo = DOMAIN rows \ {e}
        /\ \A x \in DOMAIN rows \ {e} : ctl'[c].todo[x] = rows[x]
    BY <1>7, <1>8
  <2>6. SeenInv(c)'
    BY <1>1, <1>2, <2>1, <2>5 DEF SeenInv, Saw
  <2>7. DriveInv(c)'
    <3>1. \A x \in DOMAIN rows \ {e} : x \in Created' /\ ctl'[c].todo[x] = state'[x]
      BY <1>2, <1>3, <2>1, <2>5 DEF Created
    <3>2. \A x \in Created' \ (DOMAIN rows \ {e}) : Covered(c, x)'
      BY <1>2, <1>3, <2>1, <2>2, <2>3, <2>5 DEF Covered, Saw, Created
    <3>3. "next" \notin Driving
      BY DEF Driving, OfOneExperiment
    <3> QED
      BY <2>5, <3>1, <3>2, <3>3 DEF DriveInv
  <2>8. LoopInv(c)'
    BY <2>5 DEF LoopInv
  <2> QED
    BY <2>4, <2>6, <2>7, <2>8 DEF Tracks
<1>9. CASE ~lost /\ UNCHANGED storeVars
            /\ ctl' = [ctl EXCEPT ![c].pc = IF rows[e] \in Preparing THEN "prepare" ELSE "run",
                                  ![c].e = e, ![c].todo = rest]
  <2> DEFINE pc == IF rows[e] \in Preparing THEN "prepare" ELSE "run"
  <2>1. pc \in {"prepare", "run"} /\ (pc = "prepare" => state[e] \in Preparing)
    BY <1>4
  <2>2. /\ ctl'[c].pc = pc /\ ctl'[c].e = e /\ ctl'[c].ret = ctl[c].ret /\ ctl'[c].seen = ctl[c].seen
        /\ DOMAIN ctl'[c].todo = DOMAIN rows \ {e}
        /\ \A x \in DOMAIN rows \ {e} : ctl'[c].todo[x] = rows[x]
    BY <1>7, <1>9
  <2> HIDE DEF pc
  <2>3. UNCHANGED settleVars /\ runState' = runState /\ Created' = Created
    BY <1>9, RowsStay DEF Created, settleVars
  <2>4. ClosedInv'
    BY <1>2, <2>3, ClosedStays
  <2>5. SeenInv(c)'
    BY <1>1, <1>2, <2>2, <2>3 DEF SeenInv, Saw, settleVars
  <2>6. \A x : (Rested(x)' <=> Rested(x)) /\ (Quit(x)' <=> Quit(x))
    BY <2>3 DEF Rested, Quit, Parked, settleVars
  <2>7. Saw(c, "FINALIST_LOCKED") /\ e # finalist => pc = "run" /\ Quit(e)
    <3>1. SUFFICES ASSUME Saw(c, "FINALIST_LOCKED"), e # finalist
                   PROVE  pc = "run" /\ Quit(e)
      OBVIOUS
    <3>2. phase # "DISCOVERY" /\ ctl[c].seen[2] = finalist
      BY <1>1, <1>2, <3>1 DEF SeenInv, Saw
    <3>3. Rested(e)
      BY <1>2, <1>4, <3>1, <3>2 DEF ClosedInv
    <3>4. ~Parked(e)
      BY <1>4, <1>9, <3>1, <3>2 DEF Parked
    <3>5. Quit(e) => state[e] \notin Preparing
      BY DEF Quit, Settled, Preparing
    <3> QED
      BY <1>4, <2>1, <3>3, <3>4, <3>5 DEF Rested
  <2>8. DriveInv(c)'
    <3>1. \A x \in DOMAIN rows \ {e} : x \in Created' /\ ctl'[c].todo[x] = state'[x]
      BY <1>3, <2>2, <2>3 DEF settleVars
    <3>2. \A x \in Created' \ (DOMAIN rows \ {e}) : Covered(c, x)' \/ x = e
      BY <1>3, <2>2, <2>3, <2>6 DEF Covered, Saw
    <3>3. Saw(c, "FINALIST_LOCKED")' => e = finalist' \/ (pc = "run" /\ Quit(e)')
      BY <2>2, <2>3, <2>6, <2>7 DEF Saw, settleVars
    <3>4. ~Saw(c, "OFFICIAL_EVALUATED")' /\ pc # "next"
      BY <2>1, <2>2 DEF Saw
    <3> QED
      BY <2>2, <3>1, <3>2, <3>3, <3>4 DEF DriveInv, Quit
  <2>9. LoopInv(c)'
    BY <2>1, <2>2 DEF LoopInv
  <2> QED
    BY <2>4, <2>5, <2>8, <2>9 DEF Tracks
<1> QED
  BY <1>6, <1>8, <1>9 DEF DriveRow, Saw

LEMMA NextSettles ==
    ASSUME Known, SettleInv, NEW c \in Controllers, NextRow(c)
    PROVE  ClosedInv' /\ Tracks(c)'
BY RowsDone, RowTaken DEF NextRow, Saw

\* A new hypothesis is created while every other one rests.
LEMMA CreateSettles ==
    ASSUME Known, SettleInv, NEW c \in Controllers, Create(c)
    PROVE  ClosedInv' /\ Tracks(c)'
<1>1. ctl[c].pc = "create" /\ ctl[c].pc \in Searching /\ ctl[c].pc \in OfOneExperiment
  BY DEF Create, At, Searching, OfOneExperiment
<1>2. /\ ctl[c] \in Locals /\ ctl \in [Controllers -> Locals] /\ TypeInv /\ SupInv /\ ClosedInv /\ SeenInv(c)
      /\ DriveInv(c) /\ LoopInv(c) /\ Created \subseteq Exp /\ runState = "SEARCHING"
  BY <1>1, SearchContext
<1>3. ctl[c].e \in Exp
  BY <1>1, <1>2, DrivesAnExperiment
<1>4. CASE Raise(c)
  <2>1. ctl'[c].pc \notin Searching
    BY <1>2, <1>4, PcAfterExit DEF Raise, Searching, OfOneExperiment
  <2>2. Tracks(c)'
    BY <2>1 DEF Tracks, SeenInv, DriveInv, LoopInv, Searching, OfOneExperiment, Driving
  <2> QED
    BY <1>2, <1>4, <2>2, RowsStay, ClosedStays DEF Raise
<1>5. ASSUME NEW e \in Exp, e = ctl[c].e, e = hypotheses + 1, CreateExperiment(e), Goto(c, "prepare"),
             exhausted' \in {exhausted, exhausted \cup {e}}
      PROVE  ClosedInv' /\ Tracks(c)'
  <2>1. /\ state'[e] = "PROPOSED" /\ \A x \in Exp : x # e => state'[x] = state[x]
        /\ hypotheses' = e
        /\ UNCHANGED <<phase, finalist, shadow, outcome, runState, shadowChampion>>
    BY <1>2, <1>5 DEF CreateExperiment, TypeInv, TypeOK, validationVars, shadowVars, convergenceVars
  <2>2. Created' \subseteq Created \cup {e} /\ e \notin Created /\ e \in Created' /\ Created \subseteq Created'
    BY <1>2, <1>5, <2>1, StoreAssumption DEF Created, TypeInv, TypeOK, Exp
  <2>3. \A x \in Exp : x # e => (Quit(x)' <=> Quit(x)) /\ (Rested(x)' <=> Rested(x))
    BY <2>1 DEF Quit, Rested, Parked
  <2>4. phase = "DISCOVERY" /\ ctl[c].todo = <<>> /\ \A x \in Created : Rested(x)
    BY <1>1, <1>2 DEF LoopInv
  <2>5. ClosedInv'
    <3>1. \A x \in exhausted' : state'[x] \in {"PROPOSED", "ABANDONED"}
      BY <1>2, <1>5, <2>1 DEF ClosedInv
    <3>2. exhausted' \subseteq Exp
      BY <1>2, <1>5 DEF ClosedInv
    <3> QED
      BY <1>2, <2>1, <2>4, <3>1, <3>2 DEF ClosedInv, FinalistIsShadowChampion
  <2>6. Keeps(c) /\ ctl'[c].pc = "prepare"
    BY <1>2, <1>5, KeepsGoto
  <2>7. Saw(c, "DISCOVERY") /\ SeenInv(c)'
    BY <1>1, <1>2, <2>1, <2>4, <2>6 DEF SeenInv, Saw, Keeps
  <2>8. DriveInv(c)'
    <3>1. DOMAIN ctl'[c].todo = {}
      BY <2>4, <2>6 DEF Keeps
    <3>2. ~Saw(c, "OFFICIAL_EVALUATED")' /\ ~Saw(c, "FINALIST_LOCKED")'
      BY <2>6, <2>7 DEF Saw, Keeps
    <3>3. \A x \in Created' : Covered(c, x)' \/ x = ctl'[c].e
      BY <1>2, <1>5, <2>2, <2>3, <2>4, <2>6, <3>2 DEF Covered, Keeps
    <3> QED
      BY <2>6, <3>1, <3>2, <3>3 DEF DriveInv
  <2>9. LoopInv(c)'
    BY <2>6 DEF LoopInv
  <2> QED
    BY <2>5, <2>7, <2>8, <2>9 DEF Tracks
<1> QED
  BY <1>3, <1>4, <1>5 DEF Create

\* A step between rows that writes nothing.
LEMMA PauseSettles ==
    ASSUME Known, SettleInv, NEW c \in Controllers, ctl[c].pc \in Searching, UNCHANGED <<storeVars, exhausted>>,
           \/ Exit(c)
           \/ Rescan(c, "loop")
           \/ Rescan(c, "locked") /\ phase # "DISCOVERY"
           \/ /\ ctl[c].pc # "scan" /\ ctl'[c].pc \in {"loop", "create", "pick", "lock", "finish"}
              /\ ctl'[c].seen = ctl[c].seen /\ ctl'[c].ret = ctl[c].ret
              /\ LoopInv(c)'
    PROVE  ClosedInv' /\ Tracks(c)'
<1>1. /\ ctl[c] \in Locals /\ ctl \in [Controllers -> Locals] /\ SupInv /\ ClosedInv /\ SeenInv(c)
  BY SearchContext
<1>2. UNCHANGED settleVars /\ runState' = runState
  BY RowsStay
<1>3. ClosedInv'
  BY <1>1, <1>2, ClosedStays
<1>4. CASE Exit(c)
  <2>1. ctl'[c].pc \notin Searching
    BY <1>1, <1>4, PcAfterExit DEF Searching, OfOneExperiment
  <2>2. Tracks(c)'
    BY <2>1 DEF Tracks, SeenInv, DriveInv, LoopInv, Searching, OfOneExperiment, Driving
  <2> QED
    BY <1>3, <2>2
<1>5. ASSUME NEW ret \in {"loop", "locked"}, Rescan(c, ret), ret = "locked" => phase # "DISCOVERY"
      PROVE  ClosedInv' /\ Tracks(c)'
  <2>1. ctl'[c].pc = "scan" /\ ctl'[c].ret = ret
    BY <1>1, <1>5 DEF Rescan, Locals
  <2>2. Tracks(c)'
    BY <1>2, <1>5, <2>1 DEF Tracks, SeenInv, DriveInv, LoopInv, OfOneExperiment, Driving, settleVars
  <2> QED
    BY <1>3, <2>2
<1>6. CASE /\ ctl[c].pc # "scan" /\ ctl'[c].pc \in {"loop", "create", "pick", "lock", "finish"}
           /\ ctl'[c].seen = ctl[c].seen /\ ctl'[c].ret = ctl[c].ret
           /\ LoopInv(c)'
  <2>1. SeenInv(c)'
    BY <1>1, <1>2, <1>6 DEF SeenInv, Saw, settleVars
  <2>2. DriveInv(c)'
    BY <1>6 DEF DriveInv, Driving, OfOneExperiment
  <2> QED
    BY <1>3, <1>6, <2>1, <2>2 DEF Tracks
<1> QED
  BY <1>4, <1>5, <1>6

LEMMA LoopSettles ==
    ASSUME Known, SettleInv, NEW c \in Controllers, SearchLoop(c)
    PROVE  ClosedInv' /\ Tracks(c)'
<1>1. /\ ctl[c].pc = "loop" /\ ctl[c].pc \in Searching /\ UNCHANGED <<storeVars, exhausted>>
  BY DEF SearchLoop, At, Searching, Finish, Rescan
<1>2. UNCHANGED settleVars /\ runState' = runState
  BY <1>1, RowsStay
<1>3. /\ ctl[c] \in Locals /\ ctl \in [Controllers -> Locals] /\ ClosedInv /\ LoopInv(c)
  BY <1>1, SearchContext
<1>4. /\ phase' = phase /\ (\A e : Rested(e)' <=> Rested(e)) /\ Created' = Created /\ (Ended' <=> Ended)
  BY <1>2 DEF settleVars, Rested, Quit, Parked, Created, Ended
<1>5. phase = "DISCOVERY" => \A e \in Created : Rested(e)
  BY <1>1, <1>3 DEF LoopInv
<1>6. ASSUME NEW reason, phase = "OFFICIAL_EVALUATED", Finish(c, reason)
      PROVE  ClosedInv' /\ Tracks(c)'
  <2>1. ctl'[c].pc = "finish" /\ ctl'[c].seen = ctl[c].seen /\ ctl'[c].ret = ctl[c].ret
    BY <1>3, <1>6 DEF Finish, Locals
  <2>2. Ended
    BY <1>3, <1>6, JudgedEnds
  <2>3. LoopInv(c)'
    BY <1>4, <2>1, <2>2 DEF LoopInv
  <2> QED
    BY <1>1, <2>1, <2>3, PauseSettles
<1>7. CASE phase = "FINALIST_LOCKED" /\ Rescan(c, "locked")
  BY <1>1, <1>7, PauseSettles
<1>8. ASSUME phase = "DISCOVERY", NEW reason, ctl' = [ctl EXCEPT ![c].pc = "pick", ![c].reason = reason]
      PROVE  ClosedInv' /\ Tracks(c)'
  <2>1. ctl'[c].pc = "pick" /\ ctl'[c].seen = ctl[c].seen /\ ctl'[c].ret = ctl[c].ret
    BY <1>3, <1>8 DEF Locals
  <2>2. LoopInv(c)'
    BY <1>4, <1>5, <2>1 DEF LoopInv
  <2> QED
    BY <1>1, <2>1, <2>2, PauseSettles
<1>9. ASSUME phase = "DISCOVERY", ctl' = [ctl EXCEPT ![c].pc = "create", ![c].e = hypotheses + 1]
      PROVE  ClosedInv' /\ Tracks(c)'
  <2>1. ctl'[c].pc = "create" /\ ctl'[c].seen = ctl[c].seen /\ ctl'[c].ret = ctl[c].ret /\ ctl'[c].todo = ctl[c].todo
    BY <1>3, <1>9 DEF Locals
  <2>2. LoopInv(c)'
    BY <1>1, <1>3, <1>4, <1>5, <1>9, <2>1 DEF LoopInv
  <2> QED
    BY <1>1, <2>1, <2>2, PauseSettles
<1> QED
  BY <1>6, <1>7, <1>8, <1>9 DEF SearchLoop

\* _lock_shadow_finalist picks the shadow champion: it is diagnosed, as every
\* supported candidate is while discovery is open.
LEMMA PickSettles ==
    ASSUME Known, SettleInv, NEW c \in Controllers, PickFinalist(c)
    PROVE  ClosedInv' /\ Tracks(c)'
<1> DEFINE candidates == {e \in 1..hypotheses : state[e] = "DIAGNOSED" /\ fullResult[e] # None}
<1>1. /\ ctl[c].pc = "pick" /\ ctl[c].pc \in Searching /\ UNCHANGED <<storeVars, exhausted>>
  BY DEF PickFinalist, At, Searching, OfOneExperiment, Read, Rescan
<1>2. UNCHANGED settleVars /\ runState' = runState
  BY <1>1, RowsStay
<1>3. /\ ctl[c] \in Locals /\ ctl \in [Controllers -> Locals] /\ SupInv /\ TypeInv /\ ClosedInv /\ LoopInv(c)
      /\ Created \subseteq Exp
  BY <1>1, SearchContext
<1>4. /\ phase' = phase /\ (\A e : Rested(e)' <=> Rested(e)) /\ Created' = Created /\ (Ended' <=> Ended)
      /\ shadowChampion' = shadowChampion
  BY <1>2 DEF settleVars, Rested, Quit, Parked, Created, Ended
<1>5. phase = "DISCOVERY" => \A e \in Created : Rested(e)
  BY <1>1, <1>3 DEF LoopInv
<1>6. CASE phase = "FINALIST_LOCKED" /\ Rescan(c, "loop")
  BY <1>1, <1>6, PauseSettles
<1>7. CASE Ended /\ Goto(c, "finish")
  <2>1. Keeps(c) /\ ctl'[c].pc = "finish"
    BY <1>3, <1>7, KeepsGoto
  <2>2. LoopInv(c)'
    BY <1>4, <1>7, <2>1 DEF LoopInv
  <2> QED
    BY <1>1, <2>1, <2>2, PauseSettles DEF Keeps
<1>8. phase = "OFFICIAL_EVALUATED" => Ended
  BY <1>3, JudgedEnds
<1>9. phase = "DISCOVERY" /\ candidates = {} => Ended
  <2>1. SUFFICES ASSUME phase = "DISCOVERY", candidates = {}, NEW e \in Created
                 PROVE  Quit(e)
    BY DEF Ended
  <2>2. Rested(e) /\ e \in Exp
    BY <1>3, <1>5, <2>1
  <2>3. ~Parked(e)
    BY <2>1, <2>2 DEF Parked, Known, StreakInv, Ladder, Created
  <2> QED
    BY <2>2, <2>3 DEF Rested
<1>10. ASSUME phase = "DISCOVERY", NEW e \in Selected(candidates), ctl' = [ctl EXCEPT ![c].pc = "lock", ![c].e = e]
       PROVE  ClosedInv' /\ Tracks(c)'
  <2>1. /\ ctl'[c].pc = "lock" /\ ctl'[c].e = e /\ ctl'[c].seen = ctl[c].seen /\ ctl'[c].ret = ctl[c].ret
    BY <1>3, <1>10 DEF Locals
  <2>2. shadowChampion # None => shadowChampion \in candidates
    <3>1. SUFFICES ASSUME shadowChampion # None
                   PROVE  shadowChampion \in candidates
      OBVIOUS
    <3>2. shadowChampion \in Exp /\ shadow[shadowChampion] # None /\ shadow[shadowChampion].supported
      BY <3>1 DEF Known, ShadowChampionIsBest
    <3>3. state[shadowChampion] = "DIAGNOSED" /\ fullResult[shadowChampion] # None
      BY <1>10, <3>2 DEF Known, RowFacts, RowFact, StreakInv, Ladder
    <3>4. shadowChampion <= hypotheses
      BY <3>2, <3>3 DEF Known, EvidenceInv, RowsInv
    <3>5. shadowChampion \in 1..hypotheses
      BY <1>3, <3>2, <3>4, StoreAssumption DEF Exp, TypeInv, TypeOK
    <3> QED
      BY <3>3, <3>5
  <2> HIDE DEF candidates
  <2>3. shadowChampion \in {None, e}
    BY <1>10, <2>2 DEF Selected
  <2>4. LoopInv(c)'
    BY <1>4, <1>5, <1>10, <2>1, <2>3 DEF LoopInv
  <2> QED
    BY <1>1, <2>1, <2>4, PauseSettles
<1> HIDE DEF candidates
<1>11. \/ phase = "FINALIST_LOCKED" /\ Rescan(c, "loop")
       \/ phase = "OFFICIAL_EVALUATED" /\ Goto(c, "finish")
       \/ phase = "DISCOVERY" /\ candidates = {} /\ Goto(c, "finish")
       \/ phase = "DISCOVERY" /\ \E e \in Selected(candidates) : ctl' = [ctl EXCEPT ![c].pc = "lock", ![c].e = e]
  BY DEF PickFinalist, Read, candidates
<1> QED
  BY <1>6, <1>7, <1>8, <1>9, <1>10, <1>11

\* Discovery closes on the shadow champion while everything else rests.
LEMMA LockSettles ==
    ASSUME Known, SettleInv, NEW c \in Controllers, Lock(c)
    PROVE  ClosedInv' /\ Tracks(c)'
<1>1. /\ ctl[c].pc = "lock" /\ ctl[c].pc \in Searching /\ ctl[c].pc \in OfOneExperiment
  BY DEF Lock, At, Searching, OfOneExperiment
<1>2. /\ ctl[c] \in Locals /\ ctl \in [Controllers -> Locals] /\ SupInv /\ TypeInv /\ ClosedInv /\ LoopInv(c)
      /\ Created \subseteq Exp /\ runState = "SEARCHING" /\ ctl[c].e \in Exp
  BY <1>1, SearchContext, DrivesAnExperiment
<1>3. CASE Raise(c) \/ Rescan(c, "loop")
  BY <1>1, <1>3, PauseSettles DEF Raise, Rescan
<1>4. ASSUME NEW e \in Exp, e = ctl[c].e, phase = "DISCOVERY", LockFinalist(e), exhausted' = exhausted,
             ctl' = [ctl EXCEPT ![c].pc = "scan", ![c].ret = "loop"]
      PROVE  ClosedInv' /\ Tracks(c)'
  <2>1. /\ finalist' = e /\ phase' = "FINALIST_LOCKED" /\ shadow[e] # None /\ shadow[e].supported
        /\ UNCHANGED <<hypotheses, runState, state, shadow, outcome, shadowChampion>>
    BY <1>4 DEF LockFinalist, runVars, shadowVars, convergenceVars, rowVars
  <2>2. shadowChampion = e
    <3>1. shadowChampion # None
      BY <2>1 DEF Known, ShadowChampionIsBest
    <3> QED
      BY <1>1, <1>2, <1>4, <3>1 DEF LoopInv
  <2>3. \A x \in Created : Rested(x)
    BY <1>1, <1>2, <1>4 DEF LoopInv
  <2>4. Created' = Created /\ \A x : Rested(x)' <=> Rested(x)
    BY <2>1 DEF Created, Rested, Quit, Parked
  <2>5. ClosedInv'
    BY <1>2, <1>4, <2>1, <2>2, <2>3, <2>4 DEF ClosedInv, FinalistIsShadowChampion
  <2>6. ctl'[c].pc = "scan" /\ ctl'[c].ret = "loop"
    BY <1>2, <1>4 DEF Locals
  <2>7. Tracks(c)'
    BY <2>6 DEF Tracks, SeenInv, DriveInv, LoopInv, OfOneExperiment, Driving
  <2> QED
    BY <2>5, <2>7
<1> QED
  BY <1>2, <1>3, <1>4 DEF Lock

LEMMA AfterSettles ==
    ASSUME Known, SettleInv, NEW c \in Controllers, AfterFinalist(c)
    PROVE  ClosedInv' /\ Tracks(c)'
<1>1. /\ ctl[c].pc = "locked" /\ ctl[c].pc \in Searching /\ UNCHANGED <<storeVars, exhausted>>
  BY DEF AfterFinalist, At, Searching, OfOneExperiment, Read, Finish, Raise
<1>2. UNCHANGED settleVars /\ runState' = runState
  BY <1>1, RowsStay
<1>3. /\ ctl[c] \in Locals /\ ctl \in [Controllers -> Locals] /\ SupInv /\ LoopInv(c) /\ phase \in Phases
  BY <1>1, SearchContext
<1>4. phase' = phase /\ (Ended' <=> Ended)
  BY <1>2 DEF settleVars, Rested, Quit, Parked, Created, Ended
<1>5. CASE Exit(c)
  BY <1>1, <1>5, PauseSettles
<1>6. CASE phase = "OFFICIAL_EVALUATED" /\ Goto(c, "loop")
  <2>1. Keeps(c) /\ ctl'[c].pc = "loop"
    BY <1>3, <1>6, KeepsGoto
  <2>2. LoopInv(c)'
    BY <1>1, <1>3, <1>4, <1>6, <2>1 DEF LoopInv, Keeps
  <2> QED
    BY <1>1, <2>1, <2>2, PauseSettles DEF Keeps
<1>7. ASSUME NEW reason, phase # "OFFICIAL_EVALUATED", Finish(c, reason)
      PROVE  ClosedInv' /\ Tracks(c)'
  <2>1. ctl'[c].pc = "finish" /\ ctl'[c].seen = ctl[c].seen /\ ctl'[c].ret = ctl[c].ret
    BY <1>3, <1>7 DEF Finish, Locals
  <2>2. Ended
    BY <1>1, <1>3, <1>7 DEF LoopInv, Ended, Phases
  <2>3. LoopInv(c)'
    BY <1>4, <2>1, <2>2 DEF LoopInv
  <2> QED
    BY <1>1, <2>1, <2>3, PauseSettles
<1> QED
  BY <1>5, <1>6, <1>7 DEF AfterFinalist, Read, Raise

-----------------------------------------------------------------------------
(* All steps, and the others.                                              *)

\* The steps that open, close and seal a run move no row; whoever turns to the
\* search reads the rows first.
LEMMA EndsMoveNoRow ==
    ASSUME SupInv, NEW c \in Controllers,
           \/ Launch(c) \/ Begin(c) \/ VerifyBaseline(c) \/ CloseSearch(c) \/ CloseSession(c)
           \/ Finalize(c) \/ Seal(c) \/ Crash(c) \/ Interrupt(c)
    PROVE  /\ UNCHANGED <<settleVars, exhausted>>
           /\ ctl'[c].pc \notin Searching \/ (ctl'[c].pc = "scan" /\ ctl'[c].ret = "loop")
<1> USE DEF Searching, OfOneExperiment
<1> DEFINE Turns == ctl'[c].pc \notin Searching \/ (ctl'[c].pc = "scan" /\ ctl'[c].ret = "loop")
<1>1. ctl \in [Controllers -> Locals] /\ ctl[c] \in Locals
  BY DEF SupInv
<1>2. ASSUME NEW ret \in {"loop"}, ctl' = [ctl EXCEPT ![c].pc = "scan", ![c].ret = ret]
      PROVE  Turns
  BY <1>1, <1>2 DEF Locals
<1>3. ASSUME NEW pc \in {"down", "begin", "baseline", "close", "finalize", "seal"}, Goto(c, pc)
      PROVE  Turns
  BY <1>3, PcAfterGoto
<1>4. ASSUME Exit(c)
      PROVE  Turns
  BY <1>4, PcAfterExit
<1>5. CASE Launch(c)
  <2>1. UNCHANGED <<settleVars, exhausted>>
    BY <1>5 DEF Launch, OpenRun, OpenSession, OpenCompletedRun, Commit, Read, CreateRun, settleVars, storeVars,
       runVars, validationVars, shadowVars, convergenceVars, rowVars
  <2>2. Turns
    BY <1>3, <1>5 DEF Launch, OpenRun, OpenSession, OpenCompletedRun, Commit, Read
  <2> QED
    BY <2>1, <2>2
<1>6. CASE Begin(c) \/ VerifyBaseline(c)
  <2>1. UNCHANGED <<settleVars, exhausted>>
    BY <1>6 DEF Begin, VerifyBaseline, ResumeSearch, Rescan, Raise, Commit, Read, TransitionRun, EstablishBaseline,
       settleVars, storeVars, runVars, validationVars, shadowVars, convergenceVars, rowVars
  <2>2. Turns
    BY <1>2, <1>3, <1>4, <1>6 DEF Begin, VerifyBaseline, ResumeSearch, Rescan, Raise, Commit, Read
  <2> QED
    BY <2>1, <2>2
<1>7. CASE CloseSearch(c) \/ CloseSession(c) \/ Finalize(c)
  <2>1. UNCHANGED <<settleVars, exhausted>>
    BY <1>7 DEF CloseSearch, CloseSession, Finalize, Raise, Commit, Read, TransitionRun,
       settleVars, storeVars, runVars, validationVars, shadowVars, convergenceVars, rowVars
  <2>2. Turns
    BY <1>3, <1>4, <1>7 DEF CloseSearch, CloseSession, Finalize, Raise, Commit, Read
  <2> QED
    BY <2>1, <2>2
<1>8. CASE Seal(c) \/ Crash(c) \/ Interrupt(c)
  <2>1. UNCHANGED <<settleVars, exhausted>>
    BY <1>8, RowsStay DEF Seal, Crash, Interrupt
  <2>2. ctl'[c].pc = "down"
    BY <1>1, <1>8, PcAfterExit DEF Seal, Crash, Interrupt, Fresh
  <2> QED
    BY <2>1, <2>2
<1> QED
  BY <1>5, <1>6, <1>7, <1>8

\* The run leaves the search only from where everything has ended.
LEMMA EndsClose ==
    ASSUME Known, SettleInv, NEW c \in Controllers,
           \/ Launch(c) \/ Begin(c) \/ VerifyBaseline(c) \/ CloseSearch(c) \/ CloseSession(c)
           \/ Finalize(c) \/ Seal(c) \/ Crash(c) \/ Interrupt(c)
    PROVE  runState' \in {"FINALIZING", "COMPLETE"} => Ended
<1>1. runState \in {"FINALIZING", "COMPLETE"} => Ended
  BY DEF SettleInv, ClosedInv
<1>2. CASE UNCHANGED storeVars
  BY <1>1, <1>2, RowsStay
<1>3. CASE CloseSearch(c)
  BY <1>1, <1>2, <1>3 DEF CloseSearch, At, Raise, SettleInv, Tracks, LoopInv
<1>4. CASE Finalize(c)
  BY <1>1, <1>2, <1>4 DEF Finalize, Commit, Read, TransitionRun
<1>5. CASE Launch(c) \/ Begin(c) \/ VerifyBaseline(c)
  BY <1>1, <1>2, <1>5 DEF Launch, OpenRun, OpenSession, OpenCompletedRun, Begin, VerifyBaseline, ResumeSearch,
     Rescan, Raise, Commit, Read, CreateRun, TransitionRun, EstablishBaseline, runVars
<1>6. CASE CloseSession(c) \/ Seal(c) \/ Crash(c) \/ Interrupt(c)
  BY <1>2, <1>6 DEF CloseSession, Raise, Seal, Crash, Interrupt
<1> QED
  BY <1>3, <1>4, <1>5, <1>6

LEMMA EndsSettle ==
    ASSUME Known, SettleInv, NEW c \in Controllers,
           \/ Launch(c) \/ Begin(c) \/ VerifyBaseline(c) \/ CloseSearch(c) \/ CloseSession(c)
           \/ Finalize(c) \/ Seal(c) \/ Crash(c) \/ Interrupt(c)
    PROVE  ClosedInv' /\ Tracks(c)'
<1>1. /\ UNCHANGED <<settleVars, exhausted>>
      /\ ctl'[c].pc \notin Searching \/ (ctl'[c].pc = "scan" /\ ctl'[c].ret = "loop")
  BY EndsMoveNoRow DEF Known
<1>2. Ended' <=> Ended
  BY <1>1 DEF Ended, Created, Quit, Parked, settleVars
<1>3. ClosedInv'
  BY <1>1, <1>2, EndsClose DEF SettleInv, ClosedInv, settleVars, Created, Rested, Quit, Parked,
     FinalistIsShadowChampion
<1>4. CASE ctl'[c].pc \notin Searching
  BY <1>3, <1>4 DEF Tracks, SeenInv, DriveInv, LoopInv, Searching, OfOneExperiment, Driving
<1>5. CASE ctl'[c].pc = "scan" /\ ctl'[c].ret = "loop"
  BY <1>3, <1>5 DEF Tracks, SeenInv, DriveInv, LoopInv, OfOneExperiment, Driving
<1> QED
  BY <1>1, <1>4, <1>5

LEMMA SearchSettles ==
    ASSUME Known, SettleInv, NEW c \in Controllers, SearchStep(c), [StoreNext]_storeVars
    PROVE  ClosedInv' /\ Tracks(c)'
<1>1. ASSUME NEW e \in Exp, Drives(c, e), OneRow(e)
      PROVE  ClosedInv' /\ Tracks(c)'
  BY <1>1, DriveSettles
<1>2. CASE \/ Prepare(c) \/ RunCandidate(c) \/ Rung(c) \/ Complete(c) \/ HandleFailure(c) \/ Reserved(c)
           \/ ResumeRepair(c) \/ Mend(c) \/ Mended(c)
  <2>1. ctl[c].pc \in OfOneExperiment
    BY <1>2 DEF Prepare, RunCandidate, Rung, Complete, HandleFailure, Reserved, ResumeRepair, Mend, Mended, At,
       OfOneExperiment
  <2>2. ctl[c].e \in Exp
    BY <2>1, DrivesAnExperiment DEF Known
  <2> QED
    BY <1>1, <1>2, <2>2, PrepareDrives, RunDrives, RungDrives, RepairDrives
<1> QED
  BY <1>2, ScanSettles, NextSettles, CreateSettles, LoopSettles, PickSettles, LockSettles, AfterSettles
  DEF SearchStep

\* The others are not searching, or nothing they rely on has moved.
LEMMA OthersSettle ==
    ASSUME Known, SettleInv, HeldInv', NEW c \in Controllers, Alone(c), NEW d \in Controllers \ {c},
           SearchStep(c) \/ UNCHANGED settleVars
    PROVE  Tracks(d)'
<1>1. ctl'[d] = ctl[d] /\ Tracks(d)
  BY DEF Alone, SettleInv
<1>2. CASE UNCHANGED settleVars
  BY <1>1, <1>2 DEF settleVars, Tracks, SeenInv, DriveInv, LoopInv, Saw, Covered, Ended, Created, Rested, Quit,
     Parked
<1>3. CASE SearchStep(c)
  <2>1. ctl[c].pc \in Searching
    BY <1>3, SearchMoves DEF SearchMove, Known
  <2>2. owner = c
    BY <2>1 DEF Known, HeldInv, Holds, Searching, OfOneExperiment, Unheld
  <2>3. ctl[d].pc \notin Searching
    BY <2>2 DEF Known, HeldInv, Holds, Searching, OfOneExperiment, Unheld
  <2>4. ctl'[d].pc \notin Searching
    BY <1>1, <2>3
  <2> QED
    BY <2>4 DEF Tracks, SeenInv, DriveInv, LoopInv, Searching, OfOneExperiment, Driving
<1> QED
  BY <1>2, <1>3

LEMMA SettleStep ==
    ASSUME Known, SettleInv, [SupNext]_supVars, HeldInv'
    PROVE  SettleInv'
<1>1. ASSUME NEW c \in Controllers, Work(c) \/ Crash(c) \/ Interrupt(c)
      PROVE  SettleInv'
  <2>1. Alone(c) /\ [StoreNext]_storeVars
    BY <1>1, WorkStep, FaultStep DEF StepOf, Known
  <2> DEFINE Ends == \/ Launch(c) \/ Begin(c) \/ VerifyBaseline(c) \/ CloseSearch(c) \/ CloseSession(c)
                     \/ Finalize(c) \/ Seal(c) \/ Crash(c) \/ Interrupt(c)
  <2>2. SearchStep(c) \/ Ends
    BY <1>1 DEF Work, Drive, SearchStep
  <2>3. ClosedInv' /\ Tracks(c)'
    BY <2>1, <2>2, SearchSettles, EndsSettle
  <2>4. SearchStep(c) \/ UNCHANGED settleVars
    BY <2>2, EndsMoveNoRow DEF Known
  <2>5. \A d \in Controllers \ {c} : Tracks(d)'
    BY <2>1, <2>4, OthersSettle
  <2> QED
    BY <2>3, <2>5 DEF SettleInv
<1>2. ASSUME UNCHANGED <<storeVars, ctl, exhausted>>
      PROVE  SettleInv'
  <2>1. UNCHANGED settleVars /\ runState' = runState
    BY <1>2, RowsStay
  <2>2. ClosedInv'
    BY <1>2, <2>1, ClosedStays DEF SettleInv
  <2>3. ASSUME NEW d \in Controllers
        PROVE  Tracks(d)'
    BY <1>2, <2>1 DEF SettleInv, settleVars, Tracks, SeenInv, DriveInv, LoopInv, Saw, Covered, Ended, Created,
       Rested, Quit, Parked
  <2> QED
    BY <2>2, <2>3 DEF SettleInv
<1> QED
  BY <1>1, <1>2 DEF SupNext, Expire, supVars

LEMMA SettleStart == SupInit => SettleInv
<1> SUFFICES ASSUME SupInit
             PROVE  SettleInv
  OBVIOUS
<1>1. \A c \in Controllers : ctl[c].pc = "down"
  BY DEF SupInit, Fresh
<1>2. \A c \in Controllers : Tracks(c)
  BY <1>1, IdleTracks DEF Searching, OfOneExperiment
<1>3. ClosedInv
  BY DEF SupInit, StoreInit, ClosedInv, FinalistIsShadowChampion
<1> QED
  BY <1>2, <1>3 DEF SettleInv

\* The run's own record: the session, the deadline, the bundle, the kills and
\* what they interrupted.
RecordInv ==
    /\ owner \in Controllers \cup {None}
    /\ expired \in BOOLEAN
    /\ sealed \in Exp \cup {None, BaselineId}
    /\ interrupted \subseteq Exp \X Rungs \X (0..MaxRepairs)
    /\ crashes \in 0..MaxCrashes

LEMMA OwnerStep ==
    ASSUME SupInv, NEW c \in Controllers, Work(c) \/ Crash(c) \/ Interrupt(c)
    PROVE  owner' \in {owner, c, None}
<1>1. ASSUME Exit(c)
      PROVE  owner' \in {owner, None}
  BY <1>1 DEF Exit
<1>2. CASE SearchStep(c)
  BY <1>1, <1>2, SearchMoves DEF SearchMove
<1>3. CASE Launch(c) \/ Begin(c) \/ VerifyBaseline(c)
  BY <1>1, <1>3 DEF Launch, OpenRun, OpenSession, OpenCompletedRun, Begin, VerifyBaseline, ResumeSearch, Rescan,
     Raise, Commit, Read
<1>4. CASE CloseSearch(c) \/ CloseSession(c) \/ Finalize(c)
  BY <1>1, <1>4 DEF CloseSearch, CloseSession, Finalize, Raise, Commit, Read
<1>5. CASE Seal(c) \/ Crash(c) \/ Interrupt(c)
  BY <1>1, <1>5 DEF Seal, Crash, Interrupt
<1> QED
  BY <1>2, <1>3, <1>4, <1>5 DEF Work, Drive, SearchStep

LEMMA RecordStep ==
    ASSUME SupInv, RecordInv, [SupNext]_supVars
    PROVE  RecordInv'
<1>1. ASSUME NEW c \in Controllers, Work(c) \/ Crash(c) \/ Interrupt(c)
      PROVE  RecordInv'
  <2>1. owner' \in Controllers \cup {None}
    BY <1>1, OwnerStep DEF RecordInv
  <2>2. expired' = expired
    BY <1>1 DEF Work, Crash, Interrupt
  <2>3. sealed' \in {sealed, champion}
    BY <1>1 DEF Work, Seal, Crash, Interrupt
  <2>4. champion \in Exp \cup {None, BaselineId}
    BY DEF SupInv, StoreInv, TypeInv, TypeOK
  <2>5. crashes' = crashes \/ (crashes < MaxCrashes /\ crashes' = crashes + 1)
    BY <1>1 DEF Work, Crash, Interrupt
  <2>6. crashes' \in 0..MaxCrashes
    BY <2>5, SupervisorAssumption DEF RecordInv
  <2>7. interrupted' = interrupted \/ KillWorker(c)
    BY <1>1 DEF Work, Seal, Crash, Interrupt
  <2>8. interrupted' \subseteq Exp \X Rungs \X (0..MaxRepairs)
    <3>1. CASE KillWorker(c)
      <4>1. ctl[c].rung \in Rungs /\ ctl[c].e \in Exp
        BY <3>1, DrivesAnExperiment DEF KillWorker, At, OfOneExperiment, SupInv, Remembers
      <4>2. reserved[ctl[c].e] \in 0..MaxRepairs
        BY <4>1 DEF SupInv, StoreInv, TypeInv, TypeOK
      <4> QED
        BY <3>1, <4>1, <4>2 DEF KillWorker, Attempt, RecordInv
    <3> QED
      BY <2>7, <3>1 DEF RecordInv
  <2> QED
    BY <2>1, <2>2, <2>3, <2>4, <2>6, <2>8 DEF RecordInv
<1>2. CASE Expire
  BY <1>2 DEF Expire, RecordInv
<1>3. CASE UNCHANGED supVars
  BY <1>3 DEF supVars, RecordInv
<1> QED
  BY <1>1, <1>2, <1>3 DEF SupNext

LEMMA RecordKept == SupSafety => []RecordInv
<1>1. SupInit => RecordInv
  <2> SUFFICES ASSUME SupInit
               PROVE  RecordInv
    OBVIOUS
  <2>1. expired \in BOOLEAN
    BY Zenon DEF SupInit
  <2>2. crashes \in 0..MaxCrashes
    BY SupervisorAssumption DEF SupInit
  <2> QED
    BY <2>1, <2>2 DEF SupInit, RecordInv
<1> QED
  BY <1>1, RecordStep, ControllersRemember, PTL DEF SupSafety

LEMMA KnownKept ==
    ASSUME ~StaleTakeover
    PROVE  SupSafety => []Known
<1>1. SealInv => HeldInv
  BY DEF SealInv
<1>2. SupSafety => []HeldInv
  BY <1>1, SealKept, PTL
<1>3. SupSafety => [](EvidenceInv /\ ShadowChampionIsBest /\ StreakInv /\ RowFacts)
  BY StoreImplemented, EvidenceInvariant, ShadowChampionBest, StreakInvariant, FactsKept, PTL DEF ImplementsStore
<1>4. SupInv /\ HeldInv /\ (EvidenceInv /\ ShadowChampionIsBest /\ StreakInv /\ RowFacts) => Known
  BY DEF Known
<1> QED
  BY <1>2, <1>3, <1>4, ControllersRemember, PTL

LEMMA SettleKept ==
    ASSUME ~StaleTakeover
    PROVE  SupSafety => []SettleInv
<1>1. Known /\ SettleInv /\ [SupNext]_supVars /\ HeldInv' => SettleInv'
  BY SettleStep
<1>2. Known => HeldInv
  BY DEF Known
<1> QED
  BY <1>1, <1>2, SettleStart, KnownKept, PTL DEF SupSafety

\* The finalist is the shadow champion, although _lock_shadow_finalist reads the
\* champion and the candidates in one transaction and locks in another, and a
\* resumed controller picks again.
THEOREM FinalistChosenRight ==
    ASSUME ~StaleTakeover
    PROVE  SupSafety => []FinalistIsShadowChampion
<1>1. SettleInv => FinalistIsShadowChampion
  BY DEF SettleInv, ClosedInv
<1> QED
  BY <1>1, SettleKept, PTL

\* When the search is over every hypothesis has ended, every failed one has been
\* counted, and the only one left diagnosed lost to a finalist that has been
\* judged, wherever controllers were killed while they drove the rows.
THEOREM SearchSettled ==
    ASSUME ~StaleTakeover
    PROVE  SupSafety => []SearchEndsSettled
<1>1. SupInv /\ RecordInv /\ SettleInv => SupTypeOK
  <2> SUFFICES ASSUME SupInv, RecordInv, SettleInv
               PROVE  SupTypeOK
    OBVIOUS
  <2>1. exhausted \subseteq Exp
    BY DEF SettleInv, ClosedInv
  <2>2. ASSUME NEW c \in Controllers
        PROVE  /\ ctl[c] \in Locals
               /\ DOMAIN ctl[c].todo \subseteq Exp
    <3>1. ctl[c] \in Locals /\ ctl[c].todo \in Rows
      BY DEF SupInv, Locals
    <3> QED
      BY <3>1, RowsOfExperiments
  <2>3. DOMAIN ctl = Controllers
    BY DEF SupInv
  <2> QED
    BY <2>1, <2>2, <2>3 DEF SupTypeOK, RecordInv, Locals
<1>2. SettleInv /\ SupTypeOK => SearchEndsSettled
  BY DEF SettleInv, ClosedInv, Ended, Created, Quit, Parked, Settled, Terminal, SearchEndsSettled
<1> QED
  BY <1>1, <1>2, SettleKept, RecordKept, ControllersRemember, PTL

-----------------------------------------------------------------------------
(* A closed discovery.                                                     *)

closedVars == <<shadow, fullResult, cheapResult>>

\* The rung at hand is the finalist's, whose selection rungs are on record.
LEMMA RungOnceClosed ==
    ASSUME Known, SettleInv, EvaluatedInv, NEW c \in Controllers, Rung(c), phase # "DISCOVERY"
    PROVE  UNCHANGED closedVars
<1>1. ctl[c].pc = "rung" /\ ctl[c].pc \in Driving /\ ctl[c].pc # "run"
  BY DEF Rung, At, Driving, OfOneExperiment
<1>2. ctl[c].e \in Exp /\ ctl[c].e = finalist
  BY <1>1, DriveContext
<1>3. cheapResult[ctl[c].e] # None /\ fullResult[ctl[c].e] # None
  BY <1>2, EvaluatedRungs DEF EvaluatedInv, EvaluatedFact, Known
<1>4. ASSUME NEW e, e = ctl[c].e, StoreRung(e, ctl[c].rung)
      PROVE  UNCHANGED closedVars
  BY <1>3, <1>4 DEF StoreRung, StoreCheap, StoreFull, StoreOfficial, closedVars, shadowVars
<1>5. ASSUME NEW e, NEW primary, RecordOfficialMetrics(e, primary)
      PROVE  UNCHANGED closedVars
  BY <1>5 DEF RecordOfficialMetrics, closedVars, shadowVars, resultVars
<1>6. ASSUME NEW e, NEW r, NEW status, NEW used, FailRung(e, r, status, used)
      PROVE  UNCHANGED closedVars
  BY <1>6 DEF FailRung, closedVars, shadowVars, resultVars
<1>7. CASE UNCHANGED storeVars
  BY <1>7 DEF storeVars, closedVars, shadowVars, resultVars
<1> QED
  BY <1>4, <1>5, <1>6, <1>7 DEF Rung, Commit, Read, Raise

LEMMA ClosedStep ==
    ASSUME Known, SettleInv, EvaluatedInv, NEW c \in Controllers, Work(c) \/ Crash(c) \/ Interrupt(c),
           phase # "DISCOVERY"
    PROVE  hypotheses' = hypotheses /\ UNCHANGED closedVars
<1> DEFINE Goal == hypotheses' = hypotheses /\ UNCHANGED closedVars
<1>1. CASE UNCHANGED storeVars
  BY <1>1 DEF storeVars, runVars, closedVars, shadowVars, resultVars
<1>2. ASSUME NEW e, NEW expected, NEW next, NEW key, TransitionExperiment(e, expected, next, key)
      PROVE  Goal
  BY <1>2 DEF TransitionExperiment, runVars, closedVars, shadowVars, resultVars
<1>3. CASE Launch(c) \/ Begin(c) \/ VerifyBaseline(c) \/ CloseSearch(c) \/ CloseSession(c) \/ Finalize(c)
  BY <1>1, <1>3 DEF Launch, OpenRun, OpenSession, OpenCompletedRun, Begin, VerifyBaseline, ResumeSearch, Rescan,
     CloseSearch, CloseSession, Finalize, Raise, Commit, Read, CreateRun, TransitionRun, EstablishBaseline,
     runVars, closedVars, shadowVars, resultVars
<1>4. CASE Scan(c) \/ SearchLoop(c) \/ PickFinalist(c) \/ AfterFinalist(c) \/ Seal(c) \/ Crash(c) \/ Interrupt(c)
  BY <1>1, <1>4 DEF Scan, SearchLoop, PickFinalist, AfterFinalist, Finish, Rescan, Read, Raise, Seal, Crash,
     Interrupt
<1>5. CASE Lock(c)
  BY <1>1, <1>5 DEF Lock, Rescan, Raise
<1>6. CASE NextRow(c)
  BY <1>1, <1>2, <1>6 DEF NextRow, DriveRow, AbandonNonFinalist
<1>7. CASE Create(c)
  <2>1. ctl[c].pc = "create"
    BY <1>7 DEF Create, At
  <2> QED
    BY <2>1 DEF SettleInv, Tracks, LoopInv
<1>8. CASE Prepare(c)
  BY <1>1, <1>2, <1>8 DEF Prepare, Commit, Read, Raise, AbandonPreparation, PrepareStep
<1>9. CASE RunCandidate(c)
  <2>1. ASSUME NEW e, NEW families, RejectCheap(e, families) \/ RejectFull(e, families)
        PROVE  Goal
    BY <2>1 DEF RejectCheap, RejectFull, RejectCandidate, runVars, closedVars, shadowVars, resultVars
  <2>2. ASSUME NEW e, RejectNonImproving(e) \/ PromoteSearchCandidate(e) \/ CountFailedTransaction(e)
        PROVE  Goal
    BY <2>2 DEF RejectNonImproving, PromoteSearchCandidate, CountFailedTransaction, runVars, closedVars, shadowVars,
       resultVars
  <2>3. ASSUME NEW e, RunShadow(c, e)
        PROVE  Goal
    BY <1>1, <1>2, <2>1, <2>3 DEF RunShadow, Commit, Read, Raise, AbandonNonFinalist, StartOfficial
  <2>4. ASSUME NEW e, \/ StartCheap(e) \/ CompleteCheap(e) \/ ReserveFull(e) \/ StartFull(e) \/ CompleteFull(e)
                      \/ Diagnose(e) \/ CompleteOfficial(e)
        PROVE  Goal
    BY <1>2, <2>4 DEF StartCheap, CompleteCheap, ReserveFull, StartFull, CompleteFull, Diagnose, CompleteOfficial
  <2> QED
    BY <1>1, <1>9, <2>1, <2>2, <2>3, <2>4 DEF RunCandidate, Commit, Read, Raise
<1>10. CASE Rung(c)
  <2>1. ctl[c].pc \in Driving /\ ctl[c].e \in Exp
    BY <1>10, DrivesAnExperiment DEF Rung, At, Driving, OfOneExperiment, Known
  <2>2. hypotheses' = hypotheses
    BY <1>10, <2>1, RungDrives DEF Drives
  <2> QED
    BY <1>10, <2>2, RungOnceClosed
<1>11. CASE Complete(c)
  BY <1>1, <1>2, <1>11 DEF Complete, CompleteCheap, CompleteFull, CompleteOfficial
<1>12. ASSUME NEW e, NEW cause, NEW used, ActOnPlan(c, e, cause, used)
       PROVE  Goal
  <2>1. ASSUME ReserveRepair(e, cause)
        PROVE  Goal
    BY <2>1 DEF ReserveRepair, runVars, closedVars, shadowVars, resultVars
  <2> QED
    BY <1>1, <1>2, <1>12, <2>1 DEF ActOnPlan, Reserve, Raise, FailFinal
<1>13. CASE HandleFailure(c) \/ ResumeRepair(c)
  BY <1>1, <1>12, <1>13 DEF HandleFailure, ResumeRepair, Raise
<1>14. CASE Reserved(c) \/ Mend(c) \/ Mended(c)
  <2>1. ASSUME NEW e, NEW n, ApplyRepairRevision(e, n) \/ CompleteRepair(e, n)
        PROVE  Goal
    BY <2>1 DEF ApplyRepairRevision, CompleteRepair, runVars, closedVars, shadowVars, resultVars
  <2>2. ASSUME NEW e, NEW n, BeginRepair(e, n) \/ FailRepair(e, n) \/ ResumeRung(e, n)
        PROVE  Goal
    BY <1>2, <2>2 DEF BeginRepair, FailRepair, ResumeRung
  <2> QED
    BY <1>1, <1>14, <2>1, <2>2 DEF Reserved, Mend, Mended, Commit, Read, Raise
<1> QED
  BY <1>3, <1>4, <1>5, <1>6, <1>7, <1>8, <1>9, <1>10, <1>11, <1>13, <1>14 DEF Work, Drive

\* A closed discovery stays closed: whatever was in flight when the finalist was
\* locked, no hypothesis is created, none is evaluated and no rung that fed the
\* selection is recorded any more.
THEOREM DiscoveryClosed ==
    ASSUME ~StaleTakeover
    PROVE  SupSafety => DiscoveryStaysClosed
<1> DEFINE Quiet == phase # "DISCOVERY" => hypotheses' = hypotheses /\ UNCHANGED closedVars
<1>1. ASSUME Known, SettleInv, EvaluatedInv, [SupNext]_supVars
      PROVE  [Quiet]_supVars
  <2>1. CASE UNCHANGED storeVars
    BY <2>1 DEF storeVars, runVars, closedVars, shadowVars, resultVars
  <2> QED
    BY <1>1, <2>1, ClosedStep DEF SupNext, Expire, supVars
<1>2. SupSafety => []EvaluatedInv
  BY StoreImplemented, EvaluatedKept, PTL DEF ImplementsStore
<1>3. [Quiet]_supVars =>
        [phase # "DISCOVERY" =>
           /\ hypotheses' = hypotheses
           /\ <<shadow, fullResult, cheapResult>>' = <<shadow, fullResult, cheapResult>>]_supVars
  BY DEF closedVars
<1> HIDE DEF Quiet
<1> QED
  BY <1>1, <1>2, <1>3, KnownKept, SettleKept, PTL DEF SupSafety, DiscoveryStaysClosed

=============================================================================
