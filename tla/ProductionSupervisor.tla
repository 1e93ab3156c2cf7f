------------------------- MODULE ProductionSupervisor -------------------------
(***************************************************************************)
(* The controller of a production run, ProductionAutopilot of              *)
(* rex/control/production_supervisor.py, on top of the durable store.      *)
(* Each controller is one operating-system process.  Between two database  *)
(* transactions it may be killed, be interrupted by an exception, or, when *)
(* StaleTakeover is TRUE, lose the run's process session to another        *)
(* controller while it is still working: nothing in the code checks the    *)
(* session before a transaction.                                           *)
(*                                                                         *)
(* A controller reads durable state and runs the transaction it decides on *)
(* in one step whenever the transaction tests what was read again or what  *)
(* was read is stable; what it keeps across transactions is in ctl.        *)
(* Slips are plausible bugs and not part of the model, as in the store.    *)
(***************************************************************************)
EXTENDS ExperimentStore

CONSTANTS
    Controllers,    \* controller processes
    StaleTakeover,  \* whether a live controller's session can go stale
    MaxCrashes,     \* bound on kills and interruptions, for model checking
    Repairable,     \* statuses plan_repair answers with a repair
    Revising,       \* repairable statuses whose repair revises the config
    PartlyReplayed  \* repairable statuses whose repair evidence is read back
                    \* incompletely by _recover_pending_repair_evidence

ASSUME SupervisorAssumption ==
    /\ StaleTakeover \in BOOLEAN
    /\ MaxCrashes \in Nat
    /\ Repairable \subseteq Statuses
    /\ Revising \subseteq Repairable /\ PartlyReplayed \subseteq Repairable
    /\ None \notin Controllers

VARIABLES
    ctl,        \* the local state of each controller
    owner,      \* the controller whose process session is open
    exhausted,  \* experiments whose preparation ran out of patch repairs
    expired,    \* the deadline entered its finalization reserve
    sealed,     \* the champion of the best-valid bundle on disk
    interrupted,\* rungs, with the repairs so far, a worker of which was killed:
                \* INTERRUPTED is that attempt's durable result from then on
    crashes     \* kills and interruptions so far

supVars == <<storeVars, ctl, owner, exhausted, expired, sealed, interrupted, crashes>>

Preparing == {"PROPOSED", "WORKTREE_READY", "PATCHED", "STATIC_VALID"}

\* A slip: every terminal state counts as settled, a failure included.
SettledOrFailed == Terminal

\* The rows _resume_active does not select.
Settled == {"PROMOTED", "REJECTED", "ABANDONED"}

\* What a controller forgets when its process ends.
Fresh == [pc |-> "down", e |-> None, rung |-> None, status |-> None, n |-> 0,
          todo |-> <<>>, seen |-> <<"DISCOVERY", None>>, ret |-> None, reason |-> None]

Steps == {"down", "begin", "baseline", "scan", "next", "prepare", "run", "rung",
          "stored", "failed", "reserved", "resume", "mend", "mended", "loop", "create", "pick", "lock",
          "locked", "finish", "close", "finalize", "seal"}

SupTypeOK ==
    /\ DOMAIN ctl = Controllers
    /\ \A c \in Controllers :
         /\ ctl[c].pc \in Steps
         /\ ctl[c].e \in Exp \cup {None}
         /\ ctl[c].rung \in Rungs \cup {None} /\ ctl[c].status \in Statuses \cup {None}
         /\ ctl[c].n \in 0..MaxRepairs
         /\ DOMAIN ctl[c].todo \subseteq Exp
         /\ ctl[c].seen[1] \in Phases /\ ctl[c].seen[2] \in Exp \cup {None}
         /\ ctl[c].ret \in {"loop", "locked", None}
         /\ ctl[c].reason \in StopReasons \cup {None}
    /\ owner \in Controllers \cup {None}
    /\ exhausted \subseteq Exp
    /\ expired \in BOOLEAN
    /\ sealed \in Exp \cup {None, BaselineId}
    /\ interrupted \subseteq Exp \X Rungs \X (0..MaxRepairs)
    /\ crashes \in 0..MaxCrashes

SupInit ==
    /\ StoreInit
    /\ ctl = [c \in Controllers |-> Fresh]
    /\ owner = None
    /\ exhausted = {}
    /\ expired = FALSE
    /\ sealed = None
    /\ interrupted = {}
    /\ crashes = 0

-----------------------------------------------------------------------------
(* Steps of a controller *)

At(c, pc) == ctl[c].pc = pc
Goto(c, pc) == ctl' = [ctl EXCEPT ![c].pc = pc]

\* run() returns or raises: the finally clause closes the session, unless
\* another controller has already taken it over.
Exit(c) ==
    /\ ctl' = [ctl EXCEPT ![c] = Fresh]
    /\ owner' = IF owner = c THEN None ELSE owner

\* A step that runs one store transaction and continues at pc.
Commit(c, tx, pc) == tx /\ Goto(c, pc) /\ UNCHANGED <<owner, exhausted>>

\* A step that only reads durable state.
Read(c, pc) == Goto(c, pc) /\ UNCHANGED <<storeVars, owner, exhausted>>
Raise(c) == Exit(c) /\ UNCHANGED <<storeVars, exhausted>>

\* _resume_active is called, and then the controller continues at ret.
Rescan(c, ret) ==
    /\ ctl' = [ctl EXCEPT ![c].pc = "scan", ![c].ret = ret]
    /\ UNCHANGED <<storeVars, owner, exhausted>>

-----------------------------------------------------------------------------
(* run(): opening the session and verifying the baseline *)

OpenRun(c) ==
    /\ At(c, "down")
    /\ runState = "ABSENT"
    /\ Commit(c, CreateRun, "down")

\* A dead owner is taken over at once or after the staleness limit; a live one
\* only if its heartbeats stopped.
OpenSession(c) ==
    /\ At(c, "down")
    /\ runState \notin {"ABSENT", "COMPLETE", "BASELINE_BLOCKED"}
    /\ owner \in Controllers => (At(owner, "down") \/ StaleTakeover)
    /\ owner' = c
    /\ Goto(c, "begin")
    /\ UNCHANGED <<storeVars, exhausted>>

OpenCompletedRun(c) ==
    /\ At(c, "down")
    /\ runState = "COMPLETE"
    /\ sealed = None
    /\ Read(c, "finalize")

\* A slip: a restarted search does not look at the experiments it finds.
SearchAnew(c) == runState = "SEARCHING" /\ Read(c, "loop")

ResumeSearch(c) == runState = "SEARCHING" /\ Rescan(c, "loop")

Begin(c) ==
    /\ At(c, "begin")
    /\ \/ Commit(c, TransitionRun("INITIALIZING", "BASELINE_VERIFYING", None), "baseline")
       \/ runState = "BASELINE_VERIFYING" /\ Read(c, "baseline")
       \/ ResumeSearch(c)
       \/ runState = "FINALIZING" /\ Read(c, "close")
       \/ runState \in {"COMPLETE", "BASELINE_BLOCKED"} /\ Raise(c)

\* The verified baseline becomes the champion, in a transaction of its own.
VerifyBaseline(c) ==
    /\ At(c, "baseline")
    /\ \/ champion = None /\ Commit(c, EstablishBaseline, "baseline")
       \/ /\ champion = None
          /\ TransitionRun("BASELINE_VERIFYING", "BASELINE_BLOCKED", "baseline_rejected")
          /\ Exit(c)
          /\ UNCHANGED exhausted
       \/ /\ champion # None
          /\ TransitionRun("BASELINE_VERIFYING", "SEARCHING", None)
          /\ ctl' = [ctl EXCEPT ![c].pc = "scan", ![c].ret = "loop"]
          /\ UNCHANGED <<owner, exhausted>>
       \/ runState # "BASELINE_VERIFYING" /\ Raise(c)

-----------------------------------------------------------------------------
(* _resume_active: the rows are read once, then driven in iteration order *)

Scan(c) ==
    LET active == {e \in 1..hypotheses : state[e] \notin Settled}
    IN  /\ At(c, "scan")
        /\ ctl' = [ctl EXCEPT ![c].pc = "next",
                              ![c].todo = [e \in active |-> state[e]],
                              ![c].seen = <<phase, finalist>>]
        /\ UNCHANGED <<storeVars, owner, exhausted>>

\* One row: an experiment that lost the lock is abandoned, any other is driven on.
DriveRow(c, e) ==
    LET rows == ctl[c].todo
        rest == [x \in DOMAIN rows \ {e} |-> rows[x]]
        Take(pc) == ctl' = [ctl EXCEPT ![c].pc = pc, ![c].e = e, ![c].todo = rest]
    IN  IF /\ ctl[c].seen[1] = "FINALIST_LOCKED"
           /\ rows[e] = "DIAGNOSED"
           /\ e # ctl[c].seen[2]
        THEN \/ AbandonNonFinalist(e, "non-finalist-abandoned")
                /\ Take("next") /\ UNCHANGED owner
             \/ state[e] # "DIAGNOSED" /\ Exit(c) /\ UNCHANGED storeVars
        ELSE /\ Take(IF rows[e] \in Preparing THEN "prepare" ELSE "run")
             /\ UNCHANGED <<storeVars, owner>>

NextRow(c) ==
    LET rows == ctl[c].todo
        done == DOMAIN rows = {} \/ ctl[c].seen[1] = "OFFICIAL_EVALUATED"
    IN  /\ At(c, "next")
        /\ UNCHANGED exhausted
        /\ \/ /\ done
              /\ ctl' = [ctl EXCEPT ![c].pc = ctl[c].ret, ![c].e = None, ![c].todo = <<>>]
              /\ UNCHANGED <<storeVars, owner>>
           \/ /\ ~done
              /\ \E e \in DOMAIN rows : (\A x \in DOMAIN rows : e <= x) /\ DriveRow(c, e)

-----------------------------------------------------------------------------
(* _prepare_candidate and _resume_preparation *)

\* The hypothesis of the next card; its patch transaction either committed a
\* candidate or exhausted its repairs, and its own database says which.
Create(c) ==
    LET e == hypotheses + 1
    IN  /\ At(c, "create")
        /\ IF hypotheses < MaxHypotheses /\ e = ctl[c].e
             THEN /\ CreateExperiment(e)
                  /\ Goto(c, "prepare")
                  /\ exhausted' \in {exhausted, exhausted \cup {e}}
                  /\ UNCHANGED owner
             ELSE Raise(c)

\* ProductionPreparationRejected sends the controller on to the next row.
Prepare(c) ==
    LET e == ctl[c].e
    IN  /\ At(c, "prepare")
        /\ IF e \in exhausted
             THEN \/ Commit(c, AbandonPreparation(e), "next")
                  \/ state[e] # "PROPOSED" /\ Read(c, "next")
             ELSE \/ Commit(c, PrepareStep(e), "prepare")
                  \/ state[e] = "FIXTURE_VALID" /\ Read(c, "run")
                  \/ state[e] \notin Preparing \cup {"FIXTURE_VALID"} /\ Raise(c)

-----------------------------------------------------------------------------
(* _run_candidate: one turn of its loop *)

\* _stored_rung finds the result of a rung.
Stored(e, r) ==
    \/ r = "cheap" /\ cheapResult[e] # None
    \/ r = "full" /\ fullResult[e] # None
    \/ r = "official_valid" /\ officialResult[e] # None

RunShadow(c, e) ==
    \/ /\ phase = "DISCOVERY"
       /\ Commit(c, RecordShadowEvaluation(e, Cardinality(ValidFamilies)), "run")
    \/ /\ shadow[e] = None /\ phase # "DISCOVERY" /\ state[e] = "DIAGNOSED"
       /\ Raise(c)
    \/ Commit(c, RejectFull(e, Cardinality(ValidFamilies)), "next")
    \/ /\ shadow[e] # None /\ shadow[e].supported /\ state[e] = "DIAGNOSED"
       /\ \/ phase \in {"DISCOVERY", "OFFICIAL_EVALUATED"} /\ Read(c, "next")
          \/ /\ phase = "FINALIST_LOCKED"
             /\ \/ Commit(c, AbandonNonFinalist(e, "not-locked-finalist"), "next")
                \/ Commit(c, StartOfficial(e), "run")

RunCandidate(c) ==
    LET e == ctl[c].e
    IN  /\ At(c, "run")
        /\ \/ Commit(c, StartCheap(e), "run")
           \/ Commit(c, CompleteCheap(e), "run")
           \/ Commit(c, RejectCheap(e, Cardinality(ValidFamilies)), "next")
           \/ Commit(c, ReserveFull(e), "run")
           \/ Commit(c, StartFull(e), "run")
           \/ Commit(c, CompleteFull(e), "run")
           \/ Commit(c, Diagnose(e), "run")
           \/ RunShadow(c, e)
           \/ Commit(c, CompleteOfficial(e), "run")
           \/ Commit(c, RejectNonImproving(e), "next")
           \/ Commit(c, PromoteSearchCandidate(e), "next")
           \/ Commit(c, CountFailedTransaction(e), "next")
           \/ /\ state[e] \in Settled \/ (state[e] = "FAILED_FINAL" /\ outcome[e] # None)
              /\ Read(c, "next")
           \/ \E r \in Rungs :
                 /\ state[e] = RunningState(r)
                 /\ ~Stored(e, r)
                 /\ ctl' = [ctl EXCEPT ![c].pc = "rung", ![c].rung = r]
                 /\ UNCHANGED <<storeVars, owner, exhausted>>
           \/ state[e] \in {"FAILED_REPAIRABLE", "REPAIRING"} /\ Read(c, "resume")
           \/ state[e] \in Preparing /\ Raise(c)

-----------------------------------------------------------------------------
(* _complete_rung: the worker ran, or its cached result is replayed.  The rung *)
(* is the controller's own; another one may have moved the experiment on.      *)

StoreRung(e, r) ==
    \/ r = "cheap" /\ \E gate \in {"pass", "fail"} : StoreCheap(e, gate)
    \/ r = "full" /\ \E result \in FullResults : StoreFull(e, result)
    \/ r = "official_valid" /\ \E safe \in BOOLEAN : StoreOfficial(e, safe)

\* Its workers are started, or read back, under the number of repairs so far.
Attempt(e, r) == <<e, r, reserved[e]>>

\* The hook has workers to start: there is nothing stored it could return.
NeedsWorkers(e, r) == ~Stored(e, r) /\ officialMetric[e] = None

\* A failure of an official rung that has already recorded its metrics cannot
\* follow: the hook returns the cached result.  A failure another controller has
\* recorded already, with the same status, is replayed.  The result of a worker
\* that was interrupted is read back by every later attempt at the rung, and
\* plan_repair answers it with RESUME: _handle_failure raises, unless another
\* worker of the rung failed and its status is the one the hook reports.
Rung(c) ==
    LET e == ctl[c].e
        r == ctl[c].rung
        spoiled == Attempt(e, r) \in interrupted
        Failed(status) == ctl' = [ctl EXCEPT ![c].pc = "failed", ![c].status = status,
                                             ![c].n = reserved[e]]
    IN  /\ At(c, "rung")
        /\ \/ ~spoiled /\ Commit(c, StoreRung(e, r), "stored")
           \/ Stored(e, r) /\ Read(c, "stored")
           \/ spoiled /\ NeedsWorkers(e, r) /\ Raise(c)
           \/ /\ r = "official_valid" /\ ~spoiled
              /\ \E primary \in Scores : Commit(c, RecordOfficialMetrics(e, primary), "rung")
           \/ /\ NeedsWorkers(e, r)
              /\ UNCHANGED exhausted
              /\ \/ \E status \in Statuses :
                       FailRung(e, r, status, reserved[e]) /\ Failed(status) /\ UNCHANGED owner
                 \/ /\ RungKey("failure", r, reserved[e]) \in journal[e]
                    /\ Failed(failure[e].status)
                    /\ UNCHANGED <<storeVars, owner>>
                 \/ state[e] # RunningState(r) /\ Exit(c) /\ UNCHANGED storeVars

CompletionKey(r) == Key(CASE r = "cheap" -> "cheap-complete"
                          [] r = "full" -> "full-complete"
                          [] r = "official_valid" -> "official-valid-complete")

\* The transition that follows a rung that was run.
Complete(c) ==
    LET e == ctl[c].e
        r == ctl[c].rung
        replayed == CompletionKey(r) \in journal[e]
        Continue == ctl' = [ctl EXCEPT ![c].pc = "run", ![c].rung = None]
    IN  /\ At(c, "stored")
        /\ UNCHANGED exhausted
        /\ \/ /\ \/ r = "cheap" /\ CompleteCheap(e)
                 \/ r = "full" /\ CompleteFull(e)
                 \/ r = "official_valid" /\ CompleteOfficial(e)
              /\ Continue /\ UNCHANGED owner
           \/ replayed /\ Continue /\ UNCHANGED <<storeVars, owner>>
           \/ ~replayed /\ state[e] # RunningState(r) /\ Exit(c) /\ UNCHANGED storeVars

-----------------------------------------------------------------------------
(* _handle_failure, _resume_repair and _execute_repair.  A transaction       *)
(* repeated with the key and the payload of an earlier one changes nothing.  *)

\* reserve_experiment_repair hands out the incomplete reservation again, if it
\* was made for the same failure.
Reserve(c, e, cause) ==
    LET Holding(number) == ctl' = [ctl EXCEPT ![c].pc = "reserved", ![c].n = number,
                                              ![c].rung = None, ![c].status = None]
    IN  /\ UNCHANGED exhausted
        /\ \/ /\ ReserveRepair(e, cause)
              /\ Holding(reserved[e] + 1) /\ UNCHANGED owner
           \/ /\ Incomplete(e) # {} /\ repairFor[e][reserved[e]] = cause
              /\ Holding(reserved[e]) /\ UNCHANGED <<storeVars, owner>>
           \/ /\ IF Incomplete(e) = {} THEN ~AllowanceLeft(e)
                                        ELSE repairFor[e][reserved[e]] # cause
              /\ Raise(c)

\* plan_repair, given the repairs used when the rung failed.
ActOnPlan(c, e, cause, used) ==
    IF cause.status \in Repairable /\ used < MaxRepairs
      THEN Reserve(c, e, cause)
      ELSE LET replayed == RungKey("failed-final", cause.rung, used) \in journal[e]
               Continue == ctl' = [ctl EXCEPT ![c].pc = "run", ![c].n = 0, ![c].rung = None,
                                              ![c].status = None]
           IN  /\ UNCHANGED exhausted
               /\ \/ FailFinal(e, cause.rung, used) /\ Continue /\ UNCHANGED owner
                  \/ replayed /\ Continue /\ UNCHANGED <<storeVars, owner>>
                  \/ ~replayed /\ state[e] # "FAILED_REPAIRABLE" /\ Raise(c)

HandleFailure(c) ==
    /\ At(c, "failed")
    /\ ActOnPlan(c, ctl[c].e, [rung |-> ctl[c].rung, status |-> ctl[c].status], ctl[c].n)

Reserved(c) ==
    LET e == ctl[c].e
        replayed == RepairKey("repairing", ctl[c].n) \in journal[e]
    IN  /\ At(c, "reserved")
        /\ \/ Commit(c, BeginRepair(e, ctl[c].n), "mend")
           \/ replayed /\ Read(c, "mend")
           \/ ~replayed /\ state[e] # "FAILED_REPAIRABLE" /\ Raise(c)


LatestReservation(e) == reserved[e]

\* The latest reservation is resumed, complete or not; its "repairing"
\* transition carries the rung that failed last, so a reservation made for
\* another rung cannot be repeated.
ResumeRepair(c) ==
    LET e == ctl[c].e
        number == LatestReservation(e)
        replayed == RepairKey("repairing", number) \in journal[e]
        Resume(pc) == /\ ctl' = [ctl EXCEPT ![c].pc = pc, ![c].n = number]
                      /\ UNCHANGED <<storeVars, owner, exhausted>>
    IN  /\ At(c, "resume")
        /\ \/ number = 0 /\ ActOnPlan(c, e, failure[e], 0)
           \/ /\ number > 0
              /\ IF /\ state[e] = "FAILED_REPAIRABLE" /\ replayed
                    /\ repairFor[e][number].rung # failure[e].rung
                   THEN Raise(c)
                   ELSE Resume(IF state[e] = "FAILED_REPAIRABLE" THEN "reserved" ELSE "mend")

\* The repair hook fails before it has produced evidence, or not at all.  A
\* completion repeated with less evidence than it was recorded with is refused,
\* and the handler takes that for a failed repair.
Mend(c) ==
    LET e == ctl[c].e
        number == ctl[c].n
        cause == repairFor[e][number].status
        done == number \in repairDone[e]
        fails == IF done THEN cause \in PartlyReplayed ELSE number \notin revised[e]
    IN  /\ At(c, "mend")
        /\ \/ /\ ~done /\ cause \in Revising
              /\ Commit(c, ApplyRepairRevision(e, number), "mend")
           \/ /\ ~done /\ (number \in revised[e] \/ cause \notin Revising)
              /\ Commit(c, CompleteRepair(e, number), "mended")
           \/ done /\ cause \notin PartlyReplayed /\ Read(c, "mended")
           \/ /\ fails
              /\ \/ Commit(c, FailRepair(e, number), "run")
                 \/ state[e] # "REPAIRING" /\ Raise(c)

Mended(c) ==
    LET e == ctl[c].e
        replayed == RepairKey("completed", ctl[c].n) \in journal[e]
    IN  /\ At(c, "mended")
        /\ \/ Commit(c, ResumeRung(e, ctl[c].n), "run")
           \/ replayed /\ Read(c, "run")
           \/ ~replayed /\ state[e] # "REPAIRING" /\ Raise(c)

-----------------------------------------------------------------------------
(* The search loop of run() *)

\* A slip: the plateau is judged by the streak, not by what was recorded, and the
\* end of the queue is not noticed.
StopReasonByStreak ==
    CASE streak >= Patience -> "epsilon_plateau"
      [] hypotheses >= MaxHypotheses -> "hypothesis_cap"
      [] expired -> "finalization_reserve_reached"
      [] OTHER -> None

\* _stop_reason, on the run row read by the loop.
StopReasonNow ==
    CASE stopReason = "epsilon_plateau" /\ Cardinality(ValidFamilies) >= MinFamilies
           -> "epsilon_plateau"
      [] hypotheses >= MaxHypotheses -> "hypothesis_cap"
      [] officialCount >= MaxOfficial -> "official_evaluation_cap"
      [] expired -> "finalization_reserve_reached"
      [] hypotheses = NumCards -> "eligible_method_queue_exhausted"
      [] OTHER -> None

Finish(c, reason) ==
    /\ ctl' = [ctl EXCEPT ![c].pc = "finish", ![c].reason = reason]
    /\ UNCHANGED <<storeVars, owner, exhausted>>

SearchLoop(c) ==
    /\ At(c, "loop")
    /\ \/ /\ phase = "OFFICIAL_EVALUATED"
          /\ Finish(c, IF stopReason = None THEN "official_finalist_evaluated"
                                            ELSE stopReason)
       \/ phase = "FINALIST_LOCKED" /\ Rescan(c, "locked")
       \/ /\ phase = "DISCOVERY"
          /\ IF StopReasonNow # None
               THEN /\ ctl' = [ctl EXCEPT ![c].pc = "pick", ![c].reason = StopReasonNow]
                    /\ UNCHANGED <<storeVars, owner, exhausted>>
               ELSE /\ ctl' = [ctl EXCEPT ![c].pc = "create", ![c].e = hypotheses + 1]
                    /\ UNCHANGED <<storeVars, owner, exhausted>>

\* A slip: the last candidate is selected.
LastCandidate(candidates) == {e \in candidates : \A x \in candidates : x <= e}

\* The durable champion if it is among them, else the best score, the later one
\* of two.
Selected(candidates) ==
    IF shadowChampion \in candidates
      THEN {shadowChampion}
      ELSE {e \in candidates : \A x \in candidates :
             \/ fullResult[x].primary < fullResult[e].primary
             \/ fullResult[x].primary = fullResult[e].primary /\ x <= e}

\* _lock_shadow_finalist reads the champion and the diagnosed candidates first
\* and locks in a later transaction.
PickFinalist(c) ==
    LET candidates == {e \in 1..hypotheses :
                         state[e] = "DIAGNOSED" /\ fullResult[e] # None}
    IN  /\ At(c, "pick")
        /\ \/ phase = "FINALIST_LOCKED" /\ Rescan(c, "loop")
           \/ phase = "OFFICIAL_EVALUATED" /\ Read(c, "finish")
           \/ /\ phase = "DISCOVERY"
              /\ IF candidates = {}
                   THEN Read(c, "finish")
                   ELSE /\ \E e \in Selected(candidates) :
                             ctl' = [ctl EXCEPT ![c].pc = "lock", ![c].e = e]
                        /\ UNCHANGED <<storeVars, owner, exhausted>>

Lock(c) ==
    LET e == ctl[c].e
    IN  /\ At(c, "lock")
        /\ IF phase = "DISCOVERY"
             THEN \/ /\ LockFinalist(e)
                     /\ ctl' = [ctl EXCEPT ![c].pc = "scan", ![c].ret = "loop"]
                     /\ UNCHANGED <<owner, exhausted>>
                  \/ state[e] # "DIAGNOSED" /\ Raise(c)
             ELSE IF finalist = e THEN Rescan(c, "loop") ELSE Raise(c)

\* After the locked finalist was driven as far as it goes.
AfterFinalist(c) ==
    /\ At(c, "locked")
    /\ \/ phase = "OFFICIAL_EVALUATED" /\ Read(c, "loop")
       \/ /\ phase # "OFFICIAL_EVALUATED"
          /\ IF state[finalist] = "FAILED_FINAL"
               THEN Finish(c, "locked_official_finalist_failed")
               ELSE Raise(c)

-----------------------------------------------------------------------------
(* Finalization: the session closes first, then _finalize *)

CloseSearch(c) ==
    /\ At(c, "finish")
    /\ \/ Commit(c, TransitionRun("SEARCHING", "FINALIZING", ctl[c].reason), "close")
       \/ runState # "SEARCHING" /\ Raise(c)

CloseSession(c) ==
    /\ At(c, "close")
    /\ IF owner = c
         THEN Goto(c, "finalize") /\ owner' = None /\ UNCHANGED <<storeVars, exhausted>>
         ELSE Raise(c)

Finalize(c) ==
    /\ At(c, "finalize")
    /\ \/ Commit(c, TransitionRun("FINALIZING", "COMPLETE", None), "seal")
       \/ runState = "COMPLETE" /\ Read(c, "seal")

\* A slip: the bundle is made of the evaluated finalist.
SealFinalist(c) ==
    /\ At(c, "seal")
    /\ sealed' = IF finalist = None THEN champion ELSE finalist
    /\ Exit(c)
    /\ UNCHANGED <<storeVars, exhausted>>

\* build_report and _create_best_valid
Seal(c) ==
    /\ At(c, "seal")
    /\ sealed' = champion
    /\ Exit(c)
    /\ UNCHANGED <<storeVars, exhausted>>

-----------------------------------------------------------------------------
(* The environment *)

\* SIGKILL, power loss: the session row stays open.
Crash(c) ==
    /\ ~At(c, "down")
    /\ crashes < MaxCrashes
    /\ crashes' = crashes + 1
    /\ ctl' = [ctl EXCEPT ![c] = Fresh]
    /\ UNCHANGED <<storeVars, owner, exhausted, expired, sealed, interrupted>>

\* The attempt a controller has workers running for is spoiled.
KillWorker(c) ==
    /\ At(c, "rung") /\ NeedsWorkers(ctl[c].e, ctl[c].rung)
    /\ interrupted' = interrupted \cup {Attempt(ctl[c].e, ctl[c].rung)}

\* Any exception, a worker that was killed from outside among them: the session
\* is closed.
Interrupt(c) ==
    /\ ~At(c, "down")
    /\ crashes < MaxCrashes
    /\ crashes' = crashes + 1
    /\ Exit(c)
    /\ UNCHANGED interrupted \/ KillWorker(c)
    /\ UNCHANGED <<storeVars, exhausted, expired, sealed>>

Expire ==
    /\ ~expired
    /\ expired' = TRUE
    /\ UNCHANGED <<storeVars, ctl, owner, exhausted, sealed, interrupted, crashes>>

Launch(c) == OpenRun(c) \/ OpenSession(c) \/ OpenCompletedRun(c)

Drive(c) ==
    \/ Begin(c) \/ VerifyBaseline(c) \/ Scan(c) \/ NextRow(c) \/ Create(c) \/ Prepare(c)
    \/ RunCandidate(c) \/ Rung(c) \/ Complete(c)
    \/ HandleFailure(c) \/ Reserved(c) \/ ResumeRepair(c) \/ Mend(c) \/ Mended(c)
    \/ SearchLoop(c) \/ PickFinalist(c) \/ Lock(c) \/ AfterFinalist(c)
    \/ CloseSearch(c) \/ CloseSession(c) \/ Finalize(c)

Work(c) ==
    \/ (Launch(c) \/ Drive(c)) /\ UNCHANGED <<expired, sealed, interrupted, crashes>>
    \/ Seal(c) /\ UNCHANGED <<expired, interrupted, crashes>>

SupNext ==
    \/ \E c \in Controllers : Work(c) \/ Crash(c) \/ Interrupt(c)
    \/ Expire

SupSafety == SupInit /\ [][SupNext]_supVars

\* A controller that can take a step takes one, and an unfinished run is
\* resumed; kills, interruptions and the deadline are not forced.
SupSpec == SupSafety /\ \A c \in Controllers : WF_supVars(Work(c))

=============================================================================
