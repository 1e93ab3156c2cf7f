----------------------------- MODULE ExecuteRequest -----------------------------
(***************************************************************************)
(* execute_request of rex/execution/runner.py: the deployment chooses, by  *)
(* REX_PRODUCTION_RUNTIME and the sandbox mode, whether an attempt's       *)
(* worker is a container or a process group.                               *)
(***************************************************************************)
EXTENDS ContainerAttempt, ProcessAttempt

VARIABLE runtime

executeVars == <<containerVars, markerVars, hostProcesses, runtime>>

ExecuteInit ==
    /\ ContainerInit /\ ProcessInit
    /\ runtime \in {"docker", "native"}

InContainer == runtime = "docker" /\ UNCHANGED <<markerVars, hostProcesses, runtime>>
InProcess == runtime = "native" /\ UNCHANGED <<hostVars, workVars, runtime>>

ExecuteNext == (InContainer /\ ContainerNext) \/ (InProcess /\ ProcessNext)

\* A runner that can take a step takes one, and a controller that is resumed
\* calls again; the wrapper's deadline passes.  Workers promise nothing.
ExecuteSpec ==
    /\ ExecuteInit /\ [][ExecuteNext]_executeVars
    /\ WF_executeVars(InContainer /\ \E r \in Runners : RunnerStep(r))
    /\ WF_executeVars(InProcess /\ \E r \in Runners : NativeStep(r))
    /\ \A i \in Workers : WF_executeVars(InProcess /\ GiveUp(i))

-------------------------------------------------------------------------------
(* One type invariant for both.                                            *)
ExecuteTypeOK ==
    /\ runtime = "docker" => ContainerTypeOK
    /\ runtime = "native" => ProcessTypeOK

\* A container that runs, or ran, is named by the attempt's lease or by the
\* archive, and one that runs by the lease itself: whoever resumes the attempt
\* can find it, wherever the earlier controller was killed.
EveryRunIsRecorded ==
    \A i \in Workers :
      /\ Running(i) => lease # None /\ lease.worker = i
      /\ container[i].exit # None => i \in archive \/ (lease # None /\ lease.worker = i)

\* Once every caller has its answer no worker is left running that any lease
\* was written for.
NothingLeftRunning ==
    Concluded => \A i \in Workers : ~Running(i) /\ ~(process[i].leased /\ Led(i))

\* No worker is lost, while the attempt is under way or after it.
NoOrphans == EveryRunIsRecorded /\ NothingLeftRunning

\* A container that ended well is removed only when the attempt has a result of
\* this very worker that later calls will replay, unless the runner that removes
\* it saw its time run out.
FinishedWorkIsKept ==
    [][\A i \in Workers :
         container[i].exit = "ok" /\ container[i].state = "exited" /\ container'[i].state = "removed"
           => (whole /\ result.worker = i) \/ \E r \in Runners : ctl[r].seen = "timeout"]_executeVars

\* With containers the attempt is a durable attempt, of which only a daemon or a
\* disk that fails, or a container that is pruned, can undo the result: kills of
\* controllers and workers, timeouts and concurrent calls do not.
Durable == INSTANCE DurableAttempt WITH
    AttemptWorkers <- Workers, AttemptResults <- Results, NoResult <- None,
    live <- {i \in Workers : Running(i)},
    outcome <- IF runtime = "docker" /\ whole THEN result ELSE None,
    trouble <- disturbed
AttemptIsDurable == Durable!AttemptSpec

\* Of the process groups a lease was written for at most one has its leader.
OneLeasedWorker ==
    \A i, j \in Workers :
      process[i].leased /\ Led(i) /\ process[j].leased /\ Led(j) => i = j

\* A worker whose lease was never written starts only when the gate of a later
\* launch lets it through.
NoUnleasedWork ==
    \A i \in Workers :
      process[i].state = "working" /\ ~process[i].leased
        => \E j \in Workers : j > i /\ process[j].leased

\* Orphan recovery never signals a program that merely has the worker's pid.
StrangersAreSafe == ~stranger.hit

\* What the leases of process groups are for: one worker at a time, none without
\* a lease, and no other program's pid taken for a worker's.
LeasesHold == ExecuteTypeOK /\ OneLeasedWorker /\ NoUnleasedWork /\ StrangersAreSafe

\* A worker with a lease ends although it promises nothing and its controller
\* may have been killed: somebody times it out or reaps it.
LeasedWorkEnds ==
    \A i \in Workers : (process[i].leased /\ Led(i)) \/ Running(i) ~> ~Led(i) /\ ~Running(i)

\* Every caller gets an answer, and no worker with a lease outlives the attempt.
AttemptConcludes == <>[]Concluded /\ LeasedWorkEnds

================================================================================
