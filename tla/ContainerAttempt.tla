---------------------------- MODULE ContainerAttempt ----------------------------
(***************************************************************************)
(* An attempt whose worker is a Docker container: _docker_worker_request   *)
(* of rex/execution/runner.py with DockerExecutionRuntime of               *)
(* rex/execution/runtime_docker.py and the lease of docker_lease.py.       *)
(*                                                                         *)
(* The container's name is a function of the request, so that the daemon   *)
(* refuses a second container of the attempt while one exists.  The        *)
(* contents of mounts, labels, logs and images are left out: the checks on *)
(* them fail before anything is launched or not at all.                    *)
(***************************************************************************)
EXTENDS AttemptDirectory

Exits == {"ok", "failed", "oom", "killed"}
ContainerStates == {"none", "created", "running", "exited", "removed", "disposed", "pruned"}
Open == {"created", "active"}
Leases == [worker : Workers, state : Open \cup {"closed", "recovered"},
           failed : BOOLEAN]
Outcomes == {"success", "failed", "oom", "timeout", "interrupted"}

ASSUME ContainerAssumption == None \notin Leases /\ None \notin Exits \cup Outcomes

VARIABLES
    container,    \* the daemon's containers, in the order of their creation
    lease,        \* worker_lease.json
    archive,      \* lease-archive: the workers whose lease was put there
    reservation,  \* the output reservation beside the lease
    output,       \* .rex-worker-result.json: who wrote it
    over,         \* the files under /output exceed their budget
    whole,        \* result.json is there and the files it lists are as it lists them
    disturbed     \* a container was pruned, or the daemon or the disk failed a runner

replayVars == <<whole, disturbed>>
hostVars == <<lease, archive, reservation, replayVars>>
workVars == <<container, output, over>>
containerVars == <<dirVars, hostVars, workVars>>

ContainerPoints == {"away", "done", "open", "recover", "terminate", "reclose", "status",
                    "recollect", "judge", "discard", "archive", "release",
                    "forget", "reserve", "create", "lease", "start", "mark",
                    "dispose", "collect", "persist", "cleanup", "drop", "tidy"}

ContainerTypeOK ==
    /\ ctl \in [Runners -> [pc : ContainerPoints, worker : Workers \cup {None},
                            seen : Outcomes \cup {None}]]
    /\ lock \in Runners \cup {None}
    /\ result \in Results \cup {None}
    /\ faults \in 0..MaxFaults
    /\ container \in [Workers -> [state : ContainerStates, exit : Exits \cup {None}]]
    /\ lease \in Leases \cup {None}
    /\ archive \subseteq Workers
    /\ reservation \in BOOLEAN /\ over \in BOOLEAN
    /\ whole \in BOOLEAN /\ disturbed \in BOOLEAN
    /\ output \in Workers \cup {None}

ContainerInit ==
    /\ DirInit
    /\ container = [i \in Workers |-> [state |-> "none", exit |-> None]]
    /\ lease = None /\ archive = {} /\ reservation = FALSE
    /\ output = None /\ over = FALSE
    /\ whole = FALSE /\ disturbed = FALSE

Present(i) == container[i].state \in {"created", "running", "exited"}
Running(i) == container[i].state = "running"

\* docker stop, then docker kill: whatever runs does not run any more.
Stopped(i) == IF Running(i)
              THEN [container EXCEPT ![i] = [state |-> "exited", exit |-> "killed"]]
              ELSE container

\* docker wait returns at once when the container does not run, with the exit
\* code 0 when it was never started.
Outcome(i, seen) ==
    IF container[i].exit = "oom" THEN "oom"
    ELSE IF seen = "timeout" THEN "timeout"
    ELSE CASE container[i].exit = "killed" -> "interrupted"
           [] container[i].exit = "failed" -> "failed"
           [] OTHER                        -> "success"

\* The handler of every error writes its text to stderr.log, which result.json
\* lists with its hash: no later call replays a result that is on disk by then.
Fail(r) == Answer(r) /\ whole' = FALSE /\ UNCHANGED disturbed

CloseLease == IF lease.state \in Open THEN [lease EXCEPT !.state = "closed"] ELSE lease

-------------------------------------------------------------------------------
(* The worker and the daemon.                                              *)

\* worker.main writes its result with an atomic replace ...
WriteOutput(i) ==
    /\ Running(i) /\ output # i
    /\ output' = i
    /\ UNCHANGED <<dirVars, hostVars, container, over>>

\* ... and ends; it may also be killed, or crash before that.
Exit(i, code) ==
    /\ Running(i)
    /\ code = "ok" => output = i
    /\ container' = [container EXCEPT ![i] = [state |-> "exited", exit |-> code]]
    /\ UNCHANGED <<dirVars, hostVars, output, over>>

Overflow(i) ==
    /\ Running(i) /\ ~over /\ faults < MaxFaults
    /\ over' = TRUE /\ faults' = faults + 1
    /\ UNCHANGED <<ctl, lock, result, hostVars, container, output>>

\* Somebody prunes the daemon's stopped containers.
Prune(i) ==
    /\ container[i].state \in {"created", "exited"} /\ faults < MaxFaults
    /\ container' = [container EXCEPT ![i].state = "pruned"]
    /\ faults' = faults + 1 /\ disturbed' = TRUE
    /\ UNCHANGED <<ctl, lock, result, lease, archive, reservation, whole, output, over>>

-------------------------------------------------------------------------------
(* Recovery of what an earlier runner left.                                *)

OpenDirectory(r) ==
    /\ At(r, "open")
    /\ IF lease # None
       THEN ctl' = [ctl EXCEPT ![r].pc = "recover", ![r].worker = lease.worker] /\ UNCHANGED lock
       ELSE IF whole THEN Answer(r)
       ELSE Goto(r, "reserve") /\ UNCHANGED lock
    /\ UNCHANGED <<result, faults, hostVars, workVars>>

\* recover(): an open lease must name a container that exists.
Recover(r) ==
    /\ At(r, "recover")
    /\ LET i == ctl[r].worker
       IN  IF lease.state \in Open /\ ~Present(i) THEN Fail(r)
           ELSE /\ Goto(r, CASE lease.state \notin Open -> "status"
                             [] lease.state \in Open /\ Running(i) -> "terminate"
                             [] OTHER -> "reclose")
                /\ UNCHANGED <<lock, replayVars>>
    /\ UNCHANGED <<result, faults, lease, archive, reservation, workVars>>

Terminate(r) ==
    /\ At(r, "terminate")
    /\ container' = Stopped(ctl[r].worker)
    /\ Goto(r, "reclose")
    /\ UNCHANGED <<lock, result, faults, hostVars, output, over>>

CloseRecovered(r) ==
    /\ At(r, "reclose")
    /\ lease' = [lease EXCEPT !.state = "recovered"]
    /\ Goto(r, "status")
    /\ UNCHANGED <<lock, result, faults, archive, reservation, replayVars, workVars>>

\* The container of a closed lease may be gone; otherwise it is collected.
InspectPrior(r) ==
    /\ At(r, "status")
    /\ IF Present(ctl[r].worker) THEN Goto(r, "recollect") /\ UNCHANGED lock
       ELSE IF whole THEN Answer(r)
       ELSE Goto(r, "archive") /\ UNCHANGED lock
    /\ UNCHANGED <<result, faults, hostVars, workVars>>

\* reuse_completed_result, when there is no result to replay.
Reusable(r) == output # None /\ ctl[r].seen \notin {"timeout", "oom", "interrupted"}

\* A slip: the durable result is not consulted after recovery.
JudgeAgain(r) ==
    /\ At(r, "judge")
    /\ Goto(r, IF Reusable(r) THEN "persist" ELSE "discard")
    /\ UNCHANGED <<lock, result, faults, hostVars, workVars>>

JudgePrior(r) ==
    /\ At(r, "judge")
    /\ Goto(r, IF whole THEN "tidy" ELSE IF Reusable(r) THEN "persist" ELSE "discard")
    /\ UNCHANGED <<lock, result, faults, hostVars, workVars>>

\* archive_closed_docker_lease keeps the lease as evidence ...
Archive(r) ==
    /\ At(r, "archive")
    /\ archive' = archive \cup {lease.worker}
    /\ Goto(r, "release")
    /\ UNCHANGED <<lock, result, faults, lease, reservation, replayVars, workVars>>

\* ... before it frees the lease's path.
Release(r) ==
    /\ At(r, "release")
    /\ lease' = None /\ reservation' = FALSE
    /\ Goto(r, "forget")
    /\ UNCHANGED <<lock, result, faults, archive, replayVars, workVars>>

ForgetOutput(r) ==
    /\ At(r, "forget")
    /\ output' = None
    /\ Goto(r, "reserve")
    /\ UNCHANGED <<lock, result, faults, hostVars, container, over>>

-------------------------------------------------------------------------------
(* launch.                                                                 *)

\* A reservation that exists, and an output over its budget, are refused.
Reserve(r) ==
    /\ At(r, "reserve")
    /\ IF reservation \/ over THEN Fail(r) /\ UNCHANGED reservation
       ELSE reservation' = TRUE /\ Goto(r, "create") /\ UNCHANGED <<lock, replayVars>>
    /\ UNCHANGED <<result, faults, lease, archive, workVars>>

\* The name is the attempt's, and the daemon refuses one that exists.
NameTaken == \E i \in Workers : Present(i)

Creates(i) ==
    /\ container[i].state = "none"
    /\ \A j \in 1..(i - 1) : container[j].state # "none"
    /\ container' = [container EXCEPT ![i].state = "created"]

Create(r) ==
    /\ At(r, "create")
    /\ IF NameTaken
       THEN reservation' = FALSE /\ Fail(r) /\ UNCHANGED container
       ELSE \E i \in Workers :
              /\ Creates(i)
              /\ ctl' = [ctl EXCEPT ![r] = [pc |-> "lease", worker |-> i, seen |-> None]]
              /\ UNCHANGED <<lock, reservation, replayVars>>
    /\ UNCHANGED <<result, faults, lease, archive, output, over>>

\* A slip: the container is started before its lease is on disk.
StartUnleased(r) ==
    /\ At(r, "lease")
    /\ IF container[ctl[r].worker].state = "created"
       THEN /\ container' = [container EXCEPT ![ctl[r].worker].state = "running"]
            /\ UNCHANGED <<ctl, lease>>
       ELSE /\ lease' = [worker |-> ctl[r].worker, state |-> "created", failed |-> FALSE]
            /\ Goto(r, "mark") /\ UNCHANGED container
    /\ UNCHANGED <<lock, result, faults, archive, reservation, replayVars, output, over>>

PersistLease(r) ==
    /\ At(r, "lease")
    /\ lease' = [worker |-> ctl[r].worker, state |-> "created", failed |-> FALSE]
    /\ Goto(r, "start")
    /\ UNCHANGED <<lock, result, faults, archive, reservation, replayVars, workVars>>

Start(r) ==
    /\ At(r, "start")
    /\ container[ctl[r].worker].state = "created"
    /\ container' = [container EXCEPT ![ctl[r].worker].state = "running"]
    /\ Goto(r, "mark")
    /\ UNCHANGED <<lock, result, faults, hostVars, output, over>>

MarkStarted(r) ==
    /\ At(r, "mark")
    /\ lease' = [lease EXCEPT !.state = "active"]
    /\ Goto(r, "collect")
    /\ UNCHANGED <<lock, result, faults, archive, reservation, replayVars, workVars>>

\* launch's except: the lease, if it was written, is closed, and the container
\* removed by force.
Abandon(r) ==
    /\ lease' = IF At(r, "lease") THEN lease ELSE [lease EXCEPT !.state = "closed", !.failed = TRUE]
    /\ reservation' = FALSE
    /\ Goto(r, "dispose")
    /\ UNCHANGED <<lock, result, archive, replayVars, workVars>>

\* The container that was created is not the one that was asked for.
VerificationFails(r) ==
    /\ At(r, "lease")
    /\ faults < MaxFaults /\ faults' = faults + 1
    /\ Abandon(r)

LaunchFails(r) ==
    /\ At(r, "start") \/ At(r, "mark")
    /\ faults < MaxFaults /\ faults' = faults + 1
    /\ Abandon(r)

StartNothing(r) ==
    /\ At(r, "start") /\ ~Present(ctl[r].worker)
    /\ Abandon(r)
    /\ UNCHANGED faults

Dispose(r) ==
    /\ At(r, "dispose")
    /\ container' = IF Present(ctl[r].worker)
                    THEN [container EXCEPT ![ctl[r].worker].state = "disposed"] ELSE container
    /\ Fail(r)
    /\ UNCHANGED <<result, faults, lease, archive, reservation, output, over>>

-------------------------------------------------------------------------------
(* collect and what follows it.                                            *)

Collecting(r) == At(r, "collect") \/ At(r, "recollect")

\* The wall-clock limit passes; the worker may have ended, or end, by itself.
Expire(r) ==
    /\ Collecting(r) /\ Present(ctl[r].worker) /\ ctl[r].seen = None
    /\ ctl' = [ctl EXCEPT ![r].seen = "timeout"]
    /\ UNCHANGED <<lock, result, faults, hostVars, workVars>>

StopExpired(r) ==
    /\ Collecting(r) /\ ctl[r].seen = "timeout" /\ Running(ctl[r].worker)
    /\ container' = Stopped(ctl[r].worker)
    /\ UNCHANGED <<dirVars, hostVars, output, over>>

\* A slip: the container is removed before the result is on disk.
CollectAndCleanUp(r) ==
    /\ Collecting(r) /\ Present(ctl[r].worker) /\ ~Running(ctl[r].worker) /\ ~over
    /\ lease' = CloseLease
    /\ reservation' = FALSE
    /\ ctl' = [ctl EXCEPT ![r].seen = Outcome(ctl[r].worker, @), ![r].pc = "cleanup"]
    /\ UNCHANGED <<lock, result, faults, archive, replayVars, workVars>>

Collect(r) ==
    /\ Collecting(r) /\ Present(ctl[r].worker) /\ ~Running(ctl[r].worker) /\ ~over
    /\ lease' = CloseLease
    /\ reservation' = FALSE
    /\ ctl' = [ctl EXCEPT ![r].seen = Outcome(ctl[r].worker, @),
                          ![r].pc = IF @ = "collect" THEN "persist" ELSE "judge"]
    /\ UNCHANGED <<lock, result, faults, archive, replayVars, workVars>>

CollectOverBudget(r) ==
    /\ Collecting(r) /\ Present(ctl[r].worker) /\ over
    /\ container' = Stopped(ctl[r].worker)
    /\ lease' = CloseLease
    /\ reservation' = FALSE
    /\ Fail(r)
    /\ UNCHANGED <<result, faults, archive, output, over>>

\* A slip: a container that is gone is waited for.
CollectForever(r) ==
    /\ Collecting(r) /\ ~Present(ctl[r].worker)
    /\ UNCHANGED containerVars

CollectNothing(r) ==
    /\ Collecting(r) /\ ~Present(ctl[r].worker)
    /\ Fail(r)
    /\ UNCHANGED <<result, faults, lease, archive, reservation, workVars>>

\* What the worker wrote is the result unless time or memory ended it.
PersistResult(r) ==
    /\ At(r, "persist")
    /\ result' = [worker |-> ctl[r].worker,
                  writer |-> IF ctl[r].seen \in {"timeout", "oom"} THEN None ELSE output]
    /\ whole' = TRUE
    /\ Goto(r, "cleanup")
    /\ UNCHANGED <<lock, faults, lease, archive, reservation, disturbed, workVars>>

\* cleanup(), before a relaunch, after the result or on its replay.
Cleanup(r) ==
    /\ ctl[r].pc \in {"discard", "cleanup", "tidy"}
    /\ LET i == ctl[r].worker
       IN  IF Present(i) /\ ~Running(i)
           THEN /\ container' = [container EXCEPT ![i].state = "removed"]
                /\ reservation' = FALSE /\ UNCHANGED replayVars
                /\ CASE At(r, "discard") -> Goto(r, "archive") /\ UNCHANGED lock
                     [] At(r, "cleanup") -> Goto(r, "drop") /\ UNCHANGED lock
                     [] At(r, "tidy")    -> Answer(r)
           ELSE Fail(r) /\ UNCHANGED <<container, reservation>>
    /\ UNCHANGED <<result, faults, lease, archive, output, over>>

DropOutput(r) ==
    /\ At(r, "drop")
    /\ output' = None
    /\ Answer(r)
    /\ UNCHANGED <<result, faults, hostVars, container, over>>

-------------------------------------------------------------------------------
(* What goes wrong around a runner.                                        *)

\* The daemon refuses, a file cannot be written or a check on the request's
\* files fails, at a moment when no worker is at work.
ServiceFails(r) ==
    /\ ctl[r].pc \notin {"away", "done", "lease", "start", "mark", "dispose"}
    /\ \A i \in Workers : ~Running(i)
    /\ faults < MaxFaults /\ faults' = faults + 1
    /\ Answer(r) /\ whole' = FALSE /\ disturbed' = TRUE
    /\ reservation' = (reservation /\ ~At(r, "create"))
    /\ UNCHANGED <<result, lease, archive, workVars>>

\* The logs are written before the result: a runner killed in between may leave
\* the very logs that an earlier result of this worker lists.
KillContainerRunner(r) ==
    /\ KillRunner(r)
    /\ whole' \in {whole} \cup
         IF At(r, "persist") /\ result # None /\ result.worker = ctl[r].worker THEN {TRUE} ELSE {}
    /\ UNCHANGED <<lease, archive, reservation, disturbed, workVars>>

-------------------------------------------------------------------------------
RunnerStep(r) ==
    \/ (Acquire(r) \/ Conflict(r)) /\ UNCHANGED <<hostVars, workVars>>
    \/ OpenDirectory(r) \/ Recover(r) \/ Terminate(r) \/ CloseRecovered(r)
    \/ InspectPrior(r) \/ JudgePrior(r) \/ Archive(r) \/ Release(r) \/ ForgetOutput(r)
    \/ Reserve(r) \/ Create(r) \/ PersistLease(r) \/ Start(r) \/ MarkStarted(r)
    \/ StartNothing(r) \/ Dispose(r) \/ Expire(r) \/ StopExpired(r) \/ Collect(r) \/ CollectOverBudget(r)
    \/ CollectNothing(r) \/ PersistResult(r) \/ Cleanup(r) \/ DropOutput(r)

WorkerStep(i) ==
    \/ WriteOutput(i) \/ Overflow(i) \/ Prune(i)
    \/ \E code \in Exits : Exit(i, code)

ContainerNext ==
    \/ \E r \in Runners : \/ RunnerStep(r) \/ VerificationFails(r) \/ LaunchFails(r)
                          \/ ServiceFails(r) \/ KillContainerRunner(r)
    \/ \E i \in Workers : WorkerStep(i)

ContainerSafety == ContainerInit /\ [][ContainerNext]_containerVars

\* Runners that can take a step take one, and the attempt is made again by
\* whichever controller resumes; the worker promises nothing.
ContainerSpec == ContainerSafety /\ WF_containerVars(\E r \in Runners : RunnerStep(r))

===============================================================================
