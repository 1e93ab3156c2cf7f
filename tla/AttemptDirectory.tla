---------------------------- MODULE AttemptDirectory ----------------------------
(***************************************************************************)
(* One attempt of one experiment, as execute_request of                    *)
(* rex/execution/runner.py finds it on disk: a directory with a lock, a    *)
(* lease and, at the end, a result.  Runners are processes that call       *)
(* execute_request with the same request, one after the other because a    *)
(* controller was killed, or at once because two controllers are alive.    *)
(* Where the worker lives is the matter of ContainerAttempt and of         *)
(* ProcessAttempt, which extend this module.                               *)
(***************************************************************************)
EXTENDS Naturals, FiniteSets

CONSTANTS
    Runners,     \* processes that call execute_request
    None,        \* no file, no process
    MaxFaults,   \* bound on kills and failures of the environment
    MaxWorkers   \* bound on the workers launched

Workers == 1..MaxWorkers
Results == [worker : Workers, writer : Workers \cup {None}]

ASSUME DirectoryAssumption ==
    /\ MaxFaults \in Nat /\ MaxWorkers \in Nat
    /\ None \notin Runners \cup Workers /\ None \notin Results

VARIABLES
    ctl,     \* where each runner is, the worker it handles, what it saw of it
    lock,    \* the runner that holds worker_lease.lock
    result,  \* worker/result.json: the worker it is about and who wrote it
    faults   \* kills and failures so far

dirVars == <<ctl, lock, result, faults>>

Away == [pc |-> "away", worker |-> None, seen |-> None]

DirInit ==
    /\ ctl = [r \in Runners |-> Away]
    /\ lock = None
    /\ result = None
    /\ faults = 0

At(r, point) == ctl[r].pc = point
Goto(r, point) == ctl' = [ctl EXCEPT ![r].pc = point]

\* AttemptLock.acquire: flock, without waiting.
Acquire(r) ==
    /\ At(r, "away") /\ lock = None
    /\ lock' = r
    /\ Goto(r, "open")
    /\ UNCHANGED <<result, faults>>

\* A runner that does not get the lock answers WorkerLeaseConflict.
Conflict(r) ==
    /\ At(r, "away") /\ lock # None
    /\ Goto(r, "done")
    /\ UNCHANGED <<lock, result, faults>>

\* The call ends with an answer and releases the lock.
Answer(r) ==
    /\ ctl' = [ctl EXCEPT ![r] = [Away EXCEPT !.pc = "done"]]
    /\ lock' = None

\* A runner is killed, perhaps before it could record the answer, and the
\* operating system releases its lock; a later controller calls again.
KillRunner(r) ==
    /\ ~At(r, "away") /\ faults < MaxFaults
    /\ ctl' = [ctl EXCEPT ![r] = Away]
    /\ lock' = IF lock = r THEN None ELSE lock
    /\ faults' = faults + 1
    /\ UNCHANGED result

Concluded == \A r \in Runners : At(r, "done")

================================================================================
