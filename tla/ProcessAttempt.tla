----------------------------- MODULE ProcessAttempt -----------------------------
(***************************************************************************)
(* An attempt whose worker is a process group of this host: the native     *)
(* half of execute_request in rex/execution/runner.py, with the leases of  *)
(* rex/execution/lease.py.                                                 *)
(*                                                                         *)
(* A wrapper leads the group and starts the worker once it sees the launch *)
(* gate, a file; it waits two seconds for it.  The worker writes the       *)
(* result itself.  The request, workspace and sandbox checks come before   *)
(* anything is launched and are left out.                                  *)
(***************************************************************************)
EXTENDS AttemptDirectory

Markers == [worker : Workers, state : {"active", "closed", "recovered"}, boot : Nat]

ASSUME ProcessAssumption == None \notin Markers

VARIABLES
    process,   \* the process groups launched for the attempt
    marker,    \* worker_lease.json: the worker, the boot it belongs to, its state
    gate,      \* worker_launch_gate.json exists
    boot,      \* boots of the host so far
    stranger   \* [of |-> the worker whose pid another program has, hit |-> signalled]

markerVars == <<marker, gate>>
hostProcesses == <<process, boot, stranger>>
processVars == <<dirVars, markerVars, hostProcesses>>

\* "leaderless": the wrapper is gone, its child still runs.
ProcessStates == {"none", "waiting", "working", "leaderless", "exited"}
ProcessPoints == {"away", "done", "open", "reap", "clear", "replay", "spawn", "enlist",
                  "admit", "watch", "report"}

ProcessTypeOK ==
    /\ ctl \in [Runners -> [pc : ProcessPoints, worker : Workers \cup {None},
                            seen : {"timeout", None}]]
    /\ lock \in Runners \cup {None}
    /\ result \in Results \cup {None}
    /\ faults \in 0..MaxFaults
    /\ process \in [Workers -> [state : ProcessStates, leased : BOOLEAN]]
    /\ marker \in Markers \cup {None}
    /\ gate \in BOOLEAN
    /\ boot \in 0..MaxFaults
    /\ stranger \in [of : Workers \cup {None}, hit : BOOLEAN]

ProcessInit ==
    /\ DirInit
    /\ process = [i \in Workers |-> [state |-> "none", leased |-> FALSE]]
    /\ marker = None /\ gate = FALSE /\ boot = 0
    /\ stranger = [of |-> None, hit |-> FALSE]

Led(i) == process[i].state \in {"waiting", "working"}
Alive(i) == Led(i) \/ process[i].state = "leaderless"
Killed(i) == [process EXCEPT ![i].state = "exited"]

-------------------------------------------------------------------------------
(* The process groups and the host.                                        *)

\* The wrapper tests that the gate exists, not whose launch it releases.
PassGate(i) ==
    /\ process[i].state = "waiting" /\ gate
    /\ process' = [process EXCEPT ![i].state = "working"]
    /\ UNCHANGED <<dirVars, markerVars, boot, stranger>>

GiveUp(i) ==
    /\ process[i].state = "waiting"
    /\ process' = Killed(i)
    /\ UNCHANGED <<dirVars, markerVars, boot, stranger>>

WriteResult(i) ==
    /\ process[i].state \in {"working", "leaderless"}
    /\ result' = [worker |-> i, writer |-> i]
    /\ UNCHANGED <<ctl, lock, faults, markerVars, hostProcesses>>

\* The worker ends, having written its result or not.
End(i) ==
    /\ process[i].state \in {"working", "leaderless"}
    /\ process' = Killed(i)
    /\ UNCHANGED <<dirVars, markerVars, boot, stranger>>

LoseLeader(i) ==
    /\ process[i].state = "working" /\ faults < MaxFaults
    /\ process' = [process EXCEPT ![i].state = "leaderless"]
    /\ faults' = faults + 1
    /\ UNCHANGED <<ctl, lock, result, markerVars, boot, stranger>>

\* Another program gets the pid of a worker that ended.  The moments between
\* a runner's look at a process and its signal are taken to be too short.
ReusePid(i) ==
    /\ process[i].state = "exited" /\ stranger.of = None /\ faults < MaxFaults
    /\ \A r \in Runners : ~At(r, "reap")
    /\ stranger' = [stranger EXCEPT !.of = i]
    /\ faults' = faults + 1
    /\ UNCHANGED <<ctl, lock, result, markerVars, process, boot>>

Reboot ==
    /\ faults < MaxFaults /\ faults' = faults + 1
    /\ boot' = boot + 1
    /\ process' = [i \in Workers |-> IF Alive(i) THEN Killed(i)[i] ELSE process[i]]
    /\ ctl' = [r \in Runners |-> Away] /\ lock' = None
    /\ stranger' = [stranger EXCEPT !.of = None]
    /\ UNCHANGED <<result, markerVars>>

-------------------------------------------------------------------------------
(* recover_orphan_worker.                                                  *)

\* A slip: the creation time of the process is not compared.
UnverifiableByPid ==
    \/ marker.boot # boot
    \/ process[marker.worker].state = "leaderless"

\* What the marker's pid shows is not the worker the marker was written for.
Unverifiable ==
    \/ marker.boot # boot
    \/ process[marker.worker].state = "leaderless"
    \/ stranger.of = marker.worker

RecoverOrphan(r) ==
    /\ At(r, "open")
    /\ IF marker = None \/ marker.state # "active"
       THEN Goto(r, "replay") /\ UNCHANGED lock
       ELSE IF Unverifiable THEN Answer(r)
       ELSE Goto(r, IF Led(marker.worker) \/ stranger.of = marker.worker
                    THEN "reap" ELSE "clear") /\ UNCHANGED lock
    /\ UNCHANGED <<result, faults, markerVars, hostProcesses>>

\* _terminate_group signals whoever has the process group's id.
Reap(r) ==
    /\ At(r, "reap")
    /\ process' = Killed(marker.worker)
    /\ stranger' = [stranger EXCEPT !.hit = @ \/ stranger.of = marker.worker]
    /\ Goto(r, "clear")
    /\ UNCHANGED <<lock, result, faults, markerVars, boot>>

MarkRecovered(r) ==
    /\ At(r, "clear")
    /\ marker' = [marker EXCEPT !.state = "recovered"]
    /\ Goto(r, "replay")
    /\ UNCHANGED <<lock, result, faults, gate, hostProcesses>>

-------------------------------------------------------------------------------
(* Replay, launch and watch.                                               *)

\* _validated_replay; otherwise an old gate is removed before the launch.
ReplayResult(r) ==
    /\ At(r, "replay")
    /\ IF result # None THEN Answer(r) /\ UNCHANGED gate
       ELSE gate' = FALSE /\ Goto(r, "spawn") /\ UNCHANGED lock
    /\ UNCHANGED <<result, faults, marker, hostProcesses>>

Spawn(r) ==
    /\ At(r, "spawn")
    /\ \E i \in Workers :
         /\ process[i].state = "none" /\ \A j \in 1..(i - 1) : process[j].state # "none"
         /\ process' = [process EXCEPT ![i].state = "waiting"]
         /\ ctl' = [ctl EXCEPT ![r].pc = "enlist", ![r].worker = i]
    /\ UNCHANGED <<lock, result, faults, markerVars, boot, stranger>>

\* begin_worker_lease needs the wrapper's identity.
Enlist(r) ==
    /\ At(r, "enlist")
    /\ LET i == ctl[r].worker
       IN  IF process[i].state = "waiting"
           THEN /\ marker' = [worker |-> i, state |-> "active", boot |-> boot]
                /\ process' = [process EXCEPT ![i].leased = TRUE]
                /\ Goto(r, "admit") /\ UNCHANGED lock
           ELSE Answer(r) /\ UNCHANGED <<marker, process>>
    /\ UNCHANGED <<result, faults, gate, boot, stranger>>

OpenGate(r) ==
    /\ At(r, "admit")
    /\ gate' = TRUE
    /\ Goto(r, "watch")
    /\ UNCHANGED <<lock, result, faults, marker, hostProcesses>>

\* The lease or the gate cannot be written: the group is killed at once.
HandshakeFails(r) ==
    /\ At(r, "enlist") \/ At(r, "admit")
    /\ faults < MaxFaults /\ faults' = faults + 1
    /\ process' = Killed(ctl[r].worker)
    /\ marker' = IF At(r, "admit") THEN [marker EXCEPT !.state = "closed"] ELSE marker
    /\ Answer(r)
    /\ UNCHANGED <<result, gate, boot, stranger>>

\* The time or memory limit passes: _kill_process_group.
KillExpired(r) ==
    /\ At(r, "watch") /\ Led(ctl[r].worker)
    /\ process' = Killed(ctl[r].worker)
    /\ ctl' = [ctl EXCEPT ![r].seen = "timeout"]
    /\ UNCHANGED <<lock, result, faults, markerVars, boot, stranger>>

CloseMarker(r) ==
    /\ At(r, "watch") /\ ~Led(ctl[r].worker)
    /\ marker' = [marker EXCEPT !.state = "closed"]
    /\ gate' = FALSE
    /\ Goto(r, "report")
    /\ UNCHANGED <<lock, result, faults, hostProcesses>>

\* A result in time is kept, with the controller's evidence added.
Report(r) ==
    /\ At(r, "report")
    /\ result' = IF result # None /\ ctl[r].seen # "timeout"
                 THEN [result EXCEPT !.worker = ctl[r].worker] ELSE result
    /\ Answer(r)
    /\ UNCHANGED <<faults, markerVars, hostProcesses>>

-------------------------------------------------------------------------------
NativeStep(r) ==
    \/ (Acquire(r) \/ Conflict(r)) /\ UNCHANGED <<markerVars, hostProcesses>>
    \/ RecoverOrphan(r) \/ Reap(r) \/ MarkRecovered(r) \/ ReplayResult(r) \/ Spawn(r)
    \/ Enlist(r) \/ OpenGate(r) \/ KillExpired(r) \/ CloseMarker(r) \/ Report(r)

GroupStep(i) == PassGate(i) \/ WriteResult(i) \/ End(i)

ProcessNext ==
    \/ \E r \in Runners : \/ NativeStep(r) \/ HandshakeFails(r)
                          \/ KillRunner(r) /\ UNCHANGED <<markerVars, hostProcesses>>
    \/ \E i \in Workers : \/ GroupStep(i) \/ GiveUp(i) \/ LoseLeader(i) \/ ReusePid(i)
    \/ Reboot

ProcessSafety == ProcessInit /\ [][ProcessNext]_processVars

ProcessSpec ==
    /\ ProcessSafety
    /\ WF_processVars(\E r \in Runners : NativeStep(r))
    /\ \A i \in Workers : WF_processVars(GiveUp(i))

===============================================================================
