---------------------------- MODULE WorkerTheorems ----------------------------
(***************************************************************************)
(* An attempt for any number of runners, workers and faults.  Whatever a   *)
(* runner finds on disk was left by one that was killed: the invariants    *)
(* say what each point of execute_request may take for granted about the   *)
(* lease, the containers and the process groups, because the runner there  *)
(* holds the attempt's lock.                                               *)
(***************************************************************************)
EXTENDS ExecuteRequest, TLAPS

\* The lock is held by the runner that is under way, and by nobody else.
LockInv == \A r \in Runners : ctl[r].pc \notin {"away", "done"} <=> lock = r

-------------------------------------------------------------------------------
(* Containers.                                                             *)

\* Points at which the lease is that of the worker in hand; before a launch
\* there is none.
Leased == {"recover", "terminate", "reclose", "status", "recollect", "judge", "discard", "archive",
           "release", "start", "mark", "collect", "persist", "cleanup", "drop", "tidy"}
Unleased == {"forget", "reserve", "create", "lease"}
Unfinished == Unleased \cup {"dispose", "start", "mark", "collect", "persist", "discard", "archive", "release"}

\* The daemon's containers, the lease and the output.
BoxInv ==
    /\ \A i \in Workers : container[i].exit # None => container[i].state \in {"exited", "removed", "disposed", "pruned"}
    /\ \A i, j \in Workers : Present(i) /\ Present(j) => i = j
    /\ \A i \in Workers : lease # None /\ Present(i) => lease.worker = i
    /\ EveryRunIsRecorded
    /\ \A i \in Workers : container[i].exit = "ok" /\ container[i].state = "exited" => output # None
    /\ \A i \in Workers : Running(i) => \E r \in Runners : ~At(r, "done")

\* What a runner at each point may rely on.
Knows(r) ==
    /\ ctl[r].pc \in Leased => lease # None /\ lease.worker = ctl[r].worker
    /\ ctl[r].pc \in Unleased => lease = None
    /\ ctl[r].pc \in {"lease", "dispose"} => ctl[r].worker \in Workers
    /\ ctl[r].pc = "lease" => \A i \in Workers : Present(i) => i = ctl[r].worker
    /\ ctl[r].pc = "dispose" => lease = None \/ lease.worker = ctl[r].worker
    /\ ctl[r].pc \in {"archive", "release", "drop"} => ~Present(ctl[r].worker)
    /\ ctl[r].pc = "release" => lease.worker \in archive
    /\ ctl[r].pc = "forget" => \A i \in Workers : ~Present(i)
    /\ ctl[r].pc \in {"judge", "persist", "discard", "cleanup", "tidy"} => ~Running(ctl[r].worker)
    /\ ctl[r].pc \in Unfinished => ~whole
    /\ ctl[r].pc \in {"cleanup", "drop", "tidy"} => whole
    /\ ctl[r].pc = "judge" /\ container[ctl[r].worker].exit = "ok" => ctl[r].seen \in {"success", "timeout"}
    /\ ctl[r].pc = "discard" /\ container[ctl[r].worker] = [state |-> "exited", exit |-> "ok"] => ctl[r].seen = "timeout"

ContainerInv == ContainerTypeOK /\ LockInv /\ BoxInv /\ \A r \in Runners : Knows(r)

-------------------------------------------------------------------------------
(* Process groups.                                                         *)

Guarded(i) == process[i].leased /\ Led(i)

\* The groups, the marker, the gate and the host's pids.
GroupInv ==
    /\ \A i, j \in Workers : process[i].state = "none" /\ i < j => process[j].state = "none"
    /\ \A i \in Workers : process[i].state = "none" => ~process[i].leased
    /\ marker # None => process[marker.worker].leased
    /\ \A i \in Workers : Guarded(i) =>
         /\ marker # None /\ marker.worker = i /\ marker.state = "active" /\ marker.boot = boot
         /\ \E r \in Runners : ~At(r, "done")
    /\ \A i \in Workers : /\ ~process[i].leased
                          /\ process[i].state = "working" \/ (gate /\ process[i].state = "waiting")
                          => \E j \in Workers : j > i /\ process[j].leased
    /\ \A i \in Workers : stranger.of = i => process[i].state = "exited"
    /\ ~stranger.hit
    /\ boot <= faults

Finds(r) ==
    /\ ctl[r].pc \in {"reap", "clear", "admit", "watch"} => marker # None
    /\ ctl[r].pc = "reap" => stranger.of # marker.worker
    /\ ctl[r].pc = "clear" => ~Led(marker.worker)
    /\ ctl[r].pc \in {"replay", "spawn", "enlist", "report"} => marker = None \/ marker.state # "active"
    /\ ctl[r].pc \in {"spawn", "enlist", "admit"} => ~gate
    /\ ctl[r].pc \in {"enlist", "admit", "watch", "report"} => ctl[r].worker \in Workers
    /\ ctl[r].pc = "enlist" => ~process[ctl[r].worker].leased /\ process[ctl[r].worker].state # "none"
    /\ ctl[r].pc \in {"enlist", "admit"} => \A i \in Workers : i > ctl[r].worker => process[i].state = "none"
    /\ ctl[r].pc \in {"admit", "watch"} => process[ctl[r].worker].leased /\ marker.worker = ctl[r].worker

ProcessInv == ProcessTypeOK /\ LockInv /\ GroupInv /\ \A r \in Runners : Finds(r)

-------------------------------------------------------------------------------
ExecuteInv ==
    /\ runtime \in {"docker", "native"}
    /\ runtime = "docker" =>
         /\ ContainerInv /\ ~stranger.hit
         /\ \A i \in Workers : process[i] = [state |-> "none", leased |-> FALSE]
    /\ runtime = "native" => ProcessInv /\ \A i \in Workers : container[i] = [state |-> "none", exit |-> None]

-----------------------------------------------------------------------------
(* A runner with a worker in a container.                                  *)

Boxes == [Runners -> [pc : ContainerPoints, worker : Workers \cup {None}, seen : Outcomes \cup {None}]]

LEMMA Numbers ==
    /\ MaxFaults \in Nat /\ MaxWorkers \in Nat /\ Workers \subseteq Nat
    /\ None \notin Runners /\ None \notin Workers
BY DirectoryAssumption DEF Workers

\* None of the values that None is compared with is None itself.
LEMMA NotNone ==
    ASSUME NEW l \in Leases \cup {None}, l # None
    PROVE  l \in Leases /\ l.worker \in Workers
BY DEF Leases

\* A runner under way holds the lock, so that no other one is under way.
LEMMA Holder ==
    ASSUME LockInv, NEW r \in Runners, ctl[r].pc \notin {"away", "done"}
    PROVE  lock = r /\ \A q \in Runners : q # r => ctl[q].pc \in {"away", "done"}
BY DEF LockInv

LEMMA IdleKnows ==
    ASSUME NEW r, ctl[r].pc \in {"away", "done"}
    PROVE  Knows(r)
BY DEF Knows, Leased, Unleased, Unfinished

LEMMA Going ==
    ASSUME ctl \in Boxes, NEW r \in Runners, NEW point \in ContainerPoints, Goto(r, point)
    PROVE  /\ ctl' \in Boxes /\ \A q \in Runners : q # r => ctl'[q] = ctl[q]
           /\ ctl'[r].pc = point /\ ctl'[r].worker = ctl[r].worker /\ ctl'[r].seen = ctl[r].seen
BY DEF Goto, Boxes

LEMMA Answering ==
    ASSUME ctl \in Boxes, NEW r \in Runners, Answer(r)
    PROVE  /\ ctl' \in Boxes /\ \A q \in Runners : q # r => ctl'[q] = ctl[q]
           /\ ctl'[r].pc = "done" /\ lock' = None
<1>0. [Away EXCEPT !.pc = "done"] = [pc |-> "done", worker |-> None, seen |-> None]
  BY DEF Away
<1>1. ctl' = [ctl EXCEPT ![r] = [pc |-> "done", worker |-> None, seen |-> None]]
  BY <1>0 DEF Answer
<1>2. [pc |-> "done", worker |-> None, seen |-> None] \in [pc : ContainerPoints, worker : Workers \cup {None}, seen : Outcomes \cup {None}]
  BY DEF ContainerPoints
<1> QED
  BY <1>1, <1>2 DEF Boxes, Answer

\* The rest of the state is well typed.
OthersTyped ==
    /\ result \in Results \cup {None} /\ faults \in 0..MaxFaults
    /\ container \in [Workers -> [state : ContainerStates, exit : Exits \cup {None}]]
    /\ lease \in Leases \cup {None} /\ archive \subseteq Workers
    /\ reservation \in BOOLEAN /\ over \in BOOLEAN /\ output \in Workers \cup {None}
    /\ whole \in BOOLEAN /\ disturbed \in BOOLEAN

LEMMA Typed == ContainerInv => ctl \in Boxes /\ OthersTyped /\ lock \in Runners \cup {None} /\ LockInv /\ BoxInv
BY DEF ContainerInv, ContainerTypeOK, OthersTyped, Boxes

\* The holder goes on: only what it knows has to be shown again.
LEMMA GoesOn ==
    ASSUME ContainerInv, NEW r \in Runners, ctl[r].pc \notin {"away", "done"}, lock' = lock,
           ctl' \in Boxes, \A q \in Runners : q # r => ctl'[q] = ctl[q], ctl'[r].pc \notin {"away", "done"},
           OthersTyped', BoxInv', Knows(r)'
    PROVE  ContainerInv'
<1>1. lock = r /\ \A q \in Runners : q # r => ctl[q].pc \in {"away", "done"}
  BY Holder, Typed
<1>2. LockInv'
  BY <1>1 DEF LockInv
<1>3. ASSUME NEW q \in Runners
      PROVE  Knows(q)'
  <2>1. CASE q = r
    BY <2>1
  <2>2. CASE q # r
    <3>1. ctl'[q].pc \in {"away", "done"}
      BY <1>1, <2>2
    <3> QED
      BY <3>1 DEF Knows, Leased, Unleased, Unfinished
  <2> QED
    BY <2>1, <2>2
<1>4. ContainerTypeOK'
  BY Typed DEF ContainerTypeOK, OthersTyped, Boxes
<1> QED
  BY <1>2, <1>3, <1>4 DEF ContainerInv

\* The holder answers: the lock is free and nobody is under way.
LEMMA Ends ==
    ASSUME ContainerInv, NEW r \in Runners, ctl[r].pc \notin {"away", "done"}, Answer(r), OthersTyped', BoxInv'
    PROVE  ContainerInv'
<1>1. lock = r /\ \A q \in Runners : q # r => ctl[q].pc \in {"away", "done"}
  BY Holder, Typed
<1>2. /\ ctl' \in Boxes /\ \A q \in Runners : q # r => ctl'[q] = ctl[q]
      /\ ctl'[r].pc = "done" /\ lock' = None
  BY Typed, Answering
<1>3. \A q \in Runners : ctl'[q].pc \in {"away", "done"}
  BY <1>1, <1>2
<1>4. LockInv'
  BY <1>2, <1>3, Numbers DEF LockInv
<1>5. \A q \in Runners : Knows(q)'
  BY <1>3 DEF Knows, Leased, Unleased, Unfinished
<1>6. ContainerTypeOK'
  BY <1>2 DEF ContainerTypeOK, OthersTyped, Boxes
<1> QED
  BY <1>4, <1>5, <1>6 DEF ContainerInv

\* The daemon and the files stay as they are, and somebody is left to look at
\* what runs.
LEMMA BoxStays ==
    ASSUME BoxInv, UNCHANGED <<container, lease, archive, output>>,
           (\E q \in Runners : ctl'[q].pc # "done") \/ \A i \in Workers : ~Running(i)
    PROVE  BoxInv'
BY DEF BoxInv, EveryRunIsRecorded, Present, Running, At

LEMMA AcquireStep ==
    ASSUME ContainerInv, NEW r \in Runners, Acquire(r), UNCHANGED <<hostVars, workVars>>
    PROVE  ContainerInv'
<1>1. ctl[r].pc = "away" /\ lock = None /\ lock' = r /\ Goto(r, "open") /\ UNCHANGED <<result, faults>>
  BY DEF Acquire, At
<1>2. /\ ctl' \in Boxes /\ \A q \in Runners : q # r => ctl'[q] = ctl[q]
      /\ ctl'[r].pc = "open"
  BY <1>1, Typed, Going DEF ContainerPoints
<1>3. \A q \in Runners : q # r => ctl'[q].pc \in {"away", "done"}
  BY <1>1, <1>2, Typed, Numbers DEF LockInv
<1>4. LockInv'
  BY <1>1, <1>2, <1>3 DEF LockInv
<1>5. \A q \in Runners : Knows(q)'
  BY <1>2, <1>3 DEF Knows, Leased, Unleased, Unfinished
<1>6. BoxInv'
  BY <1>2, Typed, BoxStays DEF hostVars, replayVars, workVars
<1>7. ContainerTypeOK'
  BY <1>1, <1>2, Typed DEF ContainerTypeOK, OthersTyped, Boxes, hostVars, replayVars, workVars
<1> QED
  BY <1>4, <1>5, <1>6, <1>7 DEF ContainerInv

LEMMA ConflictStep ==
    ASSUME ContainerInv, NEW r \in Runners, Conflict(r), UNCHANGED <<hostVars, workVars>>
    PROVE  ContainerInv'
<1>1. ctl[r].pc = "away" /\ lock # None /\ lock' = lock /\ Goto(r, "done") /\ UNCHANGED <<result, faults>>
  BY DEF Conflict, At
<1>2. /\ ctl' \in Boxes /\ \A q \in Runners : q # r => ctl'[q] = ctl[q]
      /\ ctl'[r].pc = "done"
  BY <1>1, Typed, Going DEF ContainerPoints
<1>3. LockInv'
  BY <1>1, <1>2, Typed DEF LockInv
<1>4. ASSUME NEW q \in Runners
      PROVE  Knows(q)'
  <2>1. CASE q = r
    BY <1>2, <2>1 DEF Knows, Leased, Unleased, Unfinished
  <2>2. CASE q # r
    BY <1>1, <1>2, <2>2 DEF ContainerInv, Knows, Present, Running, hostVars, replayVars, workVars
  <2> QED
    BY <2>1, <2>2
<1>5. \E q \in Runners : ctl'[q].pc # "done"
  <2>1. lock \in Runners /\ ctl[lock].pc \notin {"away", "done"}
    BY <1>1, Typed DEF LockInv
  <2> QED
    BY <1>1, <1>2, <2>1
<1>6. BoxInv'
  BY <1>5, Typed, BoxStays DEF hostVars, replayVars, workVars
<1>7. ContainerTypeOK'
  BY <1>1, <1>2, Typed DEF ContainerTypeOK, OthersTyped, Boxes, hostVars, replayVars, workVars
<1> QED
  BY <1>3, <1>4, <1>6, <1>7 DEF ContainerInv

LEMMA KillStepC ==
    ASSUME ContainerInv, NEW r \in Runners, KillContainerRunner(r)
    PROVE  ContainerInv'
<1>1. /\ ctl' = [ctl EXCEPT ![r] = [pc |-> "away", worker |-> None, seen |-> None]]
      /\ lock' = (IF lock = r THEN None ELSE lock) /\ faults' = faults + 1 /\ faults < MaxFaults /\ result' = result
      /\ UNCHANGED <<lease, archive, reservation, disturbed, workVars>>
      /\ whole' = whole \/ (ctl[r].pc = "persist" /\ whole' = TRUE)
  BY DEF KillContainerRunner, KillRunner, Away, At
<1>2. [pc |-> "away", worker |-> None, seen |-> None] \in [pc : ContainerPoints, worker : Workers \cup {None}, seen : Outcomes \cup {None}]
  BY DEF ContainerPoints
<1>3. ctl' \in Boxes /\ ctl'[r].pc = "away" /\ \A q \in Runners : q # r => ctl'[q] = ctl[q]
  BY <1>1, <1>2, Typed DEF Boxes
<1>4. LockInv'
  BY <1>1, <1>3, Typed, Numbers DEF LockInv
<1>5. ASSUME NEW q \in Runners
      PROVE  Knows(q)'
  <2>1. CASE q = r
    BY <1>3, <2>1 DEF Knows, Leased, Unleased, Unfinished
  <2>2. CASE q # r /\ whole' = whole
    BY <1>1, <1>3, <2>2 DEF ContainerInv, Knows, Present, Running, workVars
  <2>3. CASE q # r /\ ctl[r].pc = "persist"
    <3>1. ctl'[q].pc \in {"away", "done"}
      BY <1>3, <2>3, Holder, Typed
    <3> QED
      BY <3>1 DEF Knows, Leased, Unleased, Unfinished
  <2> QED
    BY <1>1, <2>1, <2>2, <2>3
<1>6. BoxInv'
  BY <1>1, <1>3, Typed, BoxStays DEF workVars
<1>7. faults' \in 0..MaxFaults
  BY <1>1, Typed, Numbers DEF OthersTyped
<1>8. whole' \in BOOLEAN
  BY <1>1, Typed DEF OthersTyped
<1>9. ContainerTypeOK'
  BY <1>1, <1>3, <1>7, <1>8, Typed, Numbers DEF ContainerTypeOK, OthersTyped, Boxes, workVars
<1> QED
  BY <1>4, <1>5, <1>6, <1>9 DEF ContainerInv

LEMMA ReadsOn ==
    ASSUME ContainerInv, NEW r \in Runners, ctl[r].pc \notin {"away", "done"},
           UNCHANGED <<lock, result, faults, hostVars, workVars>>,
           ctl' \in Boxes, \A q \in Runners : q # r => ctl'[q] = ctl[q], ctl'[r].pc \notin {"away", "done"}, Knows(r)'
    PROVE  ContainerInv'
<1>1. OthersTyped'
  BY Typed DEF OthersTyped, hostVars, replayVars, workVars
<1>2. BoxInv'
  BY Typed, BoxStays DEF hostVars, replayVars, workVars
<1> QED
  BY <1>1, <1>2, GoesOn

LEMMA ReadsAndAnswers ==
    ASSUME ContainerInv, NEW r \in Runners, ctl[r].pc \notin {"away", "done"},
           UNCHANGED <<result, faults, lease, archive, workVars>>, reservation' \in BOOLEAN,
           whole' \in BOOLEAN, disturbed' \in BOOLEAN, Answer(r), \A i \in Workers : ~Running(i)
    PROVE  ContainerInv'
<1>1. OthersTyped'
  BY Typed DEF OthersTyped, workVars
<1>2. BoxInv'
  BY Typed, BoxStays DEF workVars
<1> QED
  BY <1>1, <1>2, Ends

\* What runs is the worker of the lease.
LEMMA NothingRuns ==
    ASSUME ContainerInv, lease = None \/ ~Running(lease.worker)
    PROVE  \A i \in Workers : ~Running(i)
BY DEF ContainerInv, BoxInv, EveryRunIsRecorded

LEMMA PresentRuns == \A i : ~Present(i) => ~Running(i)
BY DEF Present, Running

\* What the runner knows at a point where its worker is the lease's.
LEMMA AtLeased ==
    ASSUME ContainerInv, NEW r \in Runners, ctl[r].pc \in Leased
    PROVE  /\ lease # None /\ lease.worker = ctl[r].worker /\ ctl[r].worker \in Workers /\ lease \in Leases
           /\ ctl[r].pc \notin {"away", "done"} /\ Knows(r)
<1>1. lease # None /\ lease.worker = ctl[r].worker /\ Knows(r)
  BY DEF ContainerInv, Knows
<1>2. lease \in Leases /\ lease.worker \in Workers
  BY <1>1, Typed, NotNone DEF OthersTyped
<1> QED
  BY <1>1, <1>2 DEF Leased

\* The handler of an error: the runner answers, and nothing can be replayed.
LEMMA Failing ==
    ASSUME ContainerInv, NEW r \in Runners, Fail(r)
    PROVE  Answer(r) /\ whole' = FALSE /\ disturbed' = disturbed /\ disturbed \in BOOLEAN
BY Typed DEF Fail, OthersTyped

LEMMA ServiceFailsStep ==
    ASSUME ContainerInv, NEW r \in Runners, ServiceFails(r)
    PROVE  ContainerInv'
<1>1. /\ ctl[r].pc \notin {"away", "done"} /\ Answer(r) /\ UNCHANGED <<result, lease, archive, workVars>>
      /\ whole' = FALSE /\ disturbed' = TRUE /\ \A i \in Workers : ~Running(i)
  BY DEF ServiceFails
<1>2. faults' \in 0..MaxFaults /\ reservation' \in BOOLEAN
  BY Typed, Numbers DEF ServiceFails, OthersTyped
<1>3. OthersTyped'
  BY <1>1, <1>2, Typed DEF OthersTyped, workVars, replayVars
<1>4. BoxInv'
  BY <1>1, Typed, BoxStays DEF workVars
<1> QED
  BY <1>1, <1>3, <1>4, Ends

LEMMA OpenStep ==
    ASSUME ContainerInv, NEW r \in Runners, OpenDirectory(r)
    PROVE  ContainerInv'
<1>1. ctl[r].pc = "open" /\ ctl \in Boxes /\ UNCHANGED <<result, faults, hostVars, workVars>>
  BY Typed DEF OpenDirectory, At
<1>2. CASE lease # None
  <2>1. lock' = lock /\ ctl' = [ctl EXCEPT ![r].pc = "recover", ![r].worker = lease.worker]
    BY <1>2 DEF OpenDirectory
  <2>2. lease.worker \in Workers
    BY <1>2, Typed, NotNone DEF OthersTyped
  <2>3. /\ ctl' \in Boxes /\ \A q \in Runners : q # r => ctl'[q] = ctl[q]
        /\ ctl'[r].pc = "recover" /\ ctl'[r].worker = lease.worker
    BY <1>1, <2>1, <2>2 DEF Boxes, ContainerPoints
  <2>4. Knows(r)'
    BY <1>1, <1>2, <2>3 DEF Knows, Unleased, Unfinished, hostVars, replayVars
  <2> QED
    BY <1>1, <2>1, <2>3, <2>4, ReadsOn
<1>3. CASE lease = None /\ whole
  BY <1>1, <1>3, ReadsAndAnswers, NothingRuns, Typed DEF OpenDirectory, OthersTyped, hostVars, replayVars
<1>4. CASE lease = None /\ ~whole
  <2>1. lock' = lock /\ Goto(r, "reserve")
    BY <1>4 DEF OpenDirectory
  <2>2. /\ ctl' \in Boxes /\ \A q \in Runners : q # r => ctl'[q] = ctl[q]
        /\ ctl'[r].pc = "reserve"
    BY <1>1, <2>1, Going DEF ContainerPoints
  <2>3. Knows(r)'
    BY <1>1, <1>4, <2>2 DEF Knows, Leased, hostVars, replayVars
  <2> QED
    BY <1>1, <2>1, <2>2, <2>3, ReadsOn
<1> QED
  BY <1>2, <1>3, <1>4

LEMMA RecoverStep ==
    ASSUME ContainerInv, NEW r \in Runners, Recover(r)
    PROVE  ContainerInv'
<1>1. ctl[r].pc = "recover" /\ ctl \in Boxes /\ UNCHANGED <<result, faults, lease, archive, reservation, workVars>>
  BY Typed DEF Recover, At
<1>2. /\ lease # None /\ lease.worker = ctl[r].worker /\ ctl[r].worker \in Workers
      /\ ctl[r].pc \notin {"away", "done"}
  BY <1>1, AtLeased DEF Leased
<1>3. CASE lease.state \in Open /\ ~Present(ctl[r].worker)
  <2>1. Answer(r) /\ whole' \in BOOLEAN /\ disturbed' \in BOOLEAN
    BY <1>3, Failing DEF Recover
  <2> QED
    BY <1>1, <1>2, <1>3, <2>1, ReadsAndAnswers, NothingRuns, PresentRuns, Typed DEF OthersTyped
<1>4. CASE ~(lease.state \in Open /\ ~Present(ctl[r].worker))
  <2>1. PICK point \in {"status", "terminate", "reclose"} : Goto(r, point) /\ UNCHANGED <<lock, replayVars>>
    BY <1>4 DEF Recover
  <2>2. /\ ctl' \in Boxes /\ \A q \in Runners : q # r => ctl'[q] = ctl[q]
        /\ ctl'[r].pc = point /\ ctl'[r].worker = ctl[r].worker
    <3>1. point \in ContainerPoints
      BY DEF ContainerPoints
    <3> QED
      BY <1>1, <2>1, <3>1, Going
  <2>3. Knows(r)'
    BY <1>1, <1>2, <2>2 DEF Knows, Unleased, Unfinished
  <2> QED
    BY <1>1, <1>2, <2>1, <2>2, <2>3, ReadsOn DEF hostVars
<1> QED
  BY <1>3, <1>4

LEMMA InspectStep ==
    ASSUME ContainerInv, NEW r \in Runners, InspectPrior(r)
    PROVE  ContainerInv'
<1>1. ctl[r].pc = "status" /\ ctl \in Boxes /\ UNCHANGED <<result, faults, hostVars, workVars>>
  BY Typed DEF InspectPrior, At
<1>2. /\ lease # None /\ lease.worker = ctl[r].worker /\ ctl[r].worker \in Workers
      /\ ctl[r].pc \notin {"away", "done"}
  BY <1>1, AtLeased DEF Leased
<1>3. CASE Present(ctl[r].worker)
  <2>1. Goto(r, "recollect") /\ lock' = lock
    BY <1>3 DEF InspectPrior
  <2>2. /\ ctl' \in Boxes /\ \A q \in Runners : q # r => ctl'[q] = ctl[q]
        /\ ctl'[r].pc = "recollect" /\ ctl'[r].worker = ctl[r].worker
    BY <1>1, <2>1, Going DEF ContainerPoints
  <2>3. Knows(r)'
    BY <1>1, <1>2, <2>2 DEF Knows, Unleased, Unfinished, hostVars, replayVars
  <2> QED
    BY <1>1, <1>2, <2>1, <2>2, <2>3, ReadsOn
<1>4. CASE ~Present(ctl[r].worker) /\ whole
  BY <1>1, <1>2, <1>4, ReadsAndAnswers, NothingRuns, PresentRuns, Typed DEF InspectPrior, OthersTyped, hostVars, replayVars
<1>5. CASE ~Present(ctl[r].worker) /\ ~whole
  <2>1. Goto(r, "archive") /\ lock' = lock
    BY <1>5 DEF InspectPrior
  <2>2. /\ ctl' \in Boxes /\ \A q \in Runners : q # r => ctl'[q] = ctl[q]
        /\ ctl'[r].pc = "archive" /\ ctl'[r].worker = ctl[r].worker
    BY <1>1, <2>1, Going DEF ContainerPoints
  <2>3. ~Present(ctl[r].worker)'
    BY <1>1, <1>5, <2>2 DEF Present, workVars
  <2>4. Knows(r)'
    BY <1>1, <1>2, <1>5, <2>2, <2>3 DEF Knows, Unleased, hostVars, replayVars
  <2> QED
    BY <1>1, <1>2, <2>1, <2>2, <2>4, ReadsOn
<1> QED
  BY <1>3, <1>4, <1>5

LEMMA JudgePriorStep ==
    ASSUME ContainerInv, NEW r \in Runners, JudgePrior(r)
    PROVE  ContainerInv'
<1>1. ctl[r].pc = "judge" /\ ctl \in Boxes /\ UNCHANGED <<lock, result, faults, hostVars, workVars>>
  BY Typed DEF JudgePrior, At
<1>2. /\ lease # None /\ lease.worker = ctl[r].worker /\ ctl[r].worker \in Workers
      /\ ctl[r].pc \notin {"away", "done"} /\ ~Running(ctl[r].worker)
      /\ container[ctl[r].worker].exit = "ok" => ctl[r].seen \in {"success", "timeout"}
  BY <1>1, AtLeased DEF Leased, Knows
<1>3. /\ \/ Goto(r, "tidy") /\ whole
         \/ Goto(r, "persist") /\ ~whole
         \/ Goto(r, "discard") /\ ~whole /\ ~Reusable(r)
  BY DEF JudgePrior
<1>4. PICK point \in {"tidy", "persist", "discard"} : Goto(r, point)
  BY <1>3
<1>5. /\ ctl' \in Boxes /\ \A q \in Runners : q # r => ctl'[q] = ctl[q]
      /\ ctl'[r].pc = point /\ ctl'[r].worker = ctl[r].worker /\ ctl'[r].seen = ctl[r].seen
  <2>1. point \in ContainerPoints
    BY DEF ContainerPoints
  <2> QED
    BY <1>1, <1>4, <2>1, Going
<1>6. /\ ctl'[r].pc = "tidy" => whole
      /\ ctl'[r].pc # "tidy" => ~whole
      /\ ctl'[r].pc = "discard" => ~Reusable(r)
  BY <1>1, <1>3, <1>5, Going DEF ContainerPoints
<1>7. ctl'[r].pc = "discard" /\ container[ctl[r].worker] = [state |-> "exited", exit |-> "ok"] => ctl[r].seen = "timeout"
  BY <1>2, <1>6, Typed DEF Reusable, BoxInv
<1>8. ~Running(ctl[r].worker)'
  BY <1>1, <1>2, <1>5 DEF Running, workVars
<1>9. Knows(r)'
  BY <1>1, <1>2, <1>5, <1>6, <1>7, <1>8 DEF Knows, Unleased, Unfinished, hostVars, replayVars, workVars
<1> QED
  BY <1>1, <1>2, <1>5, <1>9, ReadsOn

LEMMA ExpireStep ==
    ASSUME ContainerInv, NEW r \in Runners, Expire(r)
    PROVE  ContainerInv'
<1>1. ctl[r].pc \in {"collect", "recollect"} /\ ctl \in Boxes /\ UNCHANGED <<lock, result, faults, hostVars, workVars>>
  BY Typed DEF Expire, Collecting, At
<1>2. /\ lease # None /\ lease.worker = ctl[r].worker /\ ctl[r].worker \in Workers
      /\ ctl[r].pc \notin {"away", "done"} /\ (ctl[r].pc = "collect" => ~whole)
  BY <1>1, AtLeased DEF Leased, Knows, Unfinished
<1>3. ctl' = [ctl EXCEPT ![r].seen = "timeout"]
  BY DEF Expire
<1>4. /\ ctl' \in Boxes /\ \A q \in Runners : q # r => ctl'[q] = ctl[q]
      /\ ctl'[r].pc = ctl[r].pc /\ ctl'[r].worker = ctl[r].worker
  BY <1>1, <1>3 DEF Boxes, Outcomes
<1>5. Knows(r)'
  BY <1>1, <1>2, <1>4 DEF Knows, Leased, Unleased, Unfinished, hostVars, replayVars
<1> QED
  BY <1>1, <1>2, <1>4, <1>5, ReadsOn

LEMMA CollectNothingStep ==
    ASSUME ContainerInv, NEW r \in Runners, CollectNothing(r)
    PROVE  ContainerInv'
<1>1. /\ ctl[r].pc \in {"collect", "recollect"} /\ Answer(r) /\ UNCHANGED <<result, faults, lease, archive, reservation, workVars>>
      /\ whole' \in BOOLEAN /\ disturbed' \in BOOLEAN
  BY Failing DEF CollectNothing, Collecting, At
<1>2. lease # None /\ lease.worker = ctl[r].worker /\ ctl[r].pc \notin {"away", "done"}
  BY <1>1, AtLeased DEF Leased
<1>3. ~Present(ctl[r].worker)
  BY DEF CollectNothing
<1> QED
  BY <1>1, <1>2, <1>3, ReadsAndAnswers, NothingRuns, PresentRuns, Typed DEF OthersTyped

\* A lease for the same worker changes nothing for the daemon's containers.
LEMMA SameLease ==
    ASSUME BoxInv, UNCHANGED <<container, output>>, archive \subseteq archive',
           lease = None <=> lease' = None, lease # None => lease'.worker = lease.worker,
           NEW q \in Runners, ctl'[q].pc # "done"
    PROVE  BoxInv'
<1>1. EveryRunIsRecorded'
  BY DEF BoxInv, EveryRunIsRecorded, Running
<1> QED
  BY <1>1 DEF BoxInv, Present, Running, At

LEMMA CloseRecoveredStep ==
    ASSUME ContainerInv, NEW r \in Runners, CloseRecovered(r)
    PROVE  ContainerInv'
<1>1. /\ ctl[r].pc = "reclose" /\ ctl \in Boxes /\ Goto(r, "status") /\ lease' = [lease EXCEPT !.state = "recovered"]
      /\ UNCHANGED <<lock, result, faults, archive, reservation, replayVars, workVars>>
  BY Typed DEF CloseRecovered, At
<1>2. /\ lease # None /\ lease.worker = ctl[r].worker /\ lease \in Leases /\ ctl[r].pc \notin {"away", "done"}
  BY <1>1, AtLeased DEF Leased
<1>3. lease' \in Leases /\ lease'.worker = lease.worker
  BY <1>1, <1>2 DEF Leases
<1>4. lease' # None
  BY <1>3, ContainerAssumption
<1>5. /\ ctl' \in Boxes /\ \A q \in Runners : q # r => ctl'[q] = ctl[q]
      /\ ctl'[r].pc = "status" /\ ctl'[r].worker = ctl[r].worker
  BY <1>1, Going DEF ContainerPoints
<1>6. OthersTyped'
  BY <1>1, <1>3, Typed DEF OthersTyped, workVars, replayVars
<1>7. BoxInv'
  BY <1>1, <1>2, <1>3, <1>4, <1>5, Typed, SameLease DEF workVars
<1>8. Knows(r)'
  BY <1>1, <1>2, <1>3, <1>4, <1>5 DEF Knows, Unleased, Unfinished
<1> QED
  BY <1>1, <1>2, <1>5, <1>6, <1>7, <1>8, GoesOn

LEMMA ArchiveStep ==
    ASSUME ContainerInv, NEW r \in Runners, Archive(r)
    PROVE  ContainerInv'
<1>1. /\ ctl[r].pc = "archive" /\ ctl \in Boxes /\ Goto(r, "release") /\ archive' = archive \cup {lease.worker}
      /\ UNCHANGED <<lock, result, faults, lease, reservation, replayVars, workVars>>
  BY Typed DEF Archive, At
<1>2. /\ lease # None /\ lease.worker = ctl[r].worker /\ lease.worker \in Workers /\ ctl[r].pc \notin {"away", "done"}
      /\ ~Present(ctl[r].worker) /\ ~whole
  BY <1>1, AtLeased DEF Leased, Knows, Unfinished
<1>3. /\ ctl' \in Boxes /\ \A q \in Runners : q # r => ctl'[q] = ctl[q]
      /\ ctl'[r].pc = "release" /\ ctl'[r].worker = ctl[r].worker
  BY <1>1, Going DEF ContainerPoints
<1>4. OthersTyped'
  BY <1>1, <1>2, Typed DEF OthersTyped, workVars, replayVars
<1>5. BoxInv'
  BY <1>1, <1>3, Typed, SameLease DEF workVars
<1>6. ~Present(ctl[r].worker)'
  BY <1>1, <1>2, <1>3 DEF Present, workVars
<1>7. Knows(r)'
  BY <1>1, <1>2, <1>3, <1>6 DEF Knows, Unleased, replayVars
<1> QED
  BY <1>1, <1>2, <1>3, <1>4, <1>5, <1>7, GoesOn

\* A runner with no worker to look for: what the lease says may change freely.
LEMMA ReleaseStep ==
    ASSUME ContainerInv, NEW r \in Runners, Release(r)
    PROVE  ContainerInv'
<1>1. /\ ctl[r].pc = "release" /\ ctl \in Boxes /\ Goto(r, "forget") /\ lease' = None /\ reservation' = FALSE
      /\ UNCHANGED <<lock, result, faults, archive, replayVars, workVars>>
  BY Typed DEF Release, At
<1>2. /\ lease # None /\ lease.worker = ctl[r].worker /\ lease.worker \in Workers /\ ctl[r].pc \notin {"away", "done"}
      /\ ~Present(ctl[r].worker) /\ ~whole /\ lease.worker \in archive
  BY <1>1, AtLeased DEF Leased, Knows, Unfinished
<1>3. /\ ctl' \in Boxes /\ \A q \in Runners : q # r => ctl'[q] = ctl[q]
      /\ ctl'[r].pc = "forget"
  BY <1>1, Going DEF ContainerPoints
<1>4. \A i \in Workers : ~Present(i)
  BY <1>2, Typed DEF BoxInv
<1>5. OthersTyped'
  BY <1>1, Typed DEF OthersTyped, workVars, replayVars
<1>6. BoxInv'
  <2>1. EveryRunIsRecorded'
    BY <1>1, <1>2, <1>4, PresentRuns, Typed DEF BoxInv, EveryRunIsRecorded, Running, workVars
  <2> QED
    BY <1>1, <1>4, <2>1, PresentRuns, Typed DEF BoxInv, Present, Running, workVars
<1>7. Knows(r)'
  BY <1>1, <1>2, <1>3, <1>4 DEF Knows, Leased, Present, workVars, replayVars
<1> QED
  BY <1>1, <1>2, <1>3, <1>5, <1>6, <1>7, GoesOn

LEMMA ForgetStep ==
    ASSUME ContainerInv, NEW r \in Runners, ForgetOutput(r)
    PROVE  ContainerInv'
<1>1. /\ ctl[r].pc = "forget" /\ ctl \in Boxes /\ Goto(r, "reserve") /\ output' = None
      /\ UNCHANGED <<lock, result, faults, hostVars, container, over>>
  BY Typed DEF ForgetOutput, At
<1>2. lease = None /\ ~whole /\ \A i \in Workers : ~Present(i)
  BY <1>1 DEF ContainerInv, Knows, Unleased, Unfinished
<1>3. /\ ctl' \in Boxes /\ \A q \in Runners : q # r => ctl'[q] = ctl[q]
      /\ ctl'[r].pc = "reserve"
  BY <1>1, Going DEF ContainerPoints
<1>4. OthersTyped'
  BY <1>1, Typed DEF OthersTyped, hostVars, replayVars
<1>5. BoxInv'
  BY <1>1, <1>2, PresentRuns, Typed DEF BoxInv, EveryRunIsRecorded, Present, Running, hostVars, replayVars
<1>6. Knows(r)'
  BY <1>1, <1>2, <1>3 DEF Knows, Leased, hostVars, replayVars
<1> QED
  BY <1>1, <1>3, <1>4, <1>5, <1>6, GoesOn

LEMMA ReserveStep ==
    ASSUME ContainerInv, NEW r \in Runners, Reserve(r)
    PROVE  ContainerInv'
<1>1. ctl[r].pc = "reserve" /\ ctl \in Boxes /\ UNCHANGED <<result, faults, lease, archive, workVars>>
  BY Typed DEF Reserve, At
<1>2. lease = None /\ ~whole
  BY <1>1 DEF ContainerInv, Knows, Unleased, Unfinished
<1>3. CASE reservation \/ over
  <2>1. Answer(r) /\ whole' \in BOOLEAN /\ disturbed' \in BOOLEAN /\ reservation' = reservation
    BY <1>3, Failing DEF Reserve
  <2> QED
    BY <1>1, <1>2, <2>1, ReadsAndAnswers, NothingRuns, Typed DEF OthersTyped
<1>4. CASE ~(reservation \/ over)
  <2>1. reservation' = TRUE /\ Goto(r, "create") /\ lock' = lock /\ UNCHANGED <<whole, disturbed>>
    BY <1>4 DEF Reserve, replayVars
  <2>2. /\ ctl' \in Boxes /\ \A q \in Runners : q # r => ctl'[q] = ctl[q]
        /\ ctl'[r].pc = "create"
    BY <1>1, <2>1, Going DEF ContainerPoints
  <2>3. OthersTyped'
    BY <1>1, <2>1, Typed DEF OthersTyped, workVars
  <2>4. BoxInv'
    BY <1>1, <2>2, Typed, BoxStays DEF workVars
  <2>5. Knows(r)'
    BY <1>1, <1>2, <2>1, <2>2 DEF Knows, Leased, replayVars
  <2> QED
    BY <1>1, <2>1, <2>2, <2>3, <2>4, <2>5, GoesOn
<1> QED
  BY <1>3, <1>4

LEMMA CreateStepC ==
    ASSUME ContainerInv, NEW r \in Runners, Create(r)
    PROVE  ContainerInv'
<1>1. ctl[r].pc = "create" /\ ctl \in Boxes /\ UNCHANGED <<result, faults, lease, archive, output, over>>
  BY Typed DEF Create, At
<1>2. lease = None /\ ~whole
  BY <1>1 DEF ContainerInv, Knows, Unleased, Unfinished
<1>3. CASE NameTaken
  <2>1. reservation' = FALSE /\ Answer(r) /\ UNCHANGED container /\ whole' \in BOOLEAN /\ disturbed' \in BOOLEAN
    BY <1>3, Failing DEF Create
  <2>2. OthersTyped'
    BY <1>1, <2>1, Typed DEF OthersTyped
  <2>3. BoxInv'
    BY <1>1, <1>2, <2>1, Typed, BoxStays, NothingRuns
  <2> QED
    BY <1>1, <2>1, <2>2, <2>3, Ends
<1>4. CASE ~NameTaken
  <2>1. PICK i \in Workers : /\ container[i].state = "none"
                             /\ container' = [container EXCEPT ![i].state = "created"]
                             /\ ctl' = [ctl EXCEPT ![r] = [pc |-> "lease", worker |-> i, seen |-> None]]
                             /\ UNCHANGED <<lock, reservation, whole, disturbed>>
    BY <1>4 DEF Create, Creates, replayVars
  <2>2. [pc |-> "lease", worker |-> i, seen |-> None] \in [pc : ContainerPoints, worker : Workers \cup {None}, seen : Outcomes \cup {None}]
    BY DEF ContainerPoints
  <2>3. /\ ctl' \in Boxes /\ \A q \in Runners : q # r => ctl'[q] = ctl[q]
        /\ ctl'[r].pc = "lease" /\ ctl'[r].worker = i
    BY <1>1, <2>1, <2>2 DEF Boxes
  <2>4. container \in [Workers -> [state : ContainerStates, exit : Exits \cup {None}]]
    BY Typed DEF OthersTyped
  <2>5. /\ container' \in [Workers -> [state : ContainerStates, exit : Exits \cup {None}]]
        /\ \A j \in Workers : j # i => container'[j] = container[j]
        /\ container'[i].state = "created" /\ container'[i].exit = container[i].exit
    BY <2>1, <2>4 DEF ContainerStates
  <2>6. OthersTyped'
    BY <1>1, <2>1, <2>5, Typed DEF OthersTyped
  <2>7. \A j \in Workers : j # i => ~Present(j)'
    BY <1>4, <2>5 DEF NameTaken, Present
  <2>8. container[i].exit = None
    BY <2>1, Typed DEF BoxInv
  <2>9. \A j \in Workers : ~Running(j)'
    BY <2>5, <2>7 DEF Present, Running
  <2>10. BoxInv'
    <3>1. EveryRunIsRecorded'
      BY <1>1, <2>5, <2>8, <2>9, Typed DEF BoxInv, EveryRunIsRecorded
    <3> QED
      BY <1>1, <1>2, <2>5, <2>7, <2>8, <2>9, <3>1, Typed DEF BoxInv
  <2>11. Knows(r)'
    BY <1>1, <1>2, <2>1, <2>3, <2>7 DEF Knows, Leased, replayVars
  <2> QED
    BY <1>1, <2>1, <2>3, <2>6, <2>10, <2>11, GoesOn
<1> QED
  BY <1>3, <1>4

LEMMA PersistLeaseStep ==
    ASSUME ContainerInv, NEW r \in Runners, PersistLease(r)
    PROVE  ContainerInv'
<1>1. /\ ctl[r].pc = "lease" /\ ctl \in Boxes /\ Goto(r, "start")
      /\ lease' = [worker |-> ctl[r].worker, state |-> "created", failed |-> FALSE]
      /\ UNCHANGED <<lock, result, faults, archive, reservation, replayVars, workVars>>
  BY Typed DEF PersistLease, At
<1>2. /\ lease = None /\ ~whole /\ ctl[r].worker \in Workers /\ \A i \in Workers : Present(i) => i = ctl[r].worker
  BY <1>1 DEF ContainerInv, Knows, Unleased, Unfinished
<1>3. lease' \in Leases /\ lease'.worker = ctl[r].worker /\ lease' # None
  <2>1. [worker |-> ctl[r].worker, state |-> "created", failed |-> FALSE] \in Leases
    BY <1>2 DEF Leases, Open
  <2> QED
    BY <1>1, <2>1, ContainerAssumption
<1>4. /\ ctl' \in Boxes /\ \A q \in Runners : q # r => ctl'[q] = ctl[q]
      /\ ctl'[r].pc = "start" /\ ctl'[r].worker = ctl[r].worker
  BY <1>1, Going DEF ContainerPoints
<1>5. OthersTyped'
  BY <1>1, <1>3, Typed DEF OthersTyped, workVars, replayVars
<1>6. \A i \in Workers : ~Running(i)
  BY <1>2, NothingRuns
<1>7. BoxInv'
  <2>1. EveryRunIsRecorded'
    BY <1>1, <1>2, <1>6, Typed DEF BoxInv, EveryRunIsRecorded, Running, workVars
  <2> QED
    BY <1>1, <1>2, <1>3, <1>6, <2>1, Typed DEF BoxInv, Present, Running, workVars
<1>8. Knows(r)'
  BY <1>1, <1>2, <1>3, <1>4 DEF Knows, Unleased, replayVars
<1> QED
  BY <1>1, <1>4, <1>5, <1>7, <1>8, GoesOn

\* A container that is stopped stays in its place.
LEMMA StoppedBox ==
    ASSUME ContainerInv, NEW i \in Workers, container' = Stopped(i), lease # None, lease.worker = i,
           UNCHANGED <<result, faults, archive, output>>, lease' \in Leases, lease'.worker = i,
           reservation' \in BOOLEAN, over' \in BOOLEAN,
           whole' \in BOOLEAN, disturbed' \in BOOLEAN
    PROVE  /\ OthersTyped' /\ BoxInv' /\ \A j \in Workers : ~Running(j)'
           /\ \A j \in Workers : Present(j)' = Present(j)
<1>1. container \in [Workers -> [state : ContainerStates, exit : Exits \cup {None}]]
  BY Typed DEF OthersTyped
<1>2. lease' # None
  BY ContainerAssumption
<1>3. CASE ~Running(i)
  <2>1. container' = container
    BY <1>3 DEF Stopped
  <2>2. \A j \in Workers : ~Running(j)
    BY <1>3, NothingRuns
  <2>3. EveryRunIsRecorded'
    BY <1>2, <2>1, <2>2, Typed DEF BoxInv, EveryRunIsRecorded, Running
  <2>4. BoxInv'
    BY <1>2, <2>1, <2>2, <2>3, Typed DEF BoxInv, Present, Running
  <2>5. OthersTyped'
    BY <2>1, Typed DEF OthersTyped
  <2> QED
    BY <2>1, <2>2, <2>4, <2>5 DEF Present, Running
<1>4. CASE Running(i)
  <2>1. container' = [container EXCEPT ![i] = [state |-> "exited", exit |-> "killed"]]
    BY <1>4 DEF Stopped
  <2>2. [state |-> "exited", exit |-> "killed"] \in [state : ContainerStates, exit : Exits \cup {None}]
    BY DEF ContainerStates, Exits
  <2>3. /\ container' \in [Workers -> [state : ContainerStates, exit : Exits \cup {None}]]
        /\ \A j \in Workers : j # i => container'[j] = container[j]
        /\ container'[i].state = "exited" /\ container'[i].exit = "killed"
    BY <1>1, <2>1, <2>2
  <2>4. \A j \in Workers : Present(j)' = Present(j)
    BY <1>4, <2>3 DEF Present, Running
  <2>5. \A j \in Workers : ~Running(j)'
    BY <2>3, <1>4, Typed DEF BoxInv, Present, Running
  <2>6. OthersTyped'
    BY <2>3, Typed DEF OthersTyped
  <2>7. EveryRunIsRecorded'
    BY <1>2, <2>3, <2>5, Typed DEF BoxInv, EveryRunIsRecorded
  <2>8. BoxInv'
    <3>1. \A j \in Workers : container'[j].exit # None => container'[j].state \in {"exited", "removed", "disposed", "pruned"}
      BY <2>3, Typed DEF BoxInv
    <3>2. \A j \in Workers : container'[j].exit = "ok" /\ container'[j].state = "exited" => output' # None
      BY <2>3, Typed DEF BoxInv
    <3>3. \A j \in Workers : Present(j)' => lease'.worker = j
      BY <2>4, Typed DEF BoxInv
    <3> QED
      BY <2>5, <2>7, <3>1, <3>2, <3>3 DEF BoxInv
  <2> QED
    BY <2>4, <2>5, <2>6, <2>8
<1> QED
  BY <1>3, <1>4

LEMMA TerminateStep ==
    ASSUME ContainerInv, NEW r \in Runners, Terminate(r)
    PROVE  ContainerInv'
<1>1. /\ ctl[r].pc = "terminate" /\ ctl \in Boxes /\ Goto(r, "reclose") /\ container' = Stopped(ctl[r].worker)
      /\ UNCHANGED <<lock, result, faults, hostVars, output, over>>
  BY Typed DEF Terminate, At
<1>2. /\ lease # None /\ lease.worker = ctl[r].worker /\ ctl[r].worker \in Workers /\ ctl[r].pc \notin {"away", "done"} /\ lease \in Leases
  BY <1>1, AtLeased DEF Leased
<1>3. /\ ctl' \in Boxes /\ \A q \in Runners : q # r => ctl'[q] = ctl[q]
      /\ ctl'[r].pc = "reclose" /\ ctl'[r].worker = ctl[r].worker
  BY <1>1, Going DEF ContainerPoints
<1>4. OthersTyped' /\ BoxInv'
  BY <1>1, <1>2, <1>3, StoppedBox, Typed DEF hostVars, replayVars, OthersTyped
<1>5. Knows(r)'
  BY <1>1, <1>2, <1>3 DEF Knows, Unleased, Unfinished, hostVars, replayVars
<1> QED
  BY <1>1, <1>2, <1>3, <1>4, <1>5, GoesOn

LEMMA StartStep ==
    ASSUME ContainerInv, NEW r \in Runners, Start(r)
    PROVE  ContainerInv'
<1>1. /\ ctl[r].pc = "start" /\ ctl \in Boxes /\ Goto(r, "mark") /\ container[ctl[r].worker].state = "created"
      /\ container' = [container EXCEPT ![ctl[r].worker].state = "running"]
      /\ UNCHANGED <<lock, result, faults, hostVars, output, over>>
  BY Typed DEF Start, At
<1>2. /\ lease # None /\ lease.worker = ctl[r].worker /\ ctl[r].worker \in Workers /\ ctl[r].pc \notin {"away", "done"}
      /\ ~whole
  BY <1>1, AtLeased DEF Leased, Knows, Unfinished
<1>3. /\ ctl' \in Boxes /\ \A q \in Runners : q # r => ctl'[q] = ctl[q]
      /\ ctl'[r].pc = "mark" /\ ctl'[r].worker = ctl[r].worker
  BY <1>1, Going DEF ContainerPoints
<1>4. container \in [Workers -> [state : ContainerStates, exit : Exits \cup {None}]]
  BY Typed DEF OthersTyped
<1>5. /\ container' \in [Workers -> [state : ContainerStates, exit : Exits \cup {None}]]
      /\ \A j \in Workers : j # ctl[r].worker => container'[j] = container[j]
      /\ container'[ctl[r].worker].state = "running" /\ container'[ctl[r].worker].exit = container[ctl[r].worker].exit
  BY <1>1, <1>2, <1>4 DEF ContainerStates
<1>6. OthersTyped'
  BY <1>1, <1>5, Typed DEF OthersTyped, hostVars, replayVars
<1>7. container[ctl[r].worker].exit = None
  BY <1>1, <1>2, Typed DEF BoxInv
<1>8. \A j \in Workers : Present(j)' = Present(j)
  BY <1>1, <1>5 DEF Present
<1>9. \A j \in Workers : Present(j) => j = ctl[r].worker
  BY <1>2, Typed DEF BoxInv
<1>10. BoxInv'
  <2>1. EveryRunIsRecorded'
    BY <1>1, <1>2, <1>5, <1>7, Typed DEF BoxInv, EveryRunIsRecorded, Running, hostVars, replayVars
  <2>2. \A j \in Workers : container'[j].exit # None => container'[j].state \in {"exited", "removed", "disposed", "pruned"}
    BY <1>5, <1>7, Typed DEF BoxInv
  <2>3. \A j \in Workers : container'[j].exit = "ok" /\ container'[j].state = "exited" => output' # None
    BY <1>1, <1>5, Typed DEF BoxInv
  <2> QED
    BY <1>1, <1>2, <1>3, <1>8, <1>9, <2>1, <2>2, <2>3 DEF BoxInv, At, hostVars, replayVars
<1>11. Knows(r)'
  BY <1>1, <1>2, <1>3 DEF Knows, Unleased, hostVars, replayVars
<1> QED
  BY <1>1, <1>2, <1>3, <1>6, <1>10, <1>11, GoesOn

LEMMA MarkStep ==
    ASSUME ContainerInv, NEW r \in Runners, MarkStarted(r)
    PROVE  ContainerInv'
<1>1. /\ ctl[r].pc = "mark" /\ ctl \in Boxes /\ Goto(r, "collect") /\ lease' = [lease EXCEPT !.state = "active"]
      /\ UNCHANGED <<lock, result, faults, archive, reservation, replayVars, workVars>>
  BY Typed DEF MarkStarted, At
<1>2. /\ lease # None /\ lease.worker = ctl[r].worker /\ lease \in Leases /\ ctl[r].pc \notin {"away", "done"}
      /\ ~whole
  BY <1>1, AtLeased DEF Leased, Knows, Unfinished
<1>3. lease' \in Leases /\ lease'.worker = lease.worker
  BY <1>1, <1>2 DEF Leases, Open
<1>4. lease' # None
  BY <1>3, ContainerAssumption
<1>5. /\ ctl' \in Boxes /\ \A q \in Runners : q # r => ctl'[q] = ctl[q]
      /\ ctl'[r].pc = "collect" /\ ctl'[r].worker = ctl[r].worker
  BY <1>1, Going DEF ContainerPoints
<1>6. OthersTyped'
  BY <1>1, <1>3, Typed DEF OthersTyped, workVars, replayVars
<1>7. BoxInv'
  BY <1>1, <1>2, <1>3, <1>4, <1>5, Typed, SameLease DEF workVars
<1>8. Knows(r)'
  BY <1>1, <1>2, <1>3, <1>4, <1>5 DEF Knows, Unleased, replayVars
<1> QED
  BY <1>1, <1>2, <1>5, <1>6, <1>7, <1>8, GoesOn

LEMMA AbandonStepC ==
    ASSUME ContainerInv, NEW r \in Runners, ctl[r].pc \in {"lease", "start", "mark"}, Abandon(r), faults' \in 0..MaxFaults
    PROVE  ContainerInv'
<1>1. /\ ctl \in Boxes /\ Goto(r, "dispose") /\ reservation' = FALSE
      /\ lease' = IF ctl[r].pc = "lease" THEN lease ELSE [lease EXCEPT !.state = "closed", !.failed = TRUE]
      /\ UNCHANGED <<lock, result, archive, replayVars, workVars>>
  BY Typed DEF Abandon, At
<1>2. /\ ctl' \in Boxes /\ \A q \in Runners : q # r => ctl'[q] = ctl[q]
      /\ ctl'[r].pc = "dispose" /\ ctl'[r].worker = ctl[r].worker
  BY <1>1, Going DEF ContainerPoints
<1>3. CASE ctl[r].pc = "lease"
  <2>1. lease' = lease /\ lease = None /\ ctl[r].worker \in Workers /\ ~whole
    BY <1>1, <1>3 DEF ContainerInv, Knows, Unleased, Unfinished
  <2>2. OthersTyped'
    BY <1>1, <2>1, Typed DEF OthersTyped, workVars, replayVars
  <2>3. BoxInv'
    BY <1>1, <1>2, <2>1, Typed, BoxStays DEF workVars
  <2>4. Knows(r)'
    BY <1>1, <1>2, <2>1 DEF Knows, Leased, Unleased, Unfinished, replayVars
  <2> QED
    BY <1>1, <1>2, <1>3, <2>2, <2>3, <2>4, GoesOn
<1>4. CASE ctl[r].pc # "lease"
  <2>1. /\ lease # None /\ lease.worker = ctl[r].worker /\ lease \in Leases /\ ctl[r].worker \in Workers
        /\ ctl[r].pc \notin {"away", "done"} /\ ~whole
    BY <1>4, AtLeased DEF Leased, Knows, Unfinished
  <2>2. lease' \in Leases /\ lease'.worker = lease.worker
    BY <1>1, <1>4, <2>1 DEF Leases
  <2>3. lease' # None
    BY <2>2, ContainerAssumption
  <2>4. OthersTyped'
    BY <1>1, <2>2, Typed DEF OthersTyped, workVars, replayVars
  <2>5. BoxInv'
    BY <1>1, <1>2, <2>1, <2>2, <2>3, Typed, SameLease DEF workVars
  <2>6. Knows(r)'
    BY <1>1, <1>2, <2>1, <2>2 DEF Knows, Leased, Unleased, Unfinished, replayVars
  <2> QED
    BY <1>1, <1>2, <2>1, <2>4, <2>5, <2>6, GoesOn
<1> QED
  BY <1>3, <1>4

LEMMA LaunchFailsStep ==
    ASSUME ContainerInv, NEW r \in Runners, VerificationFails(r) \/ LaunchFails(r) \/ StartNothing(r)
    PROVE  ContainerInv'
<1>1. ctl[r].pc \in {"lease", "start", "mark"} /\ Abandon(r)
  BY DEF VerificationFails, LaunchFails, StartNothing, At
<1>2. faults' \in 0..MaxFaults
  BY Typed, Numbers DEF OthersTyped, VerificationFails, LaunchFails, StartNothing
<1> QED
  BY <1>1, <1>2, AbandonStepC

\* A container that is not running, or is removed by force, leaves its place.
LEMMA GoneBox ==
    ASSUME ContainerInv, NEW i \in Workers, NEW s \in {"removed", "disposed", "pruned"},
           container' = [container EXCEPT ![i].state = s], container[i].state # "none", 
           UNCHANGED <<result, lease, archive, output, over>>, reservation' \in BOOLEAN, faults' \in 0..MaxFaults,
           (\E q \in Runners : ctl'[q].pc # "done") \/ \A j \in Workers : j # i => ~Running(j),
           whole' \in BOOLEAN, disturbed' \in BOOLEAN
    PROVE  /\ OthersTyped' /\ BoxInv' /\ \A j \in Workers : (Present(j)' => Present(j)) /\ (Running(j)' => Running(j))
           /\ ~Present(i)' /\ \A j \in Workers : container'[j].exit = container[j].exit
           /\ \A j \in Workers : container'[j].state = "exited" => container[j].state = "exited"
<1>1. container \in [Workers -> [state : ContainerStates, exit : Exits \cup {None}]]
  BY Typed DEF OthersTyped
<1>2. /\ container' \in [Workers -> [state : ContainerStates, exit : Exits \cup {None}]]
      /\ \A j \in Workers : j # i => container'[j] = container[j]
      /\ container'[i].state = s /\ container'[i].exit = container[i].exit
  BY <1>1 DEF ContainerStates
<1>3. /\ \A j \in Workers : (Present(j)' => Present(j)) /\ (Running(j)' => Running(j) /\ j # i)
      /\ ~Present(i)' /\ \A j \in Workers : container'[j].exit = container[j].exit
      /\ \A j \in Workers : container'[j].state = "exited" => container[j].state = "exited"
  BY <1>2 DEF Present, Running
<1>4. OthersTyped'
  BY <1>2, Typed DEF OthersTyped
<1>5. BoxInv'
  <2>1. EveryRunIsRecorded'
    BY <1>3, Typed DEF BoxInv, EveryRunIsRecorded
  <2>2. \A j \in Workers : container'[j].exit # None => container'[j].state \in {"exited", "removed", "disposed", "pruned"}
    BY <1>2, Typed DEF BoxInv
  <2>3. \A j \in Workers : container'[j].exit = "ok" /\ container'[j].state = "exited" => output' # None
    BY <1>3, Typed DEF BoxInv
  <2> QED
    BY <1>3, <2>1, <2>2, <2>3, Typed DEF BoxInv, At
<1> QED
  BY <1>3, <1>4, <1>5

LEMMA DisposeStep ==
    ASSUME ContainerInv, NEW r \in Runners, Dispose(r)
    PROVE  ContainerInv'
<1>1. /\ ctl[r].pc = "dispose" /\ ctl \in Boxes /\ Answer(r) /\ whole' \in BOOLEAN /\ disturbed' \in BOOLEAN
      /\ UNCHANGED <<result, faults, lease, archive, reservation, output, over>>
  BY Typed, Failing DEF Dispose, At
<1>2. ctl[r].worker \in Workers /\ (lease = None \/ lease.worker = ctl[r].worker)
  BY <1>1 DEF ContainerInv, Knows
<1>3. CASE Present(ctl[r].worker)
  <2>1. container' = [container EXCEPT ![ctl[r].worker].state = "disposed"] /\ container[ctl[r].worker].state # "none"
    BY <1>3 DEF Dispose, Present
  <2>2. \A j \in Workers : j # ctl[r].worker => ~Running(j)
    BY <1>2, Typed DEF BoxInv, EveryRunIsRecorded
  <2>3. OthersTyped' /\ BoxInv'
    BY <1>1, <1>2, <2>1, <2>2, GoneBox, Typed DEF hostVars, replayVars, OthersTyped
  <2> QED
    BY <1>1, <2>3, Ends
<1>4. CASE ~Present(ctl[r].worker)
  <2>1. container' = container
    BY <1>4 DEF Dispose
  <2> QED
    BY <1>1, <1>2, <1>4, <2>1, ReadsAndAnswers, NothingRuns, PresentRuns, Typed DEF workVars, OthersTyped
<1> QED
  BY <1>3, <1>4

LEMMA StopStep ==
    ASSUME ContainerInv, NEW r \in Runners, StopExpired(r)
    PROVE  ContainerInv'
<1>1. /\ ctl[r].pc \in {"collect", "recollect"} /\ container' = Stopped(ctl[r].worker)
      /\ UNCHANGED <<dirVars, hostVars, output, over>>
  BY DEF StopExpired, Collecting, At
<1>2. /\ lease # None /\ lease.worker = ctl[r].worker /\ ctl[r].worker \in Workers /\ lease \in Leases
      /\ ctl[r].pc \notin {"away", "done"} /\ (ctl[r].pc = "collect" => ~whole)
  BY <1>1, AtLeased DEF Leased, Knows, Unfinished
<1>3. OthersTyped' /\ BoxInv'
  BY <1>1, <1>2, StoppedBox, Typed DEF hostVars, replayVars, dirVars, OthersTyped
<1>4. Knows(r)'
  BY <1>1, <1>2 DEF Knows, Leased, Unleased, Unfinished, hostVars, replayVars, dirVars
<1> QED
  BY <1>1, <1>2, <1>3, <1>4, GoesOn, Typed DEF dirVars

LEMMA ClosesLease ==
    ASSUME lease \in Leases
    PROVE  CloseLease \in Leases /\ CloseLease.worker = lease.worker
BY DEF CloseLease, Leases, Open

LEMMA CollectStepC ==
    ASSUME ContainerInv, NEW r \in Runners, Collect(r)
    PROVE  ContainerInv'
<1>1. /\ ctl[r].pc \in {"collect", "recollect"} /\ ~Running(ctl[r].worker) /\ Present(ctl[r].worker)
      /\ lease' = CloseLease /\ reservation' = FALSE /\ ctl \in Boxes
      /\ ctl' = [ctl EXCEPT ![r].seen = Outcome(ctl[r].worker, @), ![r].pc = IF @ = "collect" THEN "persist" ELSE "judge"]
      /\ UNCHANGED <<lock, result, faults, archive, replayVars, workVars>>
  BY Typed DEF Collect, Collecting, At
<1>2. /\ lease # None /\ lease.worker = ctl[r].worker /\ ctl[r].worker \in Workers /\ lease \in Leases
      /\ ctl[r].pc \notin {"away", "done"} /\ (ctl[r].pc = "collect" => ~whole)
  BY <1>1, AtLeased DEF Leased, Knows, Unfinished
<1>3. Outcome(ctl[r].worker, ctl[r].seen) \in Outcomes
  BY DEF Outcome, Outcomes
<1>4. container[ctl[r].worker].exit = "ok" => Outcome(ctl[r].worker, ctl[r].seen) \in {"success", "timeout"}
  BY DEF Outcome
<1>5. /\ ctl' \in Boxes /\ \A q \in Runners : q # r => ctl'[q] = ctl[q]
      /\ ctl'[r].pc = IF ctl[r].pc = "collect" THEN "persist" ELSE "judge"
      /\ ctl'[r].worker = ctl[r].worker /\ ctl'[r].seen = Outcome(ctl[r].worker, ctl[r].seen)
  BY <1>1, <1>3 DEF Boxes, ContainerPoints
<1>6. lease' \in Leases /\ lease'.worker = lease.worker
  BY <1>1, <1>2, ClosesLease
<1>7. lease' # None /\ ctl'[r].pc \notin {"away", "done"}
  BY <1>5, <1>6, ContainerAssumption
<1>8. OthersTyped'
  BY <1>1, <1>6, Typed DEF OthersTyped, workVars, replayVars
<1>9. BoxInv'
  BY <1>1, <1>2, <1>6, <1>7, Typed, SameLease DEF workVars
<1>10. ~Running(ctl[r].worker)'
  BY <1>1, <1>5 DEF Running, workVars
<1>11. Knows(r)'
  BY <1>1, <1>2, <1>4, <1>5, <1>6, <1>7, <1>10 DEF Knows, Unleased, Unfinished, workVars, replayVars
<1> QED
  BY <1>1, <1>2, <1>5, <1>7, <1>8, <1>9, <1>11, GoesOn

LEMMA OverBudgetStep ==
    ASSUME ContainerInv, NEW r \in Runners, CollectOverBudget(r)
    PROVE  ContainerInv'
<1>1. /\ ctl[r].pc \in {"collect", "recollect"} /\ container' = Stopped(ctl[r].worker) /\ lease' = CloseLease
      /\ reservation' = FALSE /\ Answer(r) /\ UNCHANGED <<result, faults, archive, output, over>>
      /\ whole' \in BOOLEAN /\ disturbed' \in BOOLEAN
  BY Failing DEF CollectOverBudget, Collecting, At
<1>2. /\ lease # None /\ lease.worker = ctl[r].worker /\ ctl[r].worker \in Workers /\ lease \in Leases
      /\ ctl[r].pc \notin {"away", "done"}
  BY <1>1, AtLeased DEF Leased
<1>3. lease' \in Leases /\ lease'.worker = ctl[r].worker
  BY <1>1, <1>2, ClosesLease
<1>4. OthersTyped' /\ BoxInv'
  BY <1>1, <1>2, <1>3, StoppedBox, Typed DEF OthersTyped
<1> QED
  BY <1>1, <1>2, <1>4, Ends

LEMMA PersistStep ==
    ASSUME ContainerInv, NEW r \in Runners, PersistResult(r)
    PROVE  ContainerInv'
<1>1. /\ ctl[r].pc = "persist" /\ ctl \in Boxes /\ Goto(r, "cleanup")
      /\ result' = [worker |-> ctl[r].worker, writer |-> IF ctl[r].seen \in {"timeout", "oom"} THEN None ELSE output]
      /\ whole' = TRUE /\ UNCHANGED <<lock, faults, lease, archive, reservation, disturbed, workVars>>
  BY Typed DEF PersistResult, At
<1>2. /\ lease # None /\ lease.worker = ctl[r].worker /\ ctl[r].worker \in Workers /\ ctl[r].pc \notin {"away", "done"}
      /\ ~Running(ctl[r].worker)
  BY <1>1, AtLeased DEF Leased, Knows
<1>3. result' \in Results
  BY <1>1, <1>2, Typed DEF Results, OthersTyped
<1>4. result' # None
  BY <1>3, DirectoryAssumption
<1>5. /\ ctl' \in Boxes /\ \A q \in Runners : q # r => ctl'[q] = ctl[q]
      /\ ctl'[r].pc = "cleanup" /\ ctl'[r].worker = ctl[r].worker
  BY <1>1, Going DEF ContainerPoints
<1>6. OthersTyped'
  BY <1>1, <1>3, Typed DEF OthersTyped, hostVars, replayVars, workVars
<1>7. BoxInv'
  BY <1>1, <1>5, Typed, BoxStays DEF hostVars, replayVars, workVars
<1>8. ~Running(ctl[r].worker)'
  BY <1>1, <1>2, <1>5 DEF Running, workVars
<1>9. Knows(r)'
  BY <1>1, <1>2, <1>4, <1>5, <1>8 DEF Knows, Unleased, Unfinished, hostVars, replayVars
<1> QED
  BY <1>1, <1>2, <1>5, <1>6, <1>7, <1>9, GoesOn

LEMMA CleanupStep ==
    ASSUME ContainerInv, NEW r \in Runners, Cleanup(r)
    PROVE  ContainerInv'
<1>1. /\ ctl[r].pc \in {"discard", "cleanup", "tidy"} /\ ctl \in Boxes
      /\ UNCHANGED <<result, faults, lease, archive, output, over>>
  BY Typed DEF Cleanup
<1>2. /\ lease # None /\ lease.worker = ctl[r].worker /\ ctl[r].worker \in Workers /\ ctl[r].pc \notin {"away", "done"}
      /\ ~Running(ctl[r].worker) /\ (ctl[r].pc = "discard" => ~whole) /\ (ctl[r].pc = "cleanup" => whole)
  BY <1>1, AtLeased DEF Leased, Knows, Unfinished
<1>3. \A i \in Workers : ~Running(i)
  BY <1>2, NothingRuns
<1>4. CASE ~Present(ctl[r].worker)
  <2>1. Answer(r) /\ whole' \in BOOLEAN /\ disturbed' \in BOOLEAN /\ UNCHANGED <<container, reservation>>
    BY <1>4, Failing DEF Cleanup
  <2> QED
    BY <1>1, <1>2, <1>3, <2>1, ReadsAndAnswers, Typed DEF workVars, OthersTyped
<1>5. CASE Present(ctl[r].worker)
  <2>1. /\ container' = [container EXCEPT ![ctl[r].worker].state = "removed"] /\ reservation' = FALSE
        /\ container[ctl[r].worker].state # "none" /\ UNCHANGED <<whole, disturbed>>
    BY <1>2, <1>5 DEF Cleanup, Present, replayVars
  <2>2. /\ OthersTyped' /\ BoxInv' /\ ~(container'[ctl[r].worker].state \in {"created", "running", "exited"})
    BY <1>1, <1>2, <1>3, <2>1, GoneBox, Typed DEF OthersTyped, Present
  <2>3. CASE ctl[r].pc = "tidy"
    BY <1>2, <1>5, <2>2, <2>3, Ends DEF Cleanup, At
  <2>4. CASE ctl[r].pc # "tidy"
    <3>1. PICK point \in {"archive", "drop"} : Goto(r, point) /\ lock' = lock /\ ctl[r].pc = (IF point = "archive" THEN "discard" ELSE "cleanup")
      BY <1>1, <1>2, <1>5, <2>4 DEF Cleanup, At
    <3>2. /\ ctl' \in Boxes /\ \A q \in Runners : q # r => ctl'[q] = ctl[q]
          /\ ctl'[r].pc = point /\ ctl'[r].worker = ctl[r].worker
      <4>1. point \in ContainerPoints
        BY DEF ContainerPoints
      <4> QED
        BY <1>1, <3>1, <4>1, Going
    <3>3. ~Present(ctl[r].worker)'
      BY <2>2, <3>2 DEF Present
    <3>4. Knows(r)'
      BY <1>1, <1>2, <2>1, <3>1, <3>2, <3>3 DEF Knows, Unleased, Unfinished, replayVars
    <3> QED
      BY <1>2, <2>2, <3>1, <3>2, <3>4, GoesOn
  <2> QED
    BY <2>3, <2>4
<1> QED
  BY <1>4, <1>5

LEMMA DropStep ==
    ASSUME ContainerInv, NEW r \in Runners, DropOutput(r)
    PROVE  ContainerInv'
<1>1. ctl[r].pc = "drop" /\ output' = None /\ Answer(r) /\ UNCHANGED <<result, faults, hostVars, container, over>>
  BY DEF DropOutput, At
<1>2. /\ lease # None /\ lease.worker = ctl[r].worker /\ ctl[r].worker \in Workers /\ ctl[r].pc \notin {"away", "done"}
      /\ ~Present(ctl[r].worker)
  BY <1>1, AtLeased DEF Leased, Knows
<1>3. \A i \in Workers : ~Present(i)
  BY <1>2, Typed DEF BoxInv
<1>4. OthersTyped'
  BY <1>1, Typed DEF OthersTyped, hostVars, replayVars
<1>5. BoxInv'
  BY <1>1, <1>3, PresentRuns, Typed DEF BoxInv, EveryRunIsRecorded, Present, Running, hostVars, replayVars
<1> QED
  BY <1>1, <1>2, <1>4, <1>5, Ends

-----------------------------------------------------------------------------
(* The worker and the daemon.                                              *)

\* While a runner looks on, a worker may only write, end or be pruned away.
LEMMA WorkerKeeps ==
    ASSUME ContainerInv, UNCHANGED <<ctl, lock, result, lease, archive, whole>>, OthersTyped', BoxInv',
           \A i \in Workers : (Present(i)' => Present(i)) /\ (Running(i)' => Running(i)),
           \A i \in Workers : ~Running(i) => container'[i].exit = container[i].exit,
           \A i \in Workers : container'[i].state = "exited" => container[i].state \in {"running", "exited"}
    PROVE  ContainerInv'
<1>1. ContainerTypeOK' /\ LockInv'
  BY Typed DEF ContainerTypeOK, OthersTyped, Boxes, LockInv
<1>2. ASSUME NEW q \in Runners
      PROVE  Knows(q)'
  <2>1. Knows(q)
    BY DEF ContainerInv
  <2>2. ctl[q].pc \in Leased => ctl[q].worker \in Workers
    BY AtLeased
  <2>3. ctl[q].pc \in {"archive", "release", "drop"} => ~Present(ctl[q].worker)'
    BY <2>1, <2>2 DEF Knows, Leased
  <2>4. ctl[q].pc \in {"judge", "persist", "discard", "cleanup", "tidy"} => ~Running(ctl[q].worker)'
    BY <2>1, <2>2 DEF Knows, Leased
  <2>5. ctl[q].pc \in {"judge", "discard"} => container'[ctl[q].worker].exit = container[ctl[q].worker].exit
    BY <2>1, <2>2 DEF Knows, Leased
  <2>6. ctl[q].pc = "discard" /\ container'[ctl[q].worker] = [state |-> "exited", exit |-> "ok"] => ctl[q].seen = "timeout"
    <3> SUFFICES ASSUME ctl[q].pc = "discard", container'[ctl[q].worker] = [state |-> "exited", exit |-> "ok"]
                 PROVE  ctl[q].seen = "timeout"
      OBVIOUS
    <3>1. ctl[q].worker \in Workers /\ ~Running(ctl[q].worker)
      BY <2>1, <2>2 DEF Knows, Leased
    <3>2. container[ctl[q].worker].state = "exited" /\ container[ctl[q].worker].exit = "ok"
      BY <2>5, <3>1 DEF Running
    <3>3. container[ctl[q].worker] \in [state : ContainerStates, exit : Exits \cup {None}]
      BY <3>1, Typed DEF OthersTyped
    <3>4. container[ctl[q].worker] = [state |-> "exited", exit |-> "ok"]
      BY <3>2, <3>3
    <3> QED
      BY <2>1, <3>4 DEF Knows
  <2> QED
    BY <2>1, <2>2, <2>3, <2>4, <2>5, <2>6 DEF Knows, hostVars, replayVars
<1> QED
  BY <1>1, <1>2 DEF ContainerInv

LEMMA WriteOutputStep ==
    ASSUME ContainerInv, NEW i \in Workers, WriteOutput(i)
    PROVE  ContainerInv'
<1>1. output' = i /\ UNCHANGED <<ctl, lock, result, faults, hostVars, container, over>>
  BY DEF WriteOutput, dirVars
<1>2. OthersTyped'
  BY <1>1, Typed DEF OthersTyped, hostVars, replayVars
<1>3. BoxInv'
  <2>1. output' # None
    BY <1>1, Numbers
  <2> QED
    BY <1>1, <2>1, Typed DEF BoxInv, EveryRunIsRecorded, Present, Running, At, hostVars, replayVars
<1>4. \A j \in Workers : (Present(j)' => Present(j)) /\ (Running(j)' => Running(j))
  BY <1>1 DEF Present, Running
<1>5. \A j \in Workers : container'[j].state = "exited" => container[j].state \in {"running", "exited"}
  BY <1>1
<1>6. \A j \in Workers : ~Running(j) => container'[j].exit = container[j].exit
  BY <1>1
<1> QED
  BY <1>1, <1>2, <1>3, <1>4, <1>5, <1>6, WorkerKeeps DEF hostVars, replayVars

LEMMA ExitStep ==
    ASSUME ContainerInv, NEW i \in Workers, NEW code \in Exits, Exit(i, code)
    PROVE  ContainerInv'
<1>1. /\ Running(i) /\ (code = "ok" => output = i)
      /\ container' = [container EXCEPT ![i] = [state |-> "exited", exit |-> code]]
      /\ UNCHANGED <<ctl, lock, result, faults, hostVars, output, over>>
  BY DEF Exit, dirVars
<1>2. container \in [Workers -> [state : ContainerStates, exit : Exits \cup {None}]]
  BY Typed DEF OthersTyped
<1>3. [state |-> "exited", exit |-> code] \in [state : ContainerStates, exit : Exits \cup {None}]
  BY DEF ContainerStates
<1>4. /\ container' \in [Workers -> [state : ContainerStates, exit : Exits \cup {None}]]
      /\ \A j \in Workers : j # i => container'[j] = container[j]
      /\ container'[i].state = "exited" /\ container'[i].exit = code
  BY <1>1, <1>2, <1>3
<1>5. container[i].state = "running" /\ lease # None /\ lease.worker = i
  BY <1>1, Typed DEF Running, BoxInv, EveryRunIsRecorded
<1>6. \A j \in Workers : (Present(j)' <=> Present(j)) /\ (Running(j)' => Running(j) /\ j # i)
  BY <1>4, <1>5 DEF Present, Running
<1>7. OthersTyped'
  BY <1>1, <1>4, Typed DEF OthersTyped, hostVars, replayVars
<1>8. BoxInv'
  <2>1. EveryRunIsRecorded'
    BY <1>1, <1>4, <1>5, <1>6, Typed DEF BoxInv, EveryRunIsRecorded, hostVars, replayVars
  <2>2. \A j \in Workers : container'[j].exit # None => container'[j].state \in {"exited", "removed", "disposed", "pruned"}
    BY <1>4, Typed DEF BoxInv
  <2>3. \A j \in Workers : container'[j].exit = "ok" /\ container'[j].state = "exited" => output' # None
    BY <1>1, <1>4, Numbers, Typed DEF BoxInv
  <2> QED
    BY <1>1, <1>6, <2>1, <2>2, <2>3, Typed DEF BoxInv, At, hostVars, replayVars
<1>9. /\ \A j \in Workers : container'[j].state = "exited" => container[j].state \in {"running", "exited"}
      /\ \A j \in Workers : ~Running(j) => container'[j].exit = container[j].exit
  BY <1>1, <1>4, <1>5
<1> QED
  BY <1>1, <1>6, <1>7, <1>8, <1>9, WorkerKeeps DEF hostVars, replayVars

LEMMA OverflowStep ==
    ASSUME ContainerInv, NEW i \in Workers, Overflow(i)
    PROVE  ContainerInv'
<1>1. /\ over' = TRUE /\ faults < MaxFaults /\ faults' = faults + 1
      /\ UNCHANGED <<ctl, lock, result, hostVars, container, output>>
  BY DEF Overflow
<1>2. OthersTyped'
  BY <1>1, Typed, Numbers DEF OthersTyped, hostVars, replayVars
<1>3. BoxInv'
  BY <1>1, Typed DEF BoxInv, EveryRunIsRecorded, Present, Running, At, hostVars, replayVars
<1>4. \A j \in Workers : (Present(j)' => Present(j)) /\ (Running(j)' => Running(j))
  BY <1>1 DEF Present, Running
<1>5. /\ \A j \in Workers : container'[j].state = "exited" => container[j].state \in {"running", "exited"}
      /\ \A j \in Workers : ~Running(j) => container'[j].exit = container[j].exit
  BY <1>1
<1> QED
  BY <1>1, <1>2, <1>3, <1>4, <1>5, WorkerKeeps DEF hostVars, replayVars

LEMMA PruneStep ==
    ASSUME ContainerInv, NEW i \in Workers, Prune(i)
    PROVE  ContainerInv'
<1>1. /\ container[i].state \in {"created", "exited"} /\ faults < MaxFaults
      /\ container' = [container EXCEPT ![i].state = "pruned"] /\ faults' = faults + 1
      /\ disturbed' = TRUE /\ UNCHANGED <<ctl, lock, result, lease, archive, reservation, whole, output, over>>
  BY DEF Prune
<1>2. \A j \in Workers : j # i => ~Running(j)
  BY <1>1, PresentRuns, Typed DEF BoxInv, Present
<1>3. faults' \in 0..MaxFaults /\ reservation' \in BOOLEAN /\ whole' \in BOOLEAN /\ disturbed' \in BOOLEAN
  BY <1>1, Typed, Numbers DEF OthersTyped, hostVars, replayVars
<1>4. /\ OthersTyped' /\ BoxInv' /\ \A j \in Workers : (Present(j)' => Present(j)) /\ (Running(j)' => Running(j))
      /\ \A j \in Workers : container'[j].exit = container[j].exit
      /\ \A j \in Workers : container'[j].state = "exited" => container[j].state = "exited"
  BY <1>1, <1>2, <1>3, GoneBox DEF hostVars, replayVars
<1> QED
  BY <1>1, <1>4, WorkerKeeps DEF hostVars, replayVars

-----------------------------------------------------------------------------
LEMMA ContainerStarts == ContainerInit => ContainerInv
<1> SUFFICES ASSUME ContainerInit PROVE ContainerInv
  OBVIOUS
<1>1. /\ ctl = [r \in Runners |-> [pc |-> "away", worker |-> None, seen |-> None]]
      /\ lock = None /\ result = None /\ faults = 0
      /\ container = [i \in Workers |-> [state |-> "none", exit |-> None]]
      /\ lease = None /\ archive = {} /\ reservation = FALSE /\ output = None /\ over = FALSE
      /\ whole = FALSE /\ disturbed = FALSE
  BY DEF ContainerInit, DirInit, Away
<1>2. ContainerTypeOK
  <2>1. [pc |-> "away", worker |-> None, seen |-> None] \in [pc : ContainerPoints, worker : Workers \cup {None}, seen : Outcomes \cup {None}]
    BY DEF ContainerPoints
  <2>2. [state |-> "none", exit |-> None] \in [state : ContainerStates, exit : Exits \cup {None}]
    BY DEF ContainerStates
  <2> QED
    <3>1. ctl \in Boxes
      BY <1>1, <2>1 DEF Boxes
    <3>2. OthersTyped
      <4>1. container \in [Workers -> [state : ContainerStates, exit : Exits \cup {None}]]
        BY <1>1, <2>2
      <4>2. faults \in 0..MaxFaults
        BY <1>1, Numbers
      <4> QED
        BY <1>1, <4>1, <4>2 DEF OthersTyped
    <3> QED
      BY <1>1, <3>1, <3>2 DEF ContainerTypeOK, OthersTyped, Boxes
<1>3. LockInv
  BY <1>1, Numbers DEF LockInv
<1>4. \A i \in Workers : container[i].state = "none" /\ container[i].exit = None
  BY <1>1
<1>5. BoxInv
  BY <1>1, <1>4 DEF BoxInv, EveryRunIsRecorded, Present, Running
<1>6. \A r \in Runners : Knows(r)
  BY <1>1, IdleKnows
<1> QED
  BY <1>2, <1>3, <1>5, <1>6 DEF ContainerInv

LEMMA ContainerSteps ==
    ASSUME ContainerInv, ContainerNext
    PROVE  ContainerInv'
<1>1. ASSUME NEW r \in Runners, RunnerStep(r)
      PROVE  ContainerInv'
  BY <1>1, AcquireStep, ConflictStep, OpenStep, RecoverStep, TerminateStep, CloseRecoveredStep, InspectStep,
     JudgePriorStep, ArchiveStep, ReleaseStep, ForgetStep, ReserveStep, CreateStepC, PersistLeaseStep, StartStep,
     MarkStep, LaunchFailsStep, DisposeStep, ExpireStep, StopStep, CollectStepC, OverBudgetStep, CollectNothingStep,
     PersistStep, CleanupStep, DropStep DEF RunnerStep
<1>2. ASSUME NEW r \in Runners, VerificationFails(r) \/ LaunchFails(r) \/ ServiceFails(r) \/ KillContainerRunner(r)
      PROVE  ContainerInv'
  BY <1>2, LaunchFailsStep, ServiceFailsStep, KillStepC
<1>3. ASSUME NEW i \in Workers, WorkerStep(i)
      PROVE  ContainerInv'
  BY <1>3, WriteOutputStep, OverflowStep, PruneStep, ExitStep DEF WorkerStep
<1> QED
  BY <1>1, <1>2, <1>3 DEF ContainerNext

LEMMA ContainerStutters ==
    ASSUME ContainerInv, UNCHANGED containerVars
    PROVE  ContainerInv'
BY DEF ContainerInv, ContainerTypeOK, LockInv, BoxInv, EveryRunIsRecorded, Knows, Present, Running, At,
       containerVars, dirVars, hostVars, replayVars, workVars

-----------------------------------------------------------------------------
(* A runner with a worker in a process group.                              *)

Posts == [Runners -> [pc : ProcessPoints, worker : Workers \cup {None}, seen : {"timeout", None}]]

HostTyped ==
    /\ result \in Results \cup {None} /\ faults \in 0..MaxFaults
    /\ process \in [Workers -> [state : ProcessStates, leased : BOOLEAN]]
    /\ marker \in Markers \cup {None} /\ gate \in BOOLEAN /\ boot \in 0..MaxFaults
    /\ stranger \in [of : Workers \cup {None}, hit : BOOLEAN]

LEMMA HostIsTyped ==
    ProcessInv => ctl \in Posts /\ HostTyped /\ lock \in Runners \cup {None} /\ LockInv /\ GroupInv
BY DEF ProcessInv, ProcessTypeOK, HostTyped, Posts

LEMMA IdleFinds ==
    ASSUME NEW r, ctl[r].pc \in {"away", "done"}
    PROVE  Finds(r)
BY DEF Finds

\* The worker that a marker names was given a lease.
LEMMA Marked ==
    ASSUME ProcessInv, marker # None
    PROVE  /\ marker \in Markers /\ marker.worker \in Workers
           /\ process[marker.worker].leased /\ process[marker.worker].state # "none"
<1>1. marker \in Markers /\ marker.worker \in Workers
  BY HostIsTyped DEF HostTyped, Markers
<1> QED
  BY <1>1, HostIsTyped DEF GroupInv

LEMMA PostGoes ==
    ASSUME ctl \in Posts, NEW r \in Runners, NEW point \in ProcessPoints, Goto(r, point)
    PROVE  /\ ctl' \in Posts /\ \A q \in Runners : q # r => ctl'[q] = ctl[q]
           /\ ctl'[r].pc = point /\ ctl'[r].worker = ctl[r].worker /\ ctl'[r].seen = ctl[r].seen
BY DEF Goto, Posts

LEMMA PostAnswers ==
    ASSUME ctl \in Posts, NEW r \in Runners, Answer(r)
    PROVE  /\ ctl' \in Posts /\ \A q \in Runners : q # r => ctl'[q] = ctl[q]
           /\ ctl'[r].pc = "done" /\ lock' = None
<1>0. [Away EXCEPT !.pc = "done"] = [pc |-> "done", worker |-> None, seen |-> None]
  BY DEF Away
<1>1. ctl' = [ctl EXCEPT ![r] = [pc |-> "done", worker |-> None, seen |-> None]]
  BY <1>0 DEF Answer
<1>2. [pc |-> "done", worker |-> None, seen |-> None] \in [pc : ProcessPoints, worker : Workers \cup {None}, seen : {"timeout", None}]
  BY DEF ProcessPoints
<1> QED
  BY <1>1, <1>2 DEF Posts, Answer

\* The holder goes on, in the native half as with containers.
LEMMA HolderGoesOn ==
    ASSUME ProcessInv, NEW r \in Runners, ctl[r].pc \notin {"away", "done"}, lock' = lock,
           ctl' \in Posts, \A q \in Runners : q # r => ctl'[q] = ctl[q], ctl'[r].pc \notin {"away", "done"},
           HostTyped', GroupInv', Finds(r)'
    PROVE  ProcessInv'
<1>1. lock = r /\ \A q \in Runners : q # r => ctl[q].pc \in {"away", "done"}
  BY Holder, HostIsTyped
<1>2. LockInv'
  BY <1>1 DEF LockInv
<1>3. ASSUME NEW q \in Runners
      PROVE  Finds(q)'
  <2>1. CASE q = r
    BY <2>1
  <2>2. CASE q # r
    <3>1. ctl'[q].pc \in {"away", "done"}
      BY <1>1, <2>2
    <3> QED
      BY <3>1 DEF Finds
  <2> QED
    BY <2>1, <2>2
<1>4. ProcessTypeOK'
  BY HostIsTyped DEF ProcessTypeOK, HostTyped, Posts
<1> QED
  BY <1>2, <1>3, <1>4 DEF ProcessInv

LEMMA HolderEnds ==
    ASSUME ProcessInv, NEW r \in Runners, ctl[r].pc \notin {"away", "done"}, Answer(r), HostTyped', GroupInv'
    PROVE  ProcessInv'
<1>1. lock = r /\ \A q \in Runners : q # r => ctl[q].pc \in {"away", "done"}
  BY Holder, HostIsTyped
<1>2. /\ ctl' \in Posts /\ \A q \in Runners : q # r => ctl'[q] = ctl[q]
      /\ ctl'[r].pc = "done" /\ lock' = None
  BY HostIsTyped, PostAnswers
<1>3. \A q \in Runners : ctl'[q].pc \in {"away", "done"}
  BY <1>1, <1>2
<1>4. LockInv'
  BY <1>2, <1>3, Numbers DEF LockInv
<1>5. \A q \in Runners : Finds(q)'
  BY <1>3 DEF Finds
<1>6. ProcessTypeOK'
  BY <1>2 DEF ProcessTypeOK, HostTyped, Posts
<1> QED
  BY <1>4, <1>5, <1>6 DEF ProcessInv

\* The groups and the marker stay as they are, and somebody is left to look at
\* a group with a lease.
LEMMA GroupStays ==
    ASSUME GroupInv, UNCHANGED <<process, marker, gate, boot, stranger>>, faults \in Nat, boot \in Nat, 
           faults' \in {faults, faults + 1},
           (\E q \in Runners : ctl'[q].pc # "done") \/ \A i \in Workers : ~Guarded(i)
    PROVE  GroupInv'
<1>1. boot' <= faults'
  BY DEF GroupInv
<1> QED
  BY <1>1 DEF GroupInv, Guarded, Led, At

\* What leads its group under a lease is the worker of the active marker.
LEMMA NothingLeads ==
    ASSUME ProcessInv, marker = None \/ marker.state # "active" \/ marker.boot # boot \/ ~Led(marker.worker)
    PROVE  \A i \in Workers : ~Guarded(i)
BY HostIsTyped DEF GroupInv, Guarded

LEMMA AcquireNative ==
    ASSUME ProcessInv, NEW r \in Runners, Acquire(r), UNCHANGED <<markerVars, hostProcesses>>
    PROVE  ProcessInv'
<1>1. ctl[r].pc = "away" /\ lock = None /\ lock' = r /\ Goto(r, "open") /\ UNCHANGED <<result, faults>>
  BY DEF Acquire, At
<1>2. /\ ctl' \in Posts /\ \A q \in Runners : q # r => ctl'[q] = ctl[q]
      /\ ctl'[r].pc = "open"
  BY <1>1, HostIsTyped, PostGoes DEF ProcessPoints
<1>3. \A q \in Runners : q # r => ctl'[q].pc \in {"away", "done"}
  BY <1>1, <1>2, HostIsTyped, Numbers DEF LockInv
<1>4. LockInv'
  BY <1>1, <1>2, <1>3 DEF LockInv
<1>5. \A q \in Runners : Finds(q)'
  BY <1>2, <1>3 DEF Finds
<1>6. faults \in Nat /\ boot \in Nat
  BY HostIsTyped, Numbers DEF HostTyped
<1>7. GroupInv'
  BY <1>1, <1>2, <1>6, HostIsTyped, GroupStays DEF markerVars, hostProcesses
<1>8. ProcessTypeOK'
  BY <1>1, <1>2, HostIsTyped DEF ProcessTypeOK, HostTyped, Posts, markerVars, hostProcesses
<1> QED
  BY <1>4, <1>5, <1>7, <1>8 DEF ProcessInv

\* A step of a runner that does not hold the lock leaves what the holder knows.
LEMMA FindsStays ==
    ASSUME NEW q, Finds(q), ctl'[q] = ctl[q], UNCHANGED <<markerVars, hostProcesses>>
    PROVE  Finds(q)'
BY DEF Finds, Led, markerVars, hostProcesses

LEMMA ConflictNative ==
    ASSUME ProcessInv, NEW r \in Runners, Conflict(r), UNCHANGED <<markerVars, hostProcesses>>
    PROVE  ProcessInv'
<1>1. ctl[r].pc = "away" /\ lock # None /\ lock' = lock /\ Goto(r, "done") /\ UNCHANGED <<result, faults>>
  BY DEF Conflict, At
<1>2. /\ ctl' \in Posts /\ \A q \in Runners : q # r => ctl'[q] = ctl[q]
      /\ ctl'[r].pc = "done"
  BY <1>1, HostIsTyped, PostGoes DEF ProcessPoints
<1>3. LockInv'
  BY <1>1, <1>2, HostIsTyped DEF LockInv
<1>4. \A q \in Runners : Finds(q)'
  BY <1>2, FindsStays DEF ProcessInv, Finds
<1>5. \E q \in Runners : ctl'[q].pc # "done"
  <2>1. lock \in Runners /\ ctl[lock].pc \notin {"away", "done"}
    BY <1>1, HostIsTyped DEF LockInv
  <2> QED
    BY <1>1, <1>2, <2>1
<1>6. faults \in Nat /\ boot \in Nat
  BY HostIsTyped, Numbers DEF HostTyped
<1>7. GroupInv'
  BY <1>1, <1>5, <1>6, HostIsTyped, GroupStays DEF markerVars, hostProcesses
<1>8. ProcessTypeOK'
  BY <1>1, <1>2, HostIsTyped DEF ProcessTypeOK, HostTyped, Posts, markerVars, hostProcesses
<1> QED
  BY <1>3, <1>4, <1>7, <1>8 DEF ProcessInv

LEMMA KillNative ==
    ASSUME ProcessInv, NEW r \in Runners, KillRunner(r), UNCHANGED <<markerVars, hostProcesses>>
    PROVE  ProcessInv'
<1>1. /\ ctl' = [ctl EXCEPT ![r] = [pc |-> "away", worker |-> None, seen |-> None]]
      /\ lock' = (IF lock = r THEN None ELSE lock) /\ faults' = faults + 1 /\ faults < MaxFaults /\ result' = result
  BY DEF KillRunner, Away
<1>2. [pc |-> "away", worker |-> None, seen |-> None] \in [pc : ProcessPoints, worker : Workers \cup {None}, seen : {"timeout", None}]
  BY DEF ProcessPoints
<1>3. ctl' \in Posts /\ ctl'[r].pc = "away" /\ \A q \in Runners : q # r => ctl'[q] = ctl[q]
  BY <1>1, <1>2, HostIsTyped DEF Posts
<1>4. LockInv'
  BY <1>1, <1>3, HostIsTyped, Numbers DEF LockInv
<1>5. \A q \in Runners : Finds(q)'
  BY <1>3, FindsStays DEF ProcessInv, Finds
<1>6. faults \in Nat /\ boot \in Nat
  BY HostIsTyped, Numbers DEF HostTyped
<1>7. GroupInv'
  BY <1>1, <1>3, <1>6, HostIsTyped, GroupStays DEF markerVars, hostProcesses
<1>8. ProcessTypeOK'
  BY <1>1, <1>3, HostIsTyped, Numbers DEF ProcessTypeOK, HostTyped, Posts, markerVars, hostProcesses
<1> QED
  BY <1>4, <1>5, <1>7, <1>8 DEF ProcessInv

LEMMA NativeReads ==
    ASSUME ProcessInv, NEW r \in Runners, ctl[r].pc \notin {"away", "done"},
           UNCHANGED <<lock, result, faults, marker, hostProcesses>>, gate' = gate,
           ctl' \in Posts, \A q \in Runners : q # r => ctl'[q] = ctl[q], ctl'[r].pc \notin {"away", "done"}, Finds(r)'
    PROVE  ProcessInv'
<1>1. HostTyped'
  BY HostIsTyped DEF HostTyped, hostProcesses
<1>2. faults \in Nat /\ boot \in Nat
  BY HostIsTyped, Numbers DEF HostTyped
<1>3. GroupInv'
  BY <1>2, HostIsTyped, GroupStays DEF hostProcesses
<1> QED
  BY <1>1, <1>3, HolderGoesOn

LEMMA NativeAnswers ==
    ASSUME ProcessInv, NEW r \in Runners, ctl[r].pc \notin {"away", "done"}, Answer(r),
           result' \in Results \cup {None}, UNCHANGED <<faults, marker, gate, hostProcesses>>, \A i \in Workers : ~Guarded(i)
    PROVE  ProcessInv'
<1>1. HostTyped'
  BY HostIsTyped DEF HostTyped, hostProcesses
<1>2. faults \in Nat /\ boot \in Nat
  BY HostIsTyped, Numbers DEF HostTyped
<1>3. GroupInv'
  BY <1>2, HostIsTyped, GroupStays DEF hostProcesses
<1> QED
  BY <1>1, <1>3, HolderEnds

\* Groups that stop, whatever stops them.
Shrinks ==
    \A j \in Workers :
      /\ process'[j].leased = process[j].leased
      /\ process'[j].state = "none" <=> process[j].state = "none"
      /\ process'[j].state = "waiting" => process[j].state = "waiting"
      /\ process'[j].state = "working" => process[j].state = "working"
      /\ process[j].state = "exited" => process'[j].state = "exited"

LEMMA GroupShrinks ==
    ASSUME GroupInv, Shrinks, gate' = gate \/ gate' = FALSE, boot' <= faults',
           marker' # None => process[marker'.worker].leased /\ marker'.worker \in Workers,
           stranger'.of \in {stranger.of, None}, ~stranger'.hit,
           \A i \in Workers : Guarded(i) /\ Guarded(i)' => marker' = marker /\ boot' = boot /\ \E q \in Runners : ctl'[q].pc # "done"
    PROVE  GroupInv'
<1>1. \A i \in Workers : Led(i)' => Led(i)
  BY DEF Shrinks, Led
<1>2. \A i \in Workers : Guarded(i)' => Guarded(i)
  BY <1>1 DEF Shrinks, Guarded
<1>3. \A i \in Workers : Guarded(i)' =>
         /\ marker' # None /\ marker'.worker = i /\ marker'.state = "active" /\ marker'.boot = boot'
         /\ \E r \in Runners : ctl'[r].pc # "done"
  BY <1>2 DEF GroupInv
<1>4. \A i \in Workers : /\ ~process'[i].leased
                         /\ process'[i].state = "working" \/ (gate' /\ process'[i].state = "waiting")
                         => \E j \in Workers : j > i /\ process'[j].leased
  BY DEF GroupInv, Shrinks
<1>5. \A i \in Workers : stranger'.of = i => process'[i].state = "exited"
  BY Numbers DEF GroupInv, Shrinks
<1>6. /\ \A i, j \in Workers : process'[i].state = "none" /\ i < j => process'[j].state = "none"
      /\ \A i \in Workers : process'[i].state = "none" => ~process'[i].leased
      /\ marker' # None => process'[marker'.worker].leased
  BY DEF GroupInv, Shrinks
<1> QED
  BY <1>3, <1>4, <1>5, <1>6 DEF GroupInv, At

LEMMA KilledGroup ==
    ASSUME ProcessInv, NEW i \in Workers, process[i].state # "none", process' = Killed(i)
    PROVE  /\ process' \in [Workers -> [state : ProcessStates, leased : BOOLEAN]]
           /\ Shrinks /\ process'[i].state = "exited" /\ ~Led(i)'
           /\ \A j \in Workers : j # i => process'[j] = process[j]
<1>1. process \in [Workers -> [state : ProcessStates, leased : BOOLEAN]]
  BY HostIsTyped DEF HostTyped
<1>2. /\ process' \in [Workers -> [state : ProcessStates, leased : BOOLEAN]]
      /\ \A j \in Workers : j # i => process'[j] = process[j]
      /\ process'[i].state = "exited" /\ process'[i].leased = process[i].leased
  BY <1>1 DEF Killed, ProcessStates
<1> QED
  BY <1>2 DEF Shrinks, Led

LEMMA OrphanStep ==
    ASSUME ProcessInv, NEW r \in Runners, RecoverOrphan(r)
    PROVE  ProcessInv'
<1>1. /\ ctl[r].pc = "open" /\ ctl \in Posts /\ ctl[r].pc \notin {"away", "done"}
      /\ UNCHANGED <<result, faults, marker, gate, hostProcesses>> /\ result \in Results \cup {None}
  BY HostIsTyped DEF RecoverOrphan, At, markerVars, HostTyped
<1>2. CASE marker = None \/ marker.state # "active"
  <2>1. Goto(r, "replay") /\ lock' = lock
    BY <1>2 DEF RecoverOrphan
  <2>2. /\ ctl' \in Posts /\ \A q \in Runners : q # r => ctl'[q] = ctl[q]
        /\ ctl'[r].pc = "replay"
    BY <1>1, <2>1, PostGoes DEF ProcessPoints
  <2>3. Finds(r)'
    BY <1>1, <1>2, <2>2 DEF Finds
  <2> QED
    BY <1>1, <2>1, <2>2, <2>3, NativeReads
<1>3. CASE ~(marker = None \/ marker.state # "active") /\ Unverifiable
  <2>1. Answer(r)
    BY <1>3 DEF RecoverOrphan
  <2>2. marker.worker \in Workers
    BY <1>3, Marked
  <2>3. marker.boot # boot \/ ~Led(marker.worker)
    <3>1. stranger.of = marker.worker => process[marker.worker].state = "exited"
      BY <2>2, HostIsTyped DEF GroupInv
    <3> QED
      BY <1>3, <3>1 DEF Unverifiable, Led
  <2> QED
    BY <1>1, <2>1, <2>3, NothingLeads, NativeAnswers
<1>4. CASE ~(marker = None \/ marker.state # "active") /\ ~Unverifiable
  <2>0. marker.worker \in Workers /\ stranger.of # marker.worker
    BY <1>4, Marked DEF Unverifiable
  <2>1. PICK point \in {"reap", "clear"} : Goto(r, point) /\ lock' = lock /\ (point = "clear" => ~Led(marker.worker))
    BY <1>4, <2>0 DEF RecoverOrphan
  <2>2. point \in ProcessPoints
    BY DEF ProcessPoints
  <2>3. /\ ctl' \in Posts /\ \A q \in Runners : q # r => ctl'[q] = ctl[q]
        /\ ctl'[r].pc = point
    BY <1>1, <2>1, <2>2, PostGoes
  <2>4. Finds(r)'
    BY <1>1, <1>4, <2>0, <2>1, <2>3 DEF Finds, Led, hostProcesses
  <2> QED
    BY <1>1, <2>1, <2>3, <2>4, NativeReads
<1> QED
  BY <1>2, <1>3, <1>4

LEMMA ReapStep ==
    ASSUME ProcessInv, NEW r \in Runners, Reap(r)
    PROVE  ProcessInv'
<1>1. /\ ctl[r].pc = "reap" /\ ctl[r].pc \notin {"away", "done"} /\ ctl \in Posts /\ process' = Killed(marker.worker)
      /\ stranger' = [stranger EXCEPT !.hit = @ \/ stranger.of = marker.worker]
      /\ Goto(r, "clear") /\ UNCHANGED <<lock, result, faults, marker, gate, boot>>
  BY HostIsTyped DEF Reap, At, markerVars
<1>2. marker # None /\ stranger.of # marker.worker
  BY <1>1 DEF ProcessInv, Finds
<1>3. marker.worker \in Workers /\ process[marker.worker].state # "none" /\ process[marker.worker].leased
  BY <1>2, Marked
<1>4. stranger' = stranger
  <2>1. ~stranger.hit /\ stranger \in [of : Workers \cup {None}, hit : BOOLEAN]
    BY HostIsTyped DEF GroupInv, HostTyped
  <2>2. stranger' = [stranger EXCEPT !.hit = FALSE] /\ stranger.hit = FALSE
    BY <1>1, <1>2, <2>1
  <2> QED
    BY <2>1, <2>2
<1>5. /\ process' \in [Workers -> [state : ProcessStates, leased : BOOLEAN]]
      /\ Shrinks /\ process'[marker.worker].state = "exited"
  BY <1>1, <1>3, KilledGroup
<1>6. /\ ctl' \in Posts /\ \A q \in Runners : q # r => ctl'[q] = ctl[q]
      /\ ctl'[r].pc = "clear"
  BY <1>1, PostGoes DEF ProcessPoints
<1>7. HostTyped'
  BY <1>1, <1>4, <1>5, HostIsTyped DEF HostTyped
<1>8. GroupInv'
  <2>1. boot' <= faults' /\ ~stranger'.hit
    BY <1>1, <1>4, HostIsTyped DEF GroupInv
  <2> QED
    BY <1>1, <1>3, <1>4, <1>5, <1>6, <2>1, HostIsTyped, GroupShrinks
<1>9. Finds(r)'
  <2>1. process'[marker'.worker].state = "exited"
    BY <1>1, <1>5
  <2> QED
    BY <1>1, <1>2, <1>6, <2>1 DEF Finds, Led
<1> QED
  BY <1>1, <1>6, <1>7, <1>8, <1>9, HolderGoesOn

LEMMA RecoveredStep ==
    ASSUME ProcessInv, NEW r \in Runners, MarkRecovered(r)
    PROVE  ProcessInv'
<1>1. /\ ctl[r].pc = "clear" /\ ctl[r].pc \notin {"away", "done"} /\ ctl \in Posts
      /\ marker' = [marker EXCEPT !.state = "recovered"]
      /\ Goto(r, "replay") /\ UNCHANGED <<lock, result, faults, gate, boot, process, stranger>>
  BY HostIsTyped DEF MarkRecovered, At, hostProcesses
<1>2. marker # None /\ ~Led(marker.worker)
  BY <1>1 DEF ProcessInv, Finds
<1>3. marker \in Markers /\ marker.worker \in Workers /\ process[marker.worker].leased
  BY <1>2, Marked
<1>4. marker' \in Markers /\ marker'.worker = marker.worker /\ marker'.state = "recovered"
  BY <1>1, <1>3 DEF Markers
<1>5. /\ ctl' \in Posts /\ \A q \in Runners : q # r => ctl'[q] = ctl[q]
      /\ ctl'[r].pc = "replay"
  BY <1>1, PostGoes DEF ProcessPoints
<1>6. HostTyped'
  BY <1>1, <1>4, HostIsTyped DEF HostTyped
<1>7. GroupInv'
  <2>1. \A i \in Workers : ~Guarded(i)
    BY <1>2, NothingLeads
  <2>2. Shrinks
    BY <1>1 DEF Shrinks
  <2>3. boot' <= faults' /\ ~stranger'.hit
    BY <1>1, HostIsTyped DEF GroupInv
  <2> QED
    BY <1>1, <1>3, <1>4, <2>1, <2>2, <2>3, HostIsTyped, GroupShrinks
<1>8. Finds(r)'
  BY <1>4, <1>5 DEF Finds
<1> QED
  BY <1>1, <1>5, <1>6, <1>7, <1>8, HolderGoesOn

LEMMA ReplayStep ==
    ASSUME ProcessInv, NEW r \in Runners, ReplayResult(r)
    PROVE  ProcessInv'
<1>1. /\ ctl[r].pc = "replay" /\ ctl[r].pc \notin {"away", "done"} /\ ctl \in Posts
      /\ UNCHANGED <<result, faults, marker, hostProcesses>> /\ result \in Results \cup {None}
  BY HostIsTyped DEF ReplayResult, At, HostTyped
<1>2. marker = None \/ marker.state # "active"
  BY <1>1 DEF ProcessInv, Finds
<1>3. CASE result # None
  BY <1>1, <1>2, <1>3, NothingLeads, NativeAnswers DEF ReplayResult
<1>4. CASE result = None
  <2>1. gate' = FALSE /\ Goto(r, "spawn") /\ lock' = lock
    BY <1>4 DEF ReplayResult
  <2>2. /\ ctl' \in Posts /\ \A q \in Runners : q # r => ctl'[q] = ctl[q]
        /\ ctl'[r].pc = "spawn"
    BY <1>1, <2>1, PostGoes DEF ProcessPoints
  <2>3. HostTyped'
    BY <1>1, <2>1, HostIsTyped DEF HostTyped, hostProcesses
  <2>4. GroupInv'
    <3>1. \A i \in Workers : ~Guarded(i)
      BY <1>2, NothingLeads
    <3>2. Shrinks
      BY <1>1 DEF Shrinks, hostProcesses
    <3>3. boot' <= faults' /\ ~stranger'.hit
      BY <1>1, HostIsTyped DEF GroupInv, hostProcesses
    <3>4. marker' # None => process[marker'.worker].leased /\ marker'.worker \in Workers
      BY <1>1, Marked
    <3> QED
      BY <1>1, <2>1, <3>1, <3>2, <3>3, <3>4, HostIsTyped, GroupShrinks DEF hostProcesses
  <2>5. Finds(r)'
    BY <1>1, <1>2, <2>1, <2>2 DEF Finds
  <2> QED
    BY <1>1, <2>1, <2>2, <2>3, <2>4, <2>5, HolderGoesOn
<1> QED
  BY <1>3, <1>4

LEMMA SpawnStep ==
    ASSUME ProcessInv, NEW r \in Runners, Spawn(r)
    PROVE  ProcessInv'
<1>1. /\ ctl[r].pc = "spawn" /\ ctl[r].pc \notin {"away", "done"} /\ ctl \in Posts
      /\ UNCHANGED <<lock, result, faults, marker, gate, boot, stranger>>
  BY HostIsTyped DEF Spawn, At, markerVars
<1>2. (marker = None \/ marker.state # "active") /\ ~gate
  BY <1>1 DEF ProcessInv, Finds
<1>3. PICK i \in Workers : /\ process[i].state = "none" /\ \A j \in 1..(i - 1) : process[j].state # "none"
                           /\ process' = [process EXCEPT ![i].state = "waiting"]
                           /\ ctl' = [ctl EXCEPT ![r].pc = "enlist", ![r].worker = i]
  BY DEF Spawn
<1>4. /\ ctl' \in Posts /\ \A q \in Runners : q # r => ctl'[q] = ctl[q]
      /\ ctl'[r].pc = "enlist" /\ ctl'[r].worker = i
  BY <1>1, <1>3 DEF Posts, ProcessPoints
<1>5. process \in [Workers -> [state : ProcessStates, leased : BOOLEAN]] /\ ~process[i].leased
  BY <1>3, HostIsTyped DEF HostTyped, GroupInv
<1>6. /\ process' \in [Workers -> [state : ProcessStates, leased : BOOLEAN]]
      /\ \A j \in Workers : j # i => process'[j] = process[j]
      /\ process'[i].state = "waiting" /\ process'[i].leased = process[i].leased
  BY <1>3, <1>5 DEF ProcessStates
<1>7. HostTyped'
  BY <1>1, <1>6, HostIsTyped DEF HostTyped
<1>8. \A j \in Workers : j < i => process[j].state # "none"
  BY <1>3 DEF Workers
<1>9. GroupInv'
  <2>1. \A a, b \in Workers : process'[a].state = "none" /\ a < b => process'[b].state = "none"
    BY <1>6, <1>8, HostIsTyped DEF GroupInv
  <2>2. \A j \in Workers : ~Guarded(j)'
    <3>1. \A j \in Workers : ~Guarded(j)
      BY <1>2, NothingLeads
    <3> QED
      BY <1>5, <1>6, <3>1 DEF Guarded, Led
  <2>3. \A j \in Workers : /\ ~process'[j].leased
                           /\ process'[j].state = "working" \/ (gate' /\ process'[j].state = "waiting")
                           => \E k \in Workers : k > j /\ process'[k].leased
    BY <1>1, <1>2, <1>5, <1>6, HostIsTyped DEF GroupInv
  <2>4. marker' # None => process'[marker'.worker].leased
    BY <1>1, <1>5, <1>6, Marked
  <2> QED
    BY <1>1, <1>3, <1>6, <2>1, <2>2, <2>3, <2>4, HostIsTyped DEF GroupInv
<1>10. Finds(r)'
  <2>1. \A j \in Workers : j > i => process'[j].state = "none"
    BY <1>3, <1>6, Numbers, HostIsTyped DEF GroupInv
  <2> QED
    BY <1>1, <1>2, <1>4, <1>5, <1>6, <2>1 DEF Finds
<1> QED
  BY <1>1, <1>4, <1>7, <1>9, <1>10, HolderGoesOn

LEMMA EnlistStep ==
    ASSUME ProcessInv, NEW r \in Runners, Enlist(r)
    PROVE  ProcessInv'
<1>1. /\ ctl[r].pc = "enlist" /\ ctl[r].pc \notin {"away", "done"} /\ ctl \in Posts
      /\ UNCHANGED <<result, faults, gate, boot, stranger>> /\ result \in Results \cup {None}
  BY HostIsTyped DEF Enlist, At, HostTyped
<1>2. /\ marker = None \/ marker.state # "active"
      /\ ~gate /\ ctl[r].worker \in Workers /\ \A j \in Workers : j > ctl[r].worker => process[j].state = "none"
  BY <1>1 DEF ProcessInv, Finds
<1>3. CASE process[ctl[r].worker].state # "waiting"
  <2>1. Answer(r) /\ UNCHANGED <<marker, process>>
    BY <1>3 DEF Enlist
  <2> QED
    BY <1>1, <1>2, <2>1, NothingLeads, NativeAnswers DEF hostProcesses
<1>4. CASE process[ctl[r].worker].state = "waiting"
  <2> DEFINE i == ctl[r].worker
  <2>1. /\ marker' = [worker |-> i, state |-> "active", boot |-> boot]
        /\ process' = [process EXCEPT ![i].leased = TRUE] /\ Goto(r, "admit") /\ lock' = lock
    BY <1>4 DEF Enlist
  <2>2. /\ ctl' \in Posts /\ \A q \in Runners : q # r => ctl'[q] = ctl[q]
        /\ ctl'[r].pc = "admit" /\ ctl'[r].worker = i
    BY <1>1, <2>1, PostGoes DEF ProcessPoints
  <2>3. process \in [Workers -> [state : ProcessStates, leased : BOOLEAN]]
    BY HostIsTyped DEF HostTyped
  <2>4. /\ process' \in [Workers -> [state : ProcessStates, leased : BOOLEAN]]
        /\ \A j \in Workers : j # i => process'[j] = process[j]
        /\ process'[i].state = "waiting" /\ process'[i].leased = TRUE
    BY <1>2, <1>4, <2>1, <2>3
  <2>5. marker' \in Markers /\ marker' # None /\ marker'.worker = i /\ marker'.state = "active" /\ marker'.boot = boot
    <3>1. boot \in Nat
      BY HostIsTyped, Numbers DEF HostTyped
    <3>2. [worker |-> i, state |-> "active", boot |-> boot] \in Markers
      BY <1>2, <3>1 DEF Markers
    <3> QED
      BY <2>1, <3>2, ProcessAssumption
  <2>6. HostTyped'
    BY <1>1, <2>4, <2>5, HostIsTyped DEF HostTyped
  <2>7. GroupInv'
    <3>1. \A a, b \in Workers : process'[a].state = "none" /\ a < b => process'[b].state = "none"
      BY <1>4, <2>4, HostIsTyped DEF GroupInv
    <3>2. \A j \in Workers : Guarded(j)' => j = i
      <4>1. \A j \in Workers : ~Guarded(j)
        BY <1>2, NothingLeads
      <4> QED
        BY <2>4, <4>1 DEF Guarded, Led
    <3>3. \A j \in Workers : /\ ~process'[j].leased
                             /\ process'[j].state = "working" \/ (gate' /\ process'[j].state = "waiting")
                             => \E k \in Workers : k > j /\ process'[k].leased
      BY <1>1, <1>2, <2>4, HostIsTyped DEF GroupInv
    <3>4. \E q \in Runners : ~At(q, "done")'
      BY <2>2 DEF At
    <3>5. \A j \in Workers : process'[j].state = "none" => ~process'[j].leased
      BY <2>4, HostIsTyped DEF GroupInv
    <3>6. \A j \in Workers : stranger'.of = j => process'[j].state = "exited"
      BY <1>1, <1>4, <2>4, HostIsTyped DEF GroupInv
    <3> QED
      BY <1>1, <1>2, <2>4, <2>5, <3>1, <3>2, <3>3, <3>4, <3>5, <3>6, HostIsTyped DEF GroupInv
  <2>8. Finds(r)'
    <3>1. \A j \in Workers : j > i => process'[j].state = "none"
      BY <1>2, <2>4, Numbers
    <3>2. process'[ctl'[r].worker].leased /\ marker'.worker = ctl'[r].worker /\ ctl'[r].worker \in Workers
      BY <1>2, <2>2, <2>4, <2>5
    <3>3. \A j \in Workers : j > ctl'[r].worker => process'[j].state = "none"
      BY <2>2, <3>1
    <3>4. ~gate' /\ marker' # None
      BY <1>1, <1>2, <2>5
    <3> QED
      BY <2>2, <3>2, <3>3, <3>4 DEF Finds
  <2> QED
    BY <1>1, <2>1, <2>2, <2>6, <2>7, <2>8, HolderGoesOn
<1> QED
  BY <1>3, <1>4

LEMMA OpenGateStep ==
    ASSUME ProcessInv, NEW r \in Runners, OpenGate(r)
    PROVE  ProcessInv'
<1>1. /\ ctl[r].pc = "admit" /\ ctl[r].pc \notin {"away", "done"} /\ ctl \in Posts /\ gate' = TRUE /\ Goto(r, "watch")
      /\ UNCHANGED <<lock, result, faults, marker, process, boot, stranger>>
  BY HostIsTyped DEF OpenGate, At, hostProcesses
<1>2. /\ marker # None /\ ctl[r].worker \in Workers /\ process[ctl[r].worker].leased /\ marker.worker = ctl[r].worker
      /\ \A j \in Workers : j > ctl[r].worker => process[j].state = "none"
  BY <1>1 DEF ProcessInv, Finds
<1>3. /\ ctl' \in Posts /\ \A q \in Runners : q # r => ctl'[q] = ctl[q]
      /\ ctl'[r].pc = "watch" /\ ctl'[r].worker = ctl[r].worker
  BY <1>1, PostGoes DEF ProcessPoints
<1>4. HostTyped'
  BY <1>1, HostIsTyped DEF HostTyped
<1>5. GroupInv'
  <2>1. ASSUME NEW j \in Workers, ~process[j].leased, process[j].state \in {"working", "waiting"}
        PROVE  ctl[r].worker > j
    <3>1. j # ctl[r].worker /\ ~(j > ctl[r].worker)
      BY <1>2, <2>1
    <3>2. j \in Nat /\ ctl[r].worker \in Nat
      BY <1>2, Numbers
    <3> QED
      BY <3>1, <3>2
  <2>2. \A j \in Workers : /\ ~process'[j].leased
                           /\ process'[j].state = "working" \/ (gate' /\ process'[j].state = "waiting")
                           => \E k \in Workers : k > j /\ process'[k].leased
    BY <1>1, <1>2, <2>1
  <2>3. \E q \in Runners : ~At(q, "done")'
    BY <1>3 DEF At
  <2> QED
    BY <1>1, <2>2, <2>3, HostIsTyped DEF GroupInv, Guarded, Led
<1>6. Finds(r)'
  BY <1>1, <1>2, <1>3 DEF Finds
<1> QED
  BY <1>1, <1>3, <1>4, <1>5, <1>6, HolderGoesOn

LEMMA ExpireGroupStep ==
    ASSUME ProcessInv, NEW r \in Runners, KillExpired(r)
    PROVE  ProcessInv'
<1>1. /\ ctl[r].pc = "watch" /\ ctl[r].pc \notin {"away", "done"} /\ ctl \in Posts
      /\ process' = Killed(ctl[r].worker) /\ ctl' = [ctl EXCEPT ![r].seen = "timeout"] /\ Led(ctl[r].worker)
      /\ UNCHANGED <<lock, result, faults, marker, gate, boot, stranger>>
  BY HostIsTyped DEF KillExpired, At, markerVars
<1>2. marker # None /\ ctl[r].worker \in Workers /\ process[ctl[r].worker].leased /\ marker.worker = ctl[r].worker
  BY <1>1 DEF ProcessInv, Finds
<1>3. /\ ctl' \in Posts /\ \A q \in Runners : q # r => ctl'[q] = ctl[q]
      /\ ctl'[r].pc = "watch" /\ ctl'[r].worker = ctl[r].worker
  BY <1>1 DEF Posts
<1>4. process[ctl[r].worker].state # "none"
  BY <1>1 DEF Led
<1>5. process' \in [Workers -> [state : ProcessStates, leased : BOOLEAN]] /\ Shrinks
  BY <1>1, <1>2, <1>4, KilledGroup
<1>6. HostTyped'
  BY <1>1, <1>5, HostIsTyped DEF HostTyped
<1>7. GroupInv'
  <2>1. boot' <= faults' /\ ~stranger'.hit
    BY <1>1, HostIsTyped DEF GroupInv
  <2>2. \E q \in Runners : ctl'[q].pc # "done"
    BY <1>3
  <2> QED
    BY <1>1, <1>2, <1>5, <2>1, <2>2, HostIsTyped, GroupShrinks
<1>8. Finds(r)'
  <2>1. process'[ctl[r].worker].leased
    BY <1>2, <1>5 DEF Shrinks
  <2> QED
    BY <1>1, <1>2, <1>3, <2>1 DEF Finds
<1> QED
  BY <1>1, <1>3, <1>6, <1>7, <1>8, HolderGoesOn

LEMMA CloseMarkerStep ==
    ASSUME ProcessInv, NEW r \in Runners, CloseMarker(r)
    PROVE  ProcessInv'
<1>1. /\ ctl[r].pc = "watch" /\ ctl[r].pc \notin {"away", "done"} /\ ctl \in Posts /\ ~Led(ctl[r].worker)
      /\ marker' = [marker EXCEPT !.state = "closed"] /\ gate' = FALSE /\ Goto(r, "report")
      /\ UNCHANGED <<lock, result, faults, process, boot, stranger>>
  BY HostIsTyped DEF CloseMarker, At, hostProcesses
<1>2. marker # None /\ ctl[r].worker \in Workers /\ marker.worker = ctl[r].worker
  BY <1>1 DEF ProcessInv, Finds
<1>3. marker \in Markers /\ marker.worker \in Workers /\ process[marker.worker].leased
  BY <1>2, Marked
<1>4. marker' \in Markers /\ marker'.worker = marker.worker /\ marker'.state = "closed"
  BY <1>1, <1>3 DEF Markers
<1>5. /\ ctl' \in Posts /\ \A q \in Runners : q # r => ctl'[q] = ctl[q]
      /\ ctl'[r].pc = "report" /\ ctl'[r].worker = ctl[r].worker
  BY <1>1, PostGoes DEF ProcessPoints
<1>6. HostTyped'
  BY <1>1, <1>4, HostIsTyped DEF HostTyped
<1>7. GroupInv'
  <2>1. \A i \in Workers : ~Guarded(i)
    BY <1>1, <1>2, NothingLeads
  <2>2. Shrinks
    BY <1>1 DEF Shrinks
  <2>3. boot' <= faults' /\ ~stranger'.hit
    BY <1>1, HostIsTyped DEF GroupInv
  <2> QED
    BY <1>1, <1>3, <1>4, <2>1, <2>2, <2>3, HostIsTyped, GroupShrinks
<1>8. Finds(r)'
  BY <1>2, <1>4, <1>5 DEF Finds
<1> QED
  BY <1>1, <1>5, <1>6, <1>7, <1>8, HolderGoesOn

LEMMA ReportStep ==
    ASSUME ProcessInv, NEW r \in Runners, Report(r)
    PROVE  ProcessInv'
<1>1. /\ ctl[r].pc = "report" /\ ctl[r].pc \notin {"away", "done"} /\ Answer(r)
      /\ result' = IF result # None /\ ctl[r].seen # "timeout" THEN [result EXCEPT !.worker = ctl[r].worker] ELSE result
      /\ UNCHANGED <<faults, marker, gate, hostProcesses>>
  BY DEF Report, At, markerVars
<1>2. ctl[r].worker \in Workers /\ (marker = None \/ marker.state # "active")
  BY <1>1 DEF ProcessInv, Finds
<1>3. result' \in Results \cup {None}
  <2>1. CASE result # None
    <3>1. result \in Results
      BY <2>1, HostIsTyped DEF HostTyped
    <3>2. [result EXCEPT !.worker = ctl[r].worker] \in Results
      BY <1>2, <3>1 DEF Results
    <3> QED
      BY <1>1, <3>1, <3>2
  <2>2. CASE result = None
    BY <1>1, <2>2
  <2> QED
    BY <2>1, <2>2
<1> QED
  BY <1>1, <1>2, <1>3, NothingLeads, NativeAnswers

LEMMA HandshakeStep ==
    ASSUME ProcessInv, NEW r \in Runners, HandshakeFails(r)
    PROVE  ProcessInv'
<1>1. /\ ctl[r].pc \in {"enlist", "admit"} /\ ctl[r].pc \notin {"away", "done"} /\ Answer(r)
      /\ faults < MaxFaults /\ faults' = faults + 1 /\ process' = Killed(ctl[r].worker)
      /\ marker' = (IF ctl[r].pc = "admit" THEN [marker EXCEPT !.state = "closed"] ELSE marker)
      /\ UNCHANGED <<result, gate, boot, stranger>>
  BY DEF HandshakeFails, At
<1>2. /\ ctl[r].worker \in Workers
      /\ ctl[r].pc = "enlist" => process[ctl[r].worker].state # "none" /\ (marker = None \/ marker.state # "active")
      /\ ctl[r].pc = "admit" => process[ctl[r].worker].leased /\ marker # None /\ marker.worker = ctl[r].worker
  BY <1>1 DEF ProcessInv, Finds
<1>3. process[ctl[r].worker].state # "none"
  BY <1>1, <1>2, HostIsTyped DEF GroupInv
<1>4. /\ process' \in [Workers -> [state : ProcessStates, leased : BOOLEAN]] /\ Shrinks
      /\ process'[ctl[r].worker].state = "exited"
  BY <1>1, <1>2, <1>3, KilledGroup
<1>5. marker' \in Markers \cup {None} /\ (marker' # None => marker # None /\ marker'.worker = marker.worker)
  <2>1. CASE ctl[r].pc = "admit"
    <3>1. marker \in Markers
      BY <1>2, <2>1, Marked
    <3> QED
      BY <1>1, <1>2, <2>1, <3>1 DEF Markers
  <2>2. CASE ctl[r].pc # "admit"
    BY <1>1, <2>2, HostIsTyped DEF HostTyped
  <2> QED
    BY <2>1, <2>2
<1>6. HostTyped'
  BY <1>1, <1>4, <1>5, HostIsTyped, Numbers DEF HostTyped
<1>7. \A i \in Workers : ~(Guarded(i) /\ Guarded(i)')
  <2>1. CASE ctl[r].pc = "enlist"
    BY <1>2, <2>1, NothingLeads
  <2>2. CASE ctl[r].pc = "admit"
    <3>1. \A i \in Workers : Guarded(i) => i = ctl[r].worker
      BY <1>2, <2>2, HostIsTyped DEF GroupInv
    <3> QED
      BY <1>4, <3>1 DEF Guarded, Led
  <2> QED
    BY <1>1, <2>1, <2>2
<1>8. GroupInv'
  <2>1. boot' <= faults' /\ ~stranger'.hit
    <3>1. boot \in Nat /\ faults \in Nat
      BY HostIsTyped, Numbers DEF HostTyped
    <3> QED
      BY <1>1, <3>1, HostIsTyped DEF GroupInv
  <2>2. marker' # None => process[marker'.worker].leased /\ marker'.worker \in Workers
    BY <1>5, Marked
  <2> QED
    BY <1>1, <1>4, <1>7, <2>1, <2>2, HostIsTyped, GroupShrinks
<1> QED
  BY <1>1, <1>6, <1>8, HolderEnds

-----------------------------------------------------------------------------
(* The process groups and the host.                                        *)

LEMMA GroupActs ==
    ASSUME ProcessInv, UNCHANGED <<ctl, lock, marker, gate>>, HostTyped', GroupInv',
           \A j \in Workers : /\ process'[j].leased = process[j].leased
                              /\ process'[j].state = "none" <=> process[j].state = "none"
                              /\ Led(j)' => Led(j),
           \A r \in Runners : ctl[r].pc = "reap" => stranger'.of # marker.worker
    PROVE  ProcessInv'
<1>1. ProcessTypeOK' /\ LockInv'
  BY HostIsTyped DEF ProcessTypeOK, HostTyped, Posts, LockInv
<1>2. ASSUME NEW r \in Runners
      PROVE  Finds(r)'
  <2>1. Finds(r)
    BY DEF ProcessInv
  <2>2. ctl[r].pc = "clear" => ~Led(marker.worker)'
    <3>1. ctl[r].pc = "clear" => marker.worker \in Workers /\ ~Led(marker.worker)
      BY <2>1, Marked DEF Finds
    <3> QED
      BY <3>1
  <2> QED
    BY <2>1, <2>2 DEF Finds
<1> QED
  BY <1>1, <1>2 DEF ProcessInv

\* A group that is not led any more, or was killed; who watches does not matter.
LEMMA GroupEnds ==
    ASSUME ProcessInv, UNCHANGED <<ctl, lock, marker, gate, boot, stranger>>, HostTyped', Shrinks,
           faults' \in {faults, faults + 1}
    PROVE  ProcessInv'
<1>1. GroupInv'
  <2>1. boot' <= faults' /\ ~stranger'.hit
    <3>1. boot \in Nat /\ faults \in Nat
      BY HostIsTyped, Numbers DEF HostTyped
    <3> QED
      BY <3>1, HostIsTyped DEF GroupInv
  <2>2. marker' # None => process[marker'.worker].leased /\ marker'.worker \in Workers
    BY Marked
  <2>3. \A i \in Workers : Guarded(i) => \E q \in Runners : ctl'[q].pc # "done"
    BY HostIsTyped DEF GroupInv, At
  <2> QED
    BY <2>1, <2>2, <2>3, HostIsTyped, GroupShrinks
<1>2. \A r \in Runners : ctl[r].pc = "reap" => stranger'.of # marker.worker
  BY DEF ProcessInv, Finds
<1> QED
  BY <1>1, <1>2, GroupActs DEF Shrinks, Led

LEMMA EndStep ==
    ASSUME ProcessInv, NEW i \in Workers, GiveUp(i) \/ End(i)
    PROVE  ProcessInv'
<1>1. /\ process[i].state # "none" /\ process' = Killed(i)
      /\ UNCHANGED <<ctl, lock, result, faults, marker, gate, boot, stranger>>
  BY DEF GiveUp, End, dirVars, markerVars
<1>2. process' \in [Workers -> [state : ProcessStates, leased : BOOLEAN]] /\ Shrinks
  BY <1>1, KilledGroup
<1>3. HostTyped'
  BY <1>1, <1>2, HostIsTyped DEF HostTyped
<1> QED
  BY <1>1, <1>2, <1>3, GroupEnds

LEMMA LoseLeaderStep ==
    ASSUME ProcessInv, NEW i \in Workers, LoseLeader(i)
    PROVE  ProcessInv'
<1>1. /\ process[i].state = "working" /\ faults < MaxFaults /\ faults' = faults + 1
      /\ process' = [process EXCEPT ![i].state = "leaderless"]
      /\ UNCHANGED <<ctl, lock, result, marker, gate, boot, stranger>>
  BY DEF LoseLeader, markerVars
<1>2. process \in [Workers -> [state : ProcessStates, leased : BOOLEAN]]
  BY HostIsTyped DEF HostTyped
<1>3. /\ process' \in [Workers -> [state : ProcessStates, leased : BOOLEAN]]
      /\ \A j \in Workers : j # i => process'[j] = process[j]
      /\ process'[i].state = "leaderless" /\ process'[i].leased = process[i].leased
  BY <1>1, <1>2 DEF ProcessStates
<1>4. Shrinks
  BY <1>1, <1>3 DEF Shrinks
<1>5. HostTyped'
  BY <1>1, <1>3, HostIsTyped, Numbers DEF HostTyped
<1> QED
  BY <1>1, <1>4, <1>5, GroupEnds

LEMMA WriteResultStep ==
    ASSUME ProcessInv, NEW i \in Workers, WriteResult(i)
    PROVE  ProcessInv'
<1>1. result' = [worker |-> i, writer |-> i] /\ UNCHANGED <<ctl, lock, faults, marker, gate, process, boot, stranger>>
  BY DEF WriteResult, markerVars, hostProcesses
<1>2. result' \in Results
  BY <1>1 DEF Results
<1>3. HostTyped' /\ Shrinks
  BY <1>1, <1>2, HostIsTyped DEF HostTyped, Shrinks
<1> QED
  BY <1>1, <1>3, GroupEnds

LEMMA PassGateStep ==
    ASSUME ProcessInv, NEW i \in Workers, PassGate(i)
    PROVE  ProcessInv'
<1>1. /\ process[i].state = "waiting" /\ gate /\ process' = [process EXCEPT ![i].state = "working"]
      /\ UNCHANGED <<ctl, lock, result, faults, marker, gate, boot, stranger>>
  BY DEF PassGate, dirVars, markerVars
<1>2. process \in [Workers -> [state : ProcessStates, leased : BOOLEAN]]
  BY HostIsTyped DEF HostTyped
<1>3. /\ process' \in [Workers -> [state : ProcessStates, leased : BOOLEAN]]
      /\ \A j \in Workers : j # i => process'[j] = process[j]
      /\ process'[i].state = "working" /\ process'[i].leased = process[i].leased
  BY <1>1, <1>2 DEF ProcessStates
<1>4. \A j \in Workers : /\ process'[j].leased = process[j].leased
                         /\ process'[j].state = "none" <=> process[j].state = "none"
                         /\ Led(j)' <=> Led(j)
  BY <1>1, <1>3 DEF Led
<1>5. HostTyped'
  BY <1>1, <1>3, HostIsTyped DEF HostTyped
<1>6. GroupInv'
  <2>1. \A j \in Workers : Guarded(j)' => Guarded(j)
    BY <1>4 DEF Guarded
  <2>2. \A j \in Workers : Guarded(j)' =>
          /\ marker' # None /\ marker'.worker = j /\ marker'.state = "active" /\ marker'.boot = boot'
          /\ \E q \in Runners : ~At(q, "done")'
    BY <1>1, <2>1, HostIsTyped DEF GroupInv, At
  <2>3. \A j \in Workers : /\ ~process'[j].leased
                           /\ process'[j].state = "working" \/ (gate' /\ process'[j].state = "waiting")
                           => \E k \in Workers : k > j /\ process'[k].leased
    BY <1>1, <1>3, <1>4, HostIsTyped DEF GroupInv
  <2>4. \A j \in Workers : stranger'.of = j => process'[j].state = "exited"
    BY <1>1, <1>3, HostIsTyped DEF GroupInv
  <2>5. marker' # None => process'[marker'.worker].leased
    BY <1>1, <1>4, Marked
  <2>6. /\ \A a, b \in Workers : process'[a].state = "none" /\ a < b => process'[b].state = "none"
        /\ \A j \in Workers : process'[j].state = "none" => ~process'[j].leased
    BY <1>4, HostIsTyped DEF GroupInv
  <2> QED
    BY <1>1, <2>2, <2>3, <2>4, <2>5, <2>6, HostIsTyped DEF GroupInv
<1>7. \A r \in Runners : ctl[r].pc = "reap" => stranger'.of # marker.worker
  BY <1>1 DEF ProcessInv, Finds
<1> QED
  BY <1>1, <1>4, <1>5, <1>6, <1>7, GroupActs

LEMMA ReusePidStep ==
    ASSUME ProcessInv, NEW i \in Workers, ReusePid(i)
    PROVE  ProcessInv'
<1>1. /\ process[i].state = "exited" /\ faults < MaxFaults /\ faults' = faults + 1
      /\ \A r \in Runners : ctl[r].pc # "reap"
      /\ stranger' = [stranger EXCEPT !.of = i]
      /\ UNCHANGED <<ctl, lock, result, marker, gate, process, boot>>
  BY DEF ReusePid, At, markerVars
<1>2. stranger' \in [of : Workers \cup {None}, hit : BOOLEAN] /\ stranger'.of = i /\ stranger'.hit = stranger.hit
  BY <1>1, HostIsTyped DEF HostTyped
<1>3. HostTyped'
  BY <1>1, <1>2, HostIsTyped, Numbers DEF HostTyped
<1>4. boot' <= faults'
  <2>1. boot \in Nat /\ faults \in Nat
    BY HostIsTyped, Numbers DEF HostTyped
  <2> QED
    BY <1>1, <2>1, HostIsTyped DEF GroupInv
<1>5. GroupInv'
  BY <1>1, <1>2, <1>4, HostIsTyped DEF GroupInv, Guarded, Led, At
<1> QED
  BY <1>1, <1>3, <1>5, GroupActs DEF Led

LEMMA RebootStep ==
    ASSUME ProcessInv, Reboot
    PROVE  ProcessInv'
<1>1. /\ faults < MaxFaults /\ faults' = faults + 1 /\ boot' = boot + 1
      /\ process' = [i \in Workers |-> IF Alive(i) THEN Killed(i)[i] ELSE process[i]]
      /\ ctl' = [r \in Runners |-> [pc |-> "away", worker |-> None, seen |-> None]] /\ lock' = None
      /\ stranger' = [stranger EXCEPT !.of = None] /\ UNCHANGED <<result, marker, gate>>
  BY DEF Reboot, Away, markerVars
<1>2. ctl' \in Posts
  <2>1. [pc |-> "away", worker |-> None, seen |-> None] \in [pc : ProcessPoints, worker : Workers \cup {None}, seen : {"timeout", None}]
    BY DEF ProcessPoints
  <2> QED
    BY <1>1, <2>1 DEF Posts
<1>3. \A r \in Runners : ctl'[r].pc = "away"
  BY <1>1
<1>4. process \in [Workers -> [state : ProcessStates, leased : BOOLEAN]]
  BY HostIsTyped DEF HostTyped
<1>5. ASSUME NEW i \in Workers
      PROVE  /\ process'[i] \in [state : ProcessStates, leased : BOOLEAN] /\ process'[i].leased = process[i].leased
             /\ process'[i].state = IF Alive(i) THEN "exited" ELSE process[i].state
  <2>1. CASE Alive(i)
    <3>1. process'[i] = Killed(i)[i]
      BY <1>1, <2>1
    <3>2. Killed(i)[i] = [process[i] EXCEPT !.state = "exited"]
      BY <1>4 DEF Killed
    <3> QED
      BY <1>4, <2>1, <3>1, <3>2 DEF ProcessStates
  <2>2. CASE ~Alive(i)
    BY <1>1, <1>4, <2>2
  <2> QED
    BY <2>1, <2>2
<1>6. process' \in [Workers -> [state : ProcessStates, leased : BOOLEAN]]
  BY <1>1, <1>5
<1>7. Shrinks
  BY <1>5 DEF Shrinks, Alive, Led
<1>8. \A i \in Workers : ~Guarded(i)'
  BY <1>5 DEF Guarded, Alive, Led
<1>9. boot \in Nat /\ faults \in Nat /\ boot <= faults /\ boot' <= faults' /\ faults' \in 0..MaxFaults /\ boot' \in 0..MaxFaults
  BY <1>1, HostIsTyped, Numbers DEF HostTyped, GroupInv
<1>10. stranger' \in [of : Workers \cup {None}, hit : BOOLEAN] /\ stranger'.of = None /\ stranger'.hit = stranger.hit
  BY <1>1, HostIsTyped DEF HostTyped
<1>11. HostTyped'
  BY <1>1, <1>6, <1>9, <1>10, HostIsTyped DEF HostTyped
<1>12. GroupInv'
  <2>1. marker' # None => process[marker'.worker].leased /\ marker'.worker \in Workers
    BY <1>1, Marked
  <2>2. ~stranger'.hit
    BY <1>10, HostIsTyped DEF GroupInv
  <2> QED
    BY <1>1, <1>7, <1>8, <1>9, <1>10, <2>1, <2>2, HostIsTyped, GroupShrinks
<1>13. LockInv'
  BY <1>1, <1>3, Numbers DEF LockInv
<1>14. \A r \in Runners : Finds(r)'
  BY <1>3 DEF Finds
<1>15. ProcessTypeOK'
  BY <1>1, <1>2, <1>11 DEF ProcessTypeOK, HostTyped, Posts
<1> QED
  BY <1>12, <1>13, <1>14, <1>15 DEF ProcessInv

-----------------------------------------------------------------------------
LEMMA ProcessStarts == ProcessInit => ProcessInv
<1> SUFFICES ASSUME ProcessInit PROVE ProcessInv
  OBVIOUS
<1>1. /\ ctl = [r \in Runners |-> [pc |-> "away", worker |-> None, seen |-> None]]
      /\ lock = None /\ result = None /\ faults = 0
      /\ process = [i \in Workers |-> [state |-> "none", leased |-> FALSE]]
      /\ marker = None /\ gate = FALSE /\ boot = 0 /\ stranger = [of |-> None, hit |-> FALSE]
  BY DEF ProcessInit, DirInit, Away
<1>2. ctl \in Posts
  <2>1. [pc |-> "away", worker |-> None, seen |-> None] \in [pc : ProcessPoints, worker : Workers \cup {None}, seen : {"timeout", None}]
    BY DEF ProcessPoints
  <2> QED
    BY <1>1, <2>1 DEF Posts
<1>3. HostTyped
  <2>1. [state |-> "none", leased |-> FALSE] \in [state : ProcessStates, leased : BOOLEAN]
    BY DEF ProcessStates
  <2>2. process \in [Workers -> [state : ProcessStates, leased : BOOLEAN]]
    BY <1>1, <2>1
  <2>3. faults \in 0..MaxFaults /\ boot \in 0..MaxFaults
    BY <1>1, Numbers
  <2>4. stranger \in [of : Workers \cup {None}, hit : BOOLEAN]
    BY <1>1
  <2> QED
    BY <1>1, <2>2, <2>3, <2>4 DEF HostTyped
<1>4. \A i \in Workers : process[i].state = "none" /\ process[i].leased = FALSE
  BY <1>1
<1>5. GroupInv
  BY <1>1, <1>4, Numbers DEF GroupInv, Guarded
<1>6. LockInv
  BY <1>1, Numbers DEF LockInv
<1>7. \A r \in Runners : Finds(r)
  BY <1>1, IdleFinds
<1> QED
  BY <1>1, <1>2, <1>3, <1>5, <1>6, <1>7 DEF ProcessInv, ProcessTypeOK, HostTyped, Posts

LEMMA ProcessSteps ==
    ASSUME ProcessInv, ProcessNext
    PROVE  ProcessInv'
<1>1. ASSUME NEW r \in Runners, NativeStep(r)
      PROVE  ProcessInv'
  BY <1>1, AcquireNative, ConflictNative, OrphanStep, ReapStep, RecoveredStep, ReplayStep, SpawnStep, EnlistStep,
     OpenGateStep, ExpireGroupStep, CloseMarkerStep, ReportStep DEF NativeStep
<1>2. ASSUME NEW r \in Runners, HandshakeFails(r) \/ (KillRunner(r) /\ UNCHANGED <<markerVars, hostProcesses>>)
      PROVE  ProcessInv'
  BY <1>2, HandshakeStep, KillNative
<1>3. ASSUME NEW i \in Workers, GroupStep(i) \/ GiveUp(i) \/ LoseLeader(i) \/ ReusePid(i)
      PROVE  ProcessInv'
  BY <1>3, PassGateStep, WriteResultStep, EndStep, LoseLeaderStep, ReusePidStep DEF GroupStep
<1> QED
  BY <1>1, <1>2, <1>3, RebootStep DEF ProcessNext

LEMMA ProcessStutters ==
    ASSUME ProcessInv, UNCHANGED processVars
    PROVE  ProcessInv'
BY DEF ProcessInv, ProcessTypeOK, LockInv, GroupInv, Finds, Guarded, Led, At,
       processVars, dirVars, markerVars, hostProcesses

-----------------------------------------------------------------------------
(* Both halves.                                                            *)

LEMMA ExecuteStarts == ExecuteInit => ExecuteInv
<1> SUFFICES ASSUME ExecuteInit PROVE ExecuteInv
  OBVIOUS
<1>1. ContainerInv /\ ProcessInv /\ runtime \in {"docker", "native"}
  BY ContainerStarts, ProcessStarts DEF ExecuteInit
<1>2. ~stranger.hit
  BY <1>1, HostIsTyped DEF GroupInv
<1>3. \A i \in Workers : process[i] = [state |-> "none", leased |-> FALSE]
  BY DEF ExecuteInit, ProcessInit
<1>4. \A i \in Workers : container[i] = [state |-> "none", exit |-> None]
  BY DEF ExecuteInit, ContainerInit
<1> QED
  BY <1>1, <1>2, <1>3, <1>4 DEF ExecuteInv

LEMMA ExecuteSteps ==
    ASSUME ExecuteInv, [ExecuteNext]_executeVars
    PROVE  ExecuteInv'
<1>1. CASE InContainer /\ ContainerNext
  <2>1. /\ runtime = "docker" /\ runtime' = runtime /\ UNCHANGED <<process, stranger>>
        /\ ContainerInv /\ ~stranger.hit /\ \A i \in Workers : process[i] = [state |-> "none", leased |-> FALSE]
    BY <1>1 DEF ExecuteInv, InContainer, hostProcesses
  <2>2. ContainerInv'
    BY <1>1, <2>1, ContainerSteps
  <2> QED
    BY <2>1, <2>2 DEF ExecuteInv
<1>2. CASE InProcess /\ ProcessNext
  <2>1. /\ runtime = "native" /\ runtime' = runtime /\ UNCHANGED container
        /\ ProcessInv /\ \A i \in Workers : container[i] = [state |-> "none", exit |-> None]
    BY <1>2 DEF ExecuteInv, InProcess, workVars
  <2>2. ProcessInv'
    BY <1>2, <2>1, ProcessSteps
  <2> QED
    BY <2>1, <2>2 DEF ExecuteInv
<1>3. CASE UNCHANGED executeVars
  <2>1. UNCHANGED <<containerVars, processVars, container, process, stranger, runtime>>
    BY <1>3 DEF executeVars, containerVars, processVars, workVars, hostProcesses
  <2> QED
    BY <2>1, ContainerStutters, ProcessStutters DEF ExecuteInv
<1> QED
  BY <1>1, <1>2, <1>3 DEF ExecuteNext

LEMMA ExecuteAlways == ExecuteSpec => []ExecuteInv
BY ExecuteStarts, ExecuteSteps, PTL DEF ExecuteSpec

LEMMA HoldsLeases == ExecuteInv => LeasesHold
<1> SUFFICES ASSUME ExecuteInv PROVE LeasesHold
  OBVIOUS
<1>1. CASE runtime = "docker"
  <2>1. ContainerInv /\ ~stranger.hit /\ \A i \in Workers : process[i].state = "none"
    BY <1>1 DEF ExecuteInv
  <2>2. ExecuteTypeOK
    BY <1>1, <2>1 DEF ExecuteTypeOK, ContainerInv
  <2> QED
    BY <2>1, <2>2 DEF LeasesHold, OneLeasedWorker, NoUnleasedWork, StrangersAreSafe, Led
<1>2. CASE runtime = "native"
  <2>1. ProcessInv
    BY <1>2 DEF ExecuteInv
  <2>2. ExecuteTypeOK
    BY <1>2, <2>1 DEF ExecuteTypeOK, ProcessInv
  <2> QED
    BY <2>1, <2>2, HostIsTyped DEF GroupInv, Guarded, LeasesHold, OneLeasedWorker, NoUnleasedWork, StrangersAreSafe
<1> QED
  BY <1>1, <1>2 DEF ExecuteInv

LEMMA LeavesNoOrphans == ExecuteInv => NoOrphans
<1> SUFFICES ASSUME ExecuteInv PROVE NoOrphans
  OBVIOUS
<1>1. CASE runtime = "docker"
  <2>1. BoxInv /\ \A i \in Workers : process[i].state = "none"
    BY <1>1, Typed DEF ExecuteInv
  <2> QED
    BY <2>1 DEF BoxInv, NoOrphans, NothingLeftRunning, Concluded, Led
<1>2. CASE runtime = "native"
  <2>1. GroupInv /\ \A i \in Workers : container[i].state = "none" /\ container[i].exit = None
    BY <1>2, HostIsTyped DEF ExecuteInv
  <2> QED
    BY <2>1 DEF GroupInv, Guarded, NoOrphans, EveryRunIsRecorded, Running, NothingLeftRunning, Concluded
<1> QED
  BY <1>1, <1>2 DEF ExecuteInv

\* What the leases of process groups promise holds for any number of runners,
\* launches, kills and reboots: one worker leads its group under a lease, none
\* works without one unless a later launch's gate let it through, and nobody
\* else's process is signalled.
THEOREM LeasesAlwaysHold == ExecuteSpec => []LeasesHold
BY ExecuteAlways, HoldsLeases, PTL

\* A container that runs or ran is named by the lease or by the archive, and
\* nothing that a lease was written for runs on when every caller has an answer.
THEOREM NobodyIsOrphaned == ExecuteSpec => []NoOrphans
BY ExecuteAlways, LeavesNoOrphans, PTL

-----------------------------------------------------------------------------
(* What is on disk while there is a result to replay.                      *)

\* The container of a worker that is waited for, judged or cleaned up exists
\* unless it was pruned, and once the worker was collected its lease is closed.
Handles(r) ==
    /\ ctl[r].pc \in {"mark", "collect", "recollect", "judge", "persist", "discard", "cleanup", "tidy"}
         => Present(ctl[r].worker) \/ container[ctl[r].worker].state = "pruned"
    /\ ctl[r].pc \in {"judge", "persist", "discard", "cleanup", "tidy"} => lease.state \notin Open /\ ~over

\* A result that can be replayed is that of the lease's worker, whose lease is
\* closed and who does not run, and nothing is pruned without a trace.
Settled ==
    /\ result # None /\ lease # None /\ result.worker = lease.worker
    /\ lease.state \notin Open /\ ~over
    /\ \A i \in Workers : ~Running(i)

ReplayInv ==
    /\ whole => Settled
    /\ ~disturbed => \A i \in Workers : container[i].state # "pruned"
    /\ \A r \in Runners : Handles(r)

LEMMA IdleHandles ==
    ASSUME NEW r, ctl[r].pc \in {"away", "done"}
    PROVE  Handles(r)
BY DEF Handles

\* What the holder of the lock does leaves the others where they are.
LEMMA ReplayKept ==
    ASSUME ContainerInv, ReplayInv, NEW r \in Runners, ctl[r].pc \notin {"away", "done"},
           \A q \in Runners : q # r => ctl'[q] = ctl[q], whole' => Settled', disturbed => disturbed',
           \A i \in Workers : container'[i].state = "pruned" => container[i].state = "pruned",
           Handles(r)'
    PROVE  ReplayInv'
<1>1. \A q \in Runners : q # r => ctl[q].pc \in {"away", "done"}
  BY Holder, Typed
<1>2. ASSUME NEW q \in Runners
      PROVE  Handles(q)'
  <2>1. CASE q # r
    <3>1. ctl'[q].pc \in {"away", "done"}
      BY <1>1, <2>1
    <3> QED
      BY <3>1 DEF Handles
  <2> QED
    BY <2>1
<1>3. ~disturbed' => \A i \in Workers : container'[i].state # "pruned"
  BY DEF ReplayInv
<1> QED
  BY <1>2, <1>3 DEF ReplayInv

\* A step that changes none of what a replay looks at.
LEMMA ReplayUntouched ==
    ASSUME ContainerInv, ReplayInv, NEW r \in Runners, ctl[r].pc \notin {"away", "done"},
           \A q \in Runners : q # r => ctl'[q] = ctl[q], whole' => whole, disturbed => disturbed',
           UNCHANGED <<container, lease, result, over>>, Handles(r)'
    PROVE  ReplayInv'
<1>1. whole' => Settled'
  BY DEF ReplayInv, Settled, Running
<1> QED
  BY <1>1, ReplayKept

\* An answer, from wherever.
LEMMA ReplayAnswered ==
    ASSUME ContainerInv, ReplayInv, NEW r \in Runners, ctl[r].pc \notin {"away", "done"}, Answer(r),
           whole' => whole, disturbed => disturbed', UNCHANGED <<container, lease, result, over>>
    PROVE  ReplayInv'
<1>1. ctl'[r].pc = "done" /\ \A q \in Runners : q # r => ctl'[q] = ctl[q]
  BY Answering, Typed
<1>2. Handles(r)'
  BY <1>1 DEF Handles
<1> QED
  BY <1>1, <1>2, ReplayUntouched

\* An error, from wherever: nothing is replayed any more.
LEMMA ReplayFailed ==
    ASSUME ContainerInv, ReplayInv, NEW r \in Runners, ctl[r].pc \notin {"away", "done"}, Fail(r),
           UNCHANGED <<container, lease, result, over>>
    PROVE  ReplayInv'
<1>1. Answer(r) /\ whole' = FALSE /\ disturbed' = disturbed
  BY Failing
<1>2. (whole' => whole) /\ (disturbed => disturbed')
  BY <1>1
<1> QED
  BY <1>1, <1>2, ReplayAnswered

\* A move to a point at which nothing is asked of the worker.
LEMMA ReplayMoved ==
    ASSUME ContainerInv, ReplayInv, NEW r \in Runners, ctl[r].pc \notin {"away", "done"},
           NEW point \in {"status", "terminate", "reclose", "archive", "release", "forget", "reserve", "create"},
           Goto(r, point), whole' => whole, disturbed => disturbed', UNCHANGED <<container, lease, result, over>>
    PROVE  ReplayInv'
<1>1. point \in ContainerPoints
  BY DEF ContainerPoints
<1>2. ctl'[r].pc = point /\ \A q \in Runners : q # r => ctl'[q] = ctl[q]
  BY <1>1, Going, Typed
<1>3. Handles(r)'
  BY <1>2 DEF Handles
<1> QED
  BY <1>2, <1>3, ReplayUntouched

\* A move that takes along what is known of the worker.
LEMMA ReplayMovedOn ==
    ASSUME ContainerInv, ReplayInv, NEW r \in Runners, ctl[r].pc \notin {"away", "done"},
           NEW point \in ContainerPoints, Goto(r, point), whole' => whole, disturbed => disturbed',
           UNCHANGED <<container, lease, result, over>>,
           point \in {"mark", "collect", "recollect", "judge", "persist", "discard", "cleanup", "tidy"}
             => Present(ctl[r].worker) \/ container[ctl[r].worker].state = "pruned",
           point \in {"judge", "persist", "discard", "cleanup", "tidy"} => lease.state \notin Open /\ ~over
    PROVE  ReplayInv'
<1>1. ctl'[r].pc = point /\ ctl'[r].worker = ctl[r].worker /\ \A q \in Runners : q # r => ctl'[q] = ctl[q]
  BY Going, Typed
<1>2. Handles(r)'
  BY <1>1 DEF Handles, Present
<1> QED
  BY <1>1, <1>2, ReplayUntouched

LEMMA ReadingReplay ==
    ASSUME ContainerInv, ReplayInv, NEW r \in Runners,
           OpenDirectory(r) \/ Recover(r) \/ InspectPrior(r) \/ JudgePrior(r) \/ Expire(r)
    PROVE  ReplayInv'
<1>1. CASE OpenDirectory(r)
  <2>1. ctl[r].pc = "open" /\ UNCHANGED <<whole, disturbed, container, lease, result, over>>
    BY <1>1 DEF OpenDirectory, At, hostVars, replayVars, workVars
  <2>2. CASE lease # None
    <3>1. ctl' = [ctl EXCEPT ![r].pc = "recover", ![r].worker = lease.worker]
      BY <1>1, <2>2 DEF OpenDirectory
    <3>2. ctl'[r].pc = "recover" /\ \A q \in Runners : q # r => ctl'[q] = ctl[q]
      BY <3>1, Typed DEF Boxes
    <3>3. Handles(r)'
      BY <3>2 DEF Handles
    <3> QED
      BY <2>1, <3>2, <3>3, ReplayUntouched
  <2>3. CASE lease = None
    BY <1>1, <2>1, <2>3, ReplayAnswered, ReplayMoved DEF OpenDirectory
  <2> QED
    BY <2>2, <2>3
<1>2. CASE Recover(r)
  <2>1. ctl[r].pc = "recover" /\ UNCHANGED <<container, lease, result, over>>
    BY <1>2 DEF Recover, At, workVars
  <2>2. CASE Fail(r)
    BY <2>1, <2>2, ReplayFailed
  <2>3. CASE ~Fail(r)
    <3>1. PICK point \in {"status", "terminate", "reclose"} : Goto(r, point) /\ UNCHANGED <<whole, disturbed>>
      BY <1>2, <2>3 DEF Recover, replayVars
    <3> QED
      BY <2>1, <3>1, ReplayMoved
  <2> QED
    BY <2>2, <2>3
<1>3. CASE InspectPrior(r)
  <2>1. ctl[r].pc = "status" /\ UNCHANGED <<whole, disturbed, container, lease, result, over>>
    BY <1>3 DEF InspectPrior, At, hostVars, replayVars, workVars
  <2>2. CASE Present(ctl[r].worker)
    <3>1. Goto(r, "recollect")
      BY <1>3, <2>2 DEF InspectPrior
    <3> QED
      BY <2>1, <2>2, <3>1, ReplayMovedOn DEF ContainerPoints
  <2>3. CASE ~Present(ctl[r].worker)
    BY <1>3, <2>1, <2>3, ReplayAnswered, ReplayMoved DEF InspectPrior
  <2> QED
    BY <2>2, <2>3
<1>4. CASE JudgePrior(r)
  <2>1. ctl[r].pc = "judge" /\ UNCHANGED <<whole, disturbed, container, lease, result, over>>
    BY <1>4 DEF JudgePrior, At, hostVars, replayVars, workVars
  <2>2. PICK point \in {"tidy", "persist", "discard"} : Goto(r, point)
    BY <1>4 DEF JudgePrior
  <2>3. /\ Present(ctl[r].worker) \/ container[ctl[r].worker].state = "pruned"
        /\ lease.state \notin Open /\ ~over
    BY <2>1 DEF ReplayInv, Handles
  <2>4. point \in ContainerPoints
    BY DEF ContainerPoints
  <2> QED
    BY <2>1, <2>2, <2>3, <2>4, ReplayMovedOn
<1>5. CASE Expire(r)
  <2>1. /\ ctl[r].pc \in {"collect", "recollect"} /\ Present(ctl[r].worker)
        /\ ctl' = [ctl EXCEPT ![r].seen = "timeout"]
        /\ UNCHANGED <<whole, disturbed, container, lease, result, over>>
    BY <1>5 DEF Expire, Collecting, At, hostVars, replayVars, workVars
  <2>2. ctl'[r].pc = ctl[r].pc /\ ctl'[r].worker = ctl[r].worker /\ \A q \in Runners : q # r => ctl'[q] = ctl[q]
    BY <2>1, Typed DEF Boxes
  <2>3. Handles(r)'
    BY <2>1, <2>2 DEF Handles, Present
  <2> QED
    BY <2>1, <2>2, <2>3, ReplayUntouched
<1> QED
  BY <1>1, <1>2, <1>3, <1>4, <1>5

LEMMA FilingReplay ==
    ASSUME ContainerInv, ReplayInv, NEW r \in Runners,
           Archive(r) \/ ForgetOutput(r) \/ Reserve(r) \/ CollectNothing(r) \/ DropOutput(r) \/ ServiceFails(r)
    PROVE  ReplayInv'
<1>1. CASE Archive(r)
  <2>1. ctl[r].pc = "archive" /\ Goto(r, "release") /\ UNCHANGED <<whole, disturbed, container, lease, result, over>>
    BY <1>1 DEF Archive, At, replayVars, workVars
  <2> QED
    BY <2>1, ReplayMoved
<1>2. CASE ForgetOutput(r)
  <2>1. ctl[r].pc = "forget" /\ Goto(r, "reserve") /\ UNCHANGED <<whole, disturbed, container, lease, result, over>>
    BY <1>2 DEF ForgetOutput, At, hostVars, replayVars
  <2> QED
    BY <2>1, ReplayMoved
<1>3. CASE Reserve(r)
  <2>1. ctl[r].pc = "reserve" /\ UNCHANGED <<container, lease, result, over>>
    BY <1>3 DEF Reserve, At, workVars
  <2>2. CASE reservation \/ over
    <3>1. Fail(r)
      BY <1>3, <2>2 DEF Reserve
    <3> QED
      BY <2>1, <3>1, ReplayFailed
  <2>3. CASE ~(reservation \/ over)
    BY <1>3, <2>1, <2>3, ReplayMoved DEF Reserve, replayVars
  <2> QED
    BY <2>2, <2>3
<1>4. CASE CollectNothing(r)
  <2>1. ctl[r].pc \in {"collect", "recollect"} /\ Fail(r) /\ UNCHANGED <<container, lease, result, over>>
    BY <1>4 DEF CollectNothing, Collecting, At, workVars
  <2> QED
    BY <2>1, ReplayFailed
<1>5. CASE DropOutput(r)
  <2>1. ctl[r].pc = "drop" /\ Answer(r) /\ UNCHANGED <<whole, disturbed, container, lease, result, over>>
    BY <1>5 DEF DropOutput, At, hostVars, replayVars
  <2> QED
    BY <2>1, ReplayAnswered
<1>6. CASE ServiceFails(r)
  <2>1. /\ ctl[r].pc \notin {"away", "done"} /\ Answer(r) /\ whole' = FALSE /\ disturbed' = TRUE
        /\ UNCHANGED <<container, lease, result, over>>
    BY <1>6 DEF ServiceFails, workVars
  <2> QED
    BY <2>1, ReplayAnswered
<1> QED
  BY <1>1, <1>2, <1>3, <1>4, <1>5, <1>6

\* Nothing is put to work, and no lease is written, while a result can be replayed.
LEMMA LaunchingReplay ==
    ASSUME ContainerInv, ReplayInv, NEW r \in Runners,
           Create(r) \/ PersistLease(r) \/ Start(r) \/ MarkStarted(r) \/ VerificationFails(r) \/ LaunchFails(r)
             \/ StartNothing(r) \/ Dispose(r) \/ Release(r)
    PROVE  ReplayInv'
<1>1. ctl[r].pc \in Unfinished /\ ctl[r].pc \notin {"away", "done"} /\ ctl \in Boxes
  BY Typed DEF Create, PersistLease, Start, MarkStarted, VerificationFails, LaunchFails, StartNothing, Dispose, Release,
     At, Unfinished, Unleased
<1>2. ~whole
  BY <1>1 DEF ContainerInv, Knows
<1>3. ~whole' /\ (disturbed => disturbed')
  BY <1>2 DEF Create, PersistLease, Start, MarkStarted, VerificationFails, LaunchFails, StartNothing, Dispose, Release,
     Abandon, Fail, hostVars, replayVars
<1>4. container \in [Workers -> [state : ContainerStates, exit : Exits \cup {None}]]
  BY Typed DEF OthersTyped
<1>5. CASE Create(r)
  <2>1. CASE NameTaken
    <3>1. Fail(r) /\ UNCHANGED <<container, lease, result, over>>
      BY <1>5, <2>1 DEF Create
    <3> QED
      BY <1>1, <3>1, ReplayFailed
  <2>2. CASE ~NameTaken
    <3>1. PICK i \in Workers : /\ container' = [container EXCEPT ![i].state = "created"]
                               /\ ctl' = [ctl EXCEPT ![r] = [pc |-> "lease", worker |-> i, seen |-> None]]
      BY <1>5, <2>2 DEF Create, Creates
    <3>2. /\ \A j \in Workers : container'[j].state = "pruned" => container[j].state = "pruned"
          /\ ctl'[r].pc = "lease" /\ \A q \in Runners : q # r => ctl'[q] = ctl[q]
      BY <1>1, <1>4, <3>1 DEF Boxes
    <3>3. Handles(r)'
      BY <3>2 DEF Handles
    <3> QED
      BY <1>1, <1>3, <3>2, <3>3, ReplayKept
  <2> QED
    BY <2>1, <2>2
<1>6. CASE PersistLease(r) \/ VerificationFails(r) \/ LaunchFails(r) \/ StartNothing(r) \/ Release(r)
  <2>1. PICK point \in {"start", "dispose", "forget"} : Goto(r, point) /\ container' = container
    BY <1>6 DEF PersistLease, VerificationFails, LaunchFails, StartNothing, Release, Abandon, workVars
  <2>2. ctl'[r].pc = point /\ \A q \in Runners : q # r => ctl'[q] = ctl[q]
    <3>1. point \in ContainerPoints
      BY DEF ContainerPoints
    <3> QED
      BY <1>1, <2>1, <3>1, Going
  <2>3. Handles(r)'
    BY <2>2 DEF Handles
  <2> QED
    BY <1>1, <1>3, <2>1, <2>2, <2>3, ReplayKept
<1>7. CASE Start(r)
  <2>1. /\ container' = [container EXCEPT ![ctl[r].worker].state = "running"] /\ Goto(r, "mark")
        /\ ctl[r].pc = "start"
    BY <1>7 DEF Start, At
  <2>2. ctl[r].worker \in Workers
    BY <2>1, AtLeased DEF Leased
  <2>3. /\ container'[ctl[r].worker].state = "running"
        /\ \A j \in Workers : container'[j].state = "pruned" => container[j].state = "pruned"
    BY <1>4, <2>1, <2>2
  <2>4. ctl'[r].pc = "mark" /\ ctl'[r].worker = ctl[r].worker /\ \A q \in Runners : q # r => ctl'[q] = ctl[q]
    BY <1>1, <2>1, Going DEF ContainerPoints
  <2>5. Handles(r)'
    BY <2>3, <2>4 DEF Handles, Present
  <2> QED
    BY <1>1, <1>3, <2>3, <2>4, <2>5, ReplayKept
<1>8. CASE MarkStarted(r)
  <2>1. ctl[r].pc = "mark" /\ Goto(r, "collect") /\ container' = container
    BY <1>8 DEF MarkStarted, At, workVars
  <2>2. ctl'[r].pc = "collect" /\ ctl'[r].worker = ctl[r].worker /\ \A q \in Runners : q # r => ctl'[q] = ctl[q]
    BY <1>1, <2>1, Going DEF ContainerPoints
  <2>3. Handles(r)'
    BY <2>1, <2>2 DEF ReplayInv, Handles, Present
  <2> QED
    BY <1>1, <1>3, <2>1, <2>2, <2>3, ReplayKept
<1>9. CASE Dispose(r)
  <2>1. /\ Answer(r) /\ ctl[r].worker \in Workers
        /\ container' = container \/ container' = [container EXCEPT ![ctl[r].worker].state = "disposed"]
    BY <1>9, Failing DEF Dispose, At, ContainerInv, Knows
  <2>2. \A j \in Workers : container'[j].state = "pruned" => container[j].state = "pruned"
    BY <1>4, <2>1
  <2>3. ctl'[r].pc = "done" /\ \A q \in Runners : q # r => ctl'[q] = ctl[q]
    BY <1>1, <2>1, Answering
  <2>4. Handles(r)'
    BY <2>3 DEF Handles
  <2> QED
    BY <1>1, <1>3, <2>2, <2>3, <2>4, ReplayKept
<1> QED
  BY <1>5, <1>6, <1>7, <1>8, <1>9

\* A container that is stopped is neither pruned nor set to work.
LEMMA StoppedKeeps ==
    ASSUME ContainerInv, NEW i \in Workers, container' = Stopped(i)
    PROVE  /\ \A j \in Workers : container'[j].state = "pruned" <=> container[j].state = "pruned"
           /\ \A j \in Workers : (Running(j)' => Running(j)) /\ (Present(j)' <=> Present(j))
<1>1. container \in [Workers -> [state : ContainerStates, exit : Exits \cup {None}]]
  BY Typed DEF OthersTyped
<1>2. CASE Running(i)
  <2>1. container' = [container EXCEPT ![i] = [state |-> "exited", exit |-> "killed"]]
    BY <1>2 DEF Stopped
  <2>2. container'[i].state = "exited" /\ container[i].state = "running" /\ \A j \in Workers : j # i => container'[j] = container[j]
    BY <1>1, <1>2, <2>1 DEF Running
  <2> QED
    BY <2>2 DEF Running, Present
<1>3. CASE ~Running(i)
  BY <1>3 DEF Stopped, Running, Present
<1> QED
  BY <1>2, <1>3

LEMMA StoppingReplay ==
    ASSUME ContainerInv, ReplayInv, NEW r \in Runners,
           Terminate(r) \/ StopExpired(r) \/ CollectOverBudget(r) \/ CloseRecovered(r)
    PROVE  ReplayInv'
<1>1. /\ ctl[r].pc \in {"terminate", "collect", "recollect", "reclose"} /\ ctl[r].pc \notin {"away", "done"}
      /\ lease # None /\ lease.worker = ctl[r].worker /\ ctl[r].worker \in Workers /\ lease \in Leases /\ ctl \in Boxes
  <2>1. ctl[r].pc \in {"terminate", "collect", "recollect", "reclose"}
    BY DEF Terminate, StopExpired, CollectOverBudget, CloseRecovered, Collecting, At
  <2> QED
    BY <2>1, AtLeased, Typed DEF Leased
<1>2. CASE Terminate(r)
  <2>1. /\ container' = Stopped(ctl[r].worker) /\ Goto(r, "reclose")
        /\ UNCHANGED <<whole, disturbed, lease, result, over>>
    BY <1>2 DEF Terminate, hostVars, replayVars
  <2>2. ctl'[r].pc = "reclose" /\ \A q \in Runners : q # r => ctl'[q] = ctl[q]
    BY <1>1, <2>1, Going DEF ContainerPoints
  <2>3. whole' => Settled'
    BY <1>1, <2>1, StoppedKeeps DEF ReplayInv, Settled
  <2>4. Handles(r)'
    BY <2>2 DEF Handles
  <2> QED
    BY <1>1, <2>1, <2>2, <2>3, <2>4, StoppedKeeps, ReplayKept
<1>3. CASE StopExpired(r)
  <2>1. container' = Stopped(ctl[r].worker) /\ UNCHANGED <<ctl, whole, disturbed, lease, result, over>>
    BY <1>3 DEF StopExpired, dirVars, hostVars, replayVars
  <2>2. whole' => Settled'
    BY <1>1, <2>1, StoppedKeeps DEF ReplayInv, Settled
  <2>3. Handles(r)'
    BY <1>1, <2>1, StoppedKeeps DEF ReplayInv, Handles
  <2> QED
    BY <1>1, <2>1, <2>2, <2>3, StoppedKeeps, ReplayKept
<1>4. CASE CollectOverBudget(r)
  <2>1. container' = Stopped(ctl[r].worker) /\ Answer(r) /\ whole' = FALSE /\ disturbed' = disturbed
    BY <1>4, Failing DEF CollectOverBudget
  <2>2. ctl'[r].pc = "done" /\ \A q \in Runners : q # r => ctl'[q] = ctl[q]
    BY <1>1, <2>1, Answering
  <2>3. Handles(r)'
    BY <2>2 DEF Handles
  <2> QED
    BY <1>1, <2>1, <2>2, <2>3, StoppedKeeps, ReplayKept
<1>5. CASE CloseRecovered(r)
  <2>1. /\ lease' = [lease EXCEPT !.state = "recovered"] /\ Goto(r, "status")
        /\ UNCHANGED <<whole, disturbed, container, result, over>>
    BY <1>5 DEF CloseRecovered, replayVars, workVars
  <2>2. ctl'[r].pc = "status" /\ \A q \in Runners : q # r => ctl'[q] = ctl[q]
    BY <1>1, <2>1, Going DEF ContainerPoints
  <2>3. lease' \in Leases /\ lease'.worker = lease.worker /\ lease'.state \notin Open
    BY <1>1, <2>1 DEF Leases, Open
  <2>4. lease' # None
    BY <2>3, ContainerAssumption
  <2>5. whole' => Settled'
    BY <2>1, <2>3, <2>4 DEF ReplayInv, Settled, Running
  <2>6. Handles(r)'
    BY <2>2 DEF Handles
  <2> QED
    BY <1>1, <2>1, <2>2, <2>5, <2>6, ReplayKept
<1> QED
  BY <1>2, <1>3, <1>4, <1>5

LEMMA CollectingReplay ==
    ASSUME ContainerInv, ReplayInv, NEW r \in Runners, Collect(r)
    PROVE  ReplayInv'
<1>1. /\ ctl[r].pc \in {"collect", "recollect"} /\ ~Running(ctl[r].worker) /\ Present(ctl[r].worker) /\ ~over
      /\ lease' = CloseLease /\ ctl \in Boxes
      /\ ctl' = [ctl EXCEPT ![r].seen = Outcome(ctl[r].worker, @), ![r].pc = IF @ = "collect" THEN "persist" ELSE "judge"]
      /\ UNCHANGED <<result, whole, disturbed, container, over>>
  BY Typed DEF Collect, Collecting, At, replayVars, workVars
<1>2. /\ lease # None /\ lease.worker = ctl[r].worker /\ ctl[r].worker \in Workers /\ lease \in Leases
      /\ ctl[r].pc \notin {"away", "done"}
  BY <1>1, AtLeased DEF Leased
<1>3. ctl'[r].worker = ctl[r].worker /\ \A q \in Runners : q # r => ctl'[q] = ctl[q]
  BY <1>1 DEF Boxes
<1>4. lease' \in Leases /\ lease'.worker = lease.worker /\ lease'.state \notin Open
  BY <1>1, <1>2 DEF CloseLease, Leases, Open
<1>5. lease' # None
  BY <1>4, ContainerAssumption
<1>6. whole' => Settled'
  BY <1>1, <1>4, <1>5 DEF ReplayInv, Settled, Running
<1>7. Handles(r)'
  BY <1>1, <1>3, <1>4 DEF Handles, Present
<1> QED
  BY <1>1, <1>2, <1>3, <1>6, <1>7, ReplayKept

LEMMA PersistingReplay ==
    ASSUME ContainerInv, ReplayInv, NEW r \in Runners, PersistResult(r)
    PROVE  ReplayInv'
<1>1. /\ ctl[r].pc = "persist" /\ Goto(r, "cleanup") /\ ctl \in Boxes
      /\ result' = [worker |-> ctl[r].worker, writer |-> IF ctl[r].seen \in {"timeout", "oom"} THEN None ELSE output]
      /\ UNCHANGED <<disturbed, lease, container, over>>
  BY Typed DEF PersistResult, At, workVars
<1>2. /\ lease # None /\ lease.worker = ctl[r].worker /\ ctl[r].worker \in Workers
      /\ ctl[r].pc \notin {"away", "done"} /\ ~Running(ctl[r].worker)
  BY <1>1, AtLeased DEF Leased, Knows
<1>3. /\ lease.state \notin Open /\ ~over
      /\ Present(ctl[r].worker) \/ container[ctl[r].worker].state = "pruned"
  BY <1>1 DEF ReplayInv, Handles
<1>4. result' \in Results /\ result'.worker = ctl[r].worker
  BY <1>1, <1>2, Typed DEF Results, OthersTyped
<1>5. result' # None
  BY <1>4, DirectoryAssumption
<1>6. \A i \in Workers : ~Running(i)
  BY <1>2, NothingRuns
<1>7. Settled'
  BY <1>1, <1>2, <1>3, <1>4, <1>5, <1>6 DEF Settled, Running
<1>8. ctl'[r].pc = "cleanup" /\ ctl'[r].worker = ctl[r].worker /\ \A q \in Runners : q # r => ctl'[q] = ctl[q]
  BY <1>1, Going DEF ContainerPoints
<1>9. Handles(r)'
  BY <1>1, <1>3, <1>8 DEF Handles, Present
<1> QED
  BY <1>1, <1>2, <1>7, <1>8, <1>9, ReplayKept

LEMMA CleaningReplay ==
    ASSUME ContainerInv, ReplayInv, NEW r \in Runners, Cleanup(r)
    PROVE  ReplayInv'
<1>1. /\ ctl[r].pc \in {"discard", "cleanup", "tidy"} /\ ctl \in Boxes
      /\ UNCHANGED <<result, lease, over>>
  BY Typed DEF Cleanup
<1>2. /\ lease # None /\ lease.worker = ctl[r].worker /\ ctl[r].worker \in Workers /\ ctl[r].pc \notin {"away", "done"}
      /\ ~Running(ctl[r].worker)
  BY <1>1, AtLeased DEF Leased, Knows
<1>3. CASE ~Present(ctl[r].worker)
  <2>1. Fail(r) /\ container' = container
    BY <1>3 DEF Cleanup
  <2> QED
    BY <1>1, <1>2, <2>1, ReplayFailed
<1>4. CASE Present(ctl[r].worker)
  <2>1. container' = [container EXCEPT ![ctl[r].worker].state = "removed"] /\ UNCHANGED <<whole, disturbed>>
    BY <1>2, <1>4 DEF Cleanup, replayVars
  <2>2. container \in [Workers -> [state : ContainerStates, exit : Exits \cup {None}]]
    BY Typed DEF OthersTyped
  <2>3. /\ \A j \in Workers : Running(j)' => Running(j)
        /\ \A j \in Workers : container'[j].state = "pruned" => container[j].state = "pruned"
    BY <1>2, <2>1, <2>2 DEF Running
  <2>4. whole' => Settled'
    BY <1>1, <2>1, <2>3 DEF ReplayInv, Settled
  <2>5. ctl'[r].pc \in {"archive", "drop", "done"} /\ \A q \in Runners : q # r => ctl'[q] = ctl[q]
    <3>1. Goto(r, "archive") \/ Goto(r, "drop") \/ Answer(r)
      BY <1>2, <1>4 DEF Cleanup, At
    <3> QED
      BY <1>1, <3>1, Going, Answering DEF ContainerPoints
  <2>6. Handles(r)'
    BY <2>5 DEF Handles
  <2> QED
    BY <1>2, <2>1, <2>3, <2>4, <2>5, <2>6, ReplayKept
<1> QED
  BY <1>3, <1>4

\* Runners that come and go.
LEMMA ComingReplay ==
    ASSUME ContainerInv, ReplayInv, NEW r \in Runners,
           ((Acquire(r) \/ Conflict(r)) /\ UNCHANGED <<hostVars, workVars>>) \/ KillContainerRunner(r)
    PROVE  ReplayInv'
<1>1. UNCHANGED <<container, lease, result, over, disturbed>>
  BY DEF Acquire, Conflict, KillContainerRunner, KillRunner, hostVars, replayVars, workVars
<1>2. ctl \in Boxes /\ whole \in BOOLEAN
  BY Typed DEF OthersTyped
<1>3. ctl'[r].pc \in {"open", "done", "away"} /\ \A q \in Runners : q # r => ctl'[q] = ctl[q]
  <2>1. CASE Acquire(r)
    BY <1>2, <2>1, Going DEF Acquire, ContainerPoints
  <2>2. CASE Conflict(r)
    BY <1>2, <2>2, Going DEF Conflict, ContainerPoints
  <2>3. CASE KillContainerRunner(r)
    BY <1>2, <2>3 DEF KillContainerRunner, KillRunner, Boxes, Away
  <2> QED
    BY <2>1, <2>2, <2>3
<1>4. \A q \in Runners : Handles(q)'
  BY <1>1, <1>3 DEF ReplayInv, Handles, Present
<1>5. CASE whole' => whole
  BY <1>1, <1>4, <1>5 DEF ReplayInv, Settled, Running
<1>6. CASE whole' /\ ~whole
  <2>1. KillContainerRunner(r) /\ ctl[r].pc = "persist" /\ result # None /\ result.worker = ctl[r].worker
    BY <1>6 DEF KillContainerRunner, At, hostVars, replayVars
  <2>2. lease # None /\ lease.worker = ctl[r].worker /\ ~Running(ctl[r].worker)
    BY <2>1, AtLeased DEF Leased, Knows
  <2>3. lease.state \notin Open /\ ~over
    BY <2>1 DEF ReplayInv, Handles
  <2>4. \A i \in Workers : ~Running(i)
    BY <2>2, NothingRuns
  <2>5. Settled'
    BY <1>1, <2>1, <2>2, <2>3, <2>4 DEF Settled, Running
  <2> QED
    BY <1>1, <1>4, <2>5 DEF ReplayInv
<1> QED
  BY <1>5, <1>6

\* A worker that runs is waited for by nobody who has judged it.
LEMMA WorkingReplay ==
    ASSUME ContainerInv, ReplayInv, NEW i \in Workers, WorkerStep(i)
    PROVE  ReplayInv'
<1>1. container \in [Workers -> [state : ContainerStates, exit : Exits \cup {None}]]
  BY Typed DEF OthersTyped
<1>2. CASE WriteOutput(i)
  BY <1>2 DEF WriteOutput, dirVars, hostVars, replayVars, ReplayInv, Settled, Handles, Present, Running
<1>3. ASSUME NEW code \in Exits, Exit(i, code)
      PROVE  ReplayInv'
  <2>1. /\ Running(i) /\ container' = [container EXCEPT ![i] = [state |-> "exited", exit |-> code]]
        /\ UNCHANGED <<ctl, result, whole, disturbed, lease, over>>
    BY <1>3 DEF Exit, dirVars, hostVars, replayVars
  <2>2. /\ container[i].state = "running" /\ container'[i].state = "exited"
        /\ \A j \in Workers : j # i => container'[j] = container[j]
    BY <1>1, <2>1 DEF Running
  <2>3. /\ \A j \in Workers : container'[j].state = "pruned" <=> container[j].state = "pruned"
        /\ \A j \in Workers : (Running(j)' => Running(j)) /\ (Present(j)' <=> Present(j))
    BY <2>2 DEF Running, Present
  <2>4. ASSUME NEW r \in Runners PROVE Handles(r)'
    <3>1. CASE ctl[r].pc \in Leased
      <4>1. ctl[r].worker \in Workers
        BY <3>1, AtLeased
      <4> QED
        BY <2>1, <2>3, <4>1 DEF ReplayInv, Handles
    <3>2. CASE ctl[r].pc \notin Leased
      BY <2>1, <3>2 DEF Handles, Leased
    <3> QED
      BY <3>1, <3>2
  <2> QED
    BY <2>1, <2>3, <2>4 DEF ReplayInv, Settled
<1>4. CASE Overflow(i)
  <2>1. /\ Running(i) /\ UNCHANGED <<ctl, result, whole, disturbed, lease, container>>
    BY <1>4 DEF Overflow, hostVars, replayVars
  <2>2. ~whole
    BY <2>1 DEF ReplayInv, Settled
  <2>3. ASSUME NEW r \in Runners PROVE Handles(r)'
    <3>1. CASE ctl[r].pc \in {"judge", "persist", "discard", "cleanup", "tidy"}
      <4>1. lease # None /\ lease.worker = ctl[r].worker /\ ~Running(ctl[r].worker)
        BY <3>1, AtLeased DEF Leased, Knows
      <4>2. \A j \in Workers : ~Running(j)
        BY <4>1, NothingRuns
      <4> QED
        BY <2>1, <4>2
    <3>2. CASE ctl[r].pc \notin {"judge", "persist", "discard", "cleanup", "tidy"}
      BY <2>1, <3>2 DEF ReplayInv, Handles, Present
    <3> QED
      BY <3>1, <3>2
  <2> QED
    BY <2>1, <2>2, <2>3 DEF ReplayInv
<1>5. CASE Prune(i)
  <2>1. /\ container' = [container EXCEPT ![i].state = "pruned"] /\ disturbed' = TRUE
        /\ UNCHANGED <<ctl, result, whole, lease, over>>
    BY <1>5 DEF Prune
  <2>2. container'[i].state = "pruned" /\ \A j \in Workers : j # i => container'[j] = container[j]
    BY <1>1, <2>1
  <2>3. ASSUME NEW r \in Runners PROVE Handles(r)'
    <3>1. CASE ctl[r].pc \in Leased
      <4>1. ctl[r].worker \in Workers
        BY <3>1, AtLeased
      <4> QED
        BY <2>1, <2>2, <4>1 DEF ReplayInv, Handles, Present
    <3>2. CASE ctl[r].pc \notin Leased
      BY <2>1, <3>2 DEF Handles, Leased
    <3> QED
      BY <3>1, <3>2
  <2> QED
    BY <2>1, <2>2, <2>3 DEF ReplayInv, Settled, Running
<1> QED
  BY <1>2, <1>3, <1>4, <1>5 DEF WorkerStep

LEMMA ReplaySteps ==
    ASSUME ContainerInv, ReplayInv, ContainerNext
    PROVE  ReplayInv'
<1>1. ASSUME NEW r \in Runners, RunnerStep(r)
      PROVE  ReplayInv'
  BY <1>1, ComingReplay, ReadingReplay, FilingReplay, LaunchingReplay, StoppingReplay, CollectingReplay,
     PersistingReplay, CleaningReplay DEF RunnerStep
<1>2. ASSUME NEW r \in Runners, VerificationFails(r) \/ LaunchFails(r) \/ ServiceFails(r) \/ KillContainerRunner(r)
      PROVE  ReplayInv'
  BY <1>2, ComingReplay, LaunchingReplay, FilingReplay
<1> QED
  BY <1>1, <1>2, WorkingReplay DEF ContainerNext

\* What is known of the result on disk holds in every state with containers.
LEMMA ReplayAlways == ExecuteSpec => [](ExecuteInv /\ (runtime = "docker" => ReplayInv))
<1>1. ExecuteInit => ReplayInv
  BY DEF ExecuteInit, ContainerInit, DirInit, Away, ReplayInv, Handles
<1>2. ExecuteInv /\ (runtime = "docker" => ReplayInv) /\ [ExecuteNext]_executeVars
        => (runtime = "docker" => ReplayInv)'
  <2> SUFFICES ASSUME ExecuteInv, runtime = "docker" => ReplayInv, [ExecuteNext]_executeVars, runtime' = "docker"
               PROVE  ReplayInv'
    OBVIOUS
  <2>1. CASE InContainer /\ ContainerNext
    BY <2>1, ReplaySteps DEF InContainer, ExecuteInv
  <2>2. CASE InProcess /\ ProcessNext
    BY <2>2 DEF InProcess
  <2>3. CASE UNCHANGED executeVars
    BY <2>3 DEF executeVars, containerVars, dirVars, hostVars, replayVars, workVars,
       ReplayInv, Settled, Handles, Present, Running
  <2> QED
    BY <2>1, <2>2, <2>3 DEF ExecuteNext
<1> QED
  BY <1>1, <1>2, ExecuteAlways, PTL DEF ExecuteSpec

-----------------------------------------------------------------------------
(* What the steps with containers do to the workers and to the result.     *)

\* A step that starts nothing, concludes nothing and removes nothing.
Calm ==
    /\ result' = result /\ (whole' => whole)
    /\ disturbed' = disturbed \/ (disturbed' = TRUE /\ \A j \in Workers : Running(j) => Running(j)')
    /\ \A j \in Workers : /\ Running(j)' => Running(j)
                          /\ container'[j].state = "removed" => container[j].state = "removed"

\* A kill that leaves an earlier result of the worker to be replayed.
Revives(r) == KillContainerRunner(r) /\ ~whole /\ whole'

LEMMA StoppedCalm ==
    ASSUME ContainerInv, NEW i \in Workers, container' = Stopped(i), result' = result,
           whole' => whole, disturbed' = disturbed
    PROVE  Calm
<1>1. container \in [Workers -> [state : ContainerStates, exit : Exits \cup {None}]]
  BY Typed DEF OthersTyped
<1>2. CASE Running(i)
  <2>1. container' = [container EXCEPT ![i] = [state |-> "exited", exit |-> "killed"]]
    BY <1>2 DEF Stopped
  <2>2. container'[i].state = "exited" /\ \A j \in Workers : j # i => container'[j] = container[j]
    BY <1>1, <2>1
  <2> QED
    BY <2>2 DEF Calm, Running
<1>3. CASE ~Running(i)
  BY <1>3 DEF Stopped, Calm, Running
<1> QED
  BY <1>2, <1>3

LEMMA ChangedCalm ==
    ASSUME ContainerInv, NEW i \in Workers, NEW s \in {"created", "disposed", "pruned"},
           container' = [container EXCEPT ![i].state = s], result' = result, whole' => whole,
           disturbed' = disturbed \/ (disturbed' = TRUE /\ ~Running(i))
    PROVE  Calm
<1>1. container \in [Workers -> [state : ContainerStates, exit : Exits \cup {None}]]
  BY Typed DEF OthersTyped
<1>2. container'[i].state = s /\ \A j \in Workers : j # i => container'[j] = container[j]
  BY <1>1
<1> QED
  BY <1>2 DEF Calm, Running

LEMMA SameCalm ==
    ASSUME UNCHANGED <<container, result>>, whole' => whole, disturbed' = disturbed \/ disturbed' = TRUE
    PROVE  Calm
BY DEF Calm, Running

LEMMA StillCalm ==
    ASSUME UNCHANGED <<container, result, whole, disturbed>>
    PROVE  Calm
BY DEF Calm, Running

\* Of a runner's steps only a few are not calm.
LEMMA RunnersAreCalm ==
    ASSUME ContainerInv, NEW r \in Runners,
           RunnerStep(r) \/ VerificationFails(r) \/ LaunchFails(r) \/ ServiceFails(r) \/ KillContainerRunner(r)
    PROVE  Start(r) \/ PersistResult(r) \/ Cleanup(r) \/ Revives(r) \/ Calm
<1>1. CASE (Acquire(r) \/ Conflict(r)) /\ UNCHANGED <<hostVars, workVars>>
  BY <1>1, StillCalm DEF Acquire, Conflict, hostVars, replayVars, workVars
<1>2. CASE OpenDirectory(r) \/ CloseRecovered(r) \/ InspectPrior(r) \/ JudgePrior(r) \/ Archive(r) \/ Release(r)
  BY <1>2, StillCalm DEF OpenDirectory, CloseRecovered, InspectPrior, JudgePrior, Archive, Release,
     hostVars, replayVars, workVars
<1>3. CASE ForgetOutput(r) \/ PersistLease(r) \/ MarkStarted(r) \/ Expire(r) \/ Collect(r) \/ DropOutput(r)
  BY <1>3, StillCalm DEF ForgetOutput, PersistLease, MarkStarted, Expire, Collect, DropOutput,
     hostVars, replayVars, workVars
<1>4. CASE Recover(r) \/ Reserve(r) \/ CollectNothing(r)
  <2>1. UNCHANGED <<container, result>>
    BY <1>4 DEF Recover, Reserve, CollectNothing, workVars
  <2>2. Fail(r) \/ UNCHANGED replayVars
    BY <1>4 DEF Recover, Reserve, CollectNothing
  <2> QED
    <3>1. (whole' => whole) /\ disturbed' = disturbed
      BY <2>2 DEF Fail, replayVars
    <3> QED
      BY <2>1, <3>1, SameCalm
<1>5. CASE Terminate(r)
  <2>1. ctl[r].worker \in Workers
    BY <1>5, AtLeased DEF Terminate, At, Leased
  <2> QED
    BY <1>5, <2>1, StoppedCalm DEF Terminate, hostVars, replayVars
<1>6. CASE StopExpired(r) \/ CollectOverBudget(r)
  <2>1. ctl[r].worker \in Workers
    BY <1>6, AtLeased DEF StopExpired, CollectOverBudget, Collecting, At, Leased
  <2>2. /\ container' = Stopped(ctl[r].worker) /\ result' = result
        /\ (whole' => whole) /\ disturbed' = disturbed
    BY <1>6 DEF StopExpired, CollectOverBudget, Fail, dirVars, hostVars, replayVars
  <2> QED
    BY <2>1, <2>2, StoppedCalm
<1>7. CASE Create(r)
  <2>1. CASE NameTaken
    BY <1>7, <2>1, SameCalm DEF Create, Fail
  <2>2. CASE ~NameTaken
    <3>1. PICK i \in Workers : container' = [container EXCEPT ![i].state = "created"]
      BY <1>7, <2>2 DEF Create, Creates
    <3>2. result' = result /\ UNCHANGED <<whole, disturbed>>
      BY <1>7, <2>2 DEF Create, replayVars
    <3> QED
      BY <3>1, <3>2, ChangedCalm
  <2> QED
    BY <2>1, <2>2
<1>8. CASE Dispose(r)
  <2>1. ctl[r].worker \in Workers /\ result' = result /\ whole' = FALSE /\ disturbed' = disturbed
    BY <1>8 DEF Dispose, Fail, At, ContainerInv, Knows
  <2>2. CASE Present(ctl[r].worker)
    BY <1>8, <2>1, <2>2, ChangedCalm DEF Dispose
  <2>3. CASE ~Present(ctl[r].worker)
    BY <1>8, <2>1, <2>3, SameCalm DEF Dispose
  <2> QED
    BY <2>2, <2>3
<1>9. CASE StartNothing(r) \/ VerificationFails(r) \/ LaunchFails(r)
  BY <1>9, StillCalm DEF StartNothing, VerificationFails, LaunchFails, Abandon, replayVars, workVars
<1>10. CASE ServiceFails(r)
  BY <1>10, SameCalm DEF ServiceFails, workVars
<1>11. CASE KillContainerRunner(r)
  <2>1. UNCHANGED <<container, result, disturbed>>
    BY <1>11 DEF KillContainerRunner, KillRunner, workVars
  <2> QED
    BY <1>11, <2>1, SameCalm DEF Revives
<1> QED
  BY <1>1, <1>2, <1>3, <1>4, <1>5, <1>6, <1>7, <1>8, <1>9, <1>10, <1>11 DEF RunnerStep

LEMMA WorkersAreCalm ==
    ASSUME ContainerInv, NEW i \in Workers, WorkerStep(i)
    PROVE  Calm
<1>1. CASE WriteOutput(i) \/ Overflow(i)
  BY <1>1, StillCalm DEF WriteOutput, Overflow, dirVars, hostVars, replayVars
<1>2. CASE Prune(i)
  BY <1>2, ChangedCalm DEF Prune, Running
<1>3. ASSUME NEW code \in Exits, Exit(i, code)
      PROVE  Calm
  <2>1. container \in [Workers -> [state : ContainerStates, exit : Exits \cup {None}]]
    BY Typed DEF OthersTyped
  <2>2. /\ container' = [container EXCEPT ![i] = [state |-> "exited", exit |-> code]]
        /\ UNCHANGED <<result, whole, disturbed>> /\ Running(i)
    BY <1>3 DEF Exit, dirVars, hostVars, replayVars
  <2>3. container'[i].state = "exited" /\ \A j \in Workers : j # i => container'[j] = container[j]
    BY <2>1, <2>2
  <2> QED
    BY <2>2, <2>3 DEF Calm, Running
<1> QED
  BY <1>1, <1>2, <1>3 DEF WorkerStep

LEMMA StepsAreCalm ==
    ASSUME ContainerInv, ContainerNext
    PROVE  Calm \/ \E r \in Runners : Start(r) \/ PersistResult(r) \/ Cleanup(r) \/ Revives(r)
BY RunnersAreCalm, WorkersAreCalm DEF ContainerNext

\* Removal is the clean-up of the worker in hand, with its result on disk unless
\* the runner found the worker's time run out.
LEMMA RemovalIsDue ==
    ASSUME ContainerInv, ReplayInv, NEW r \in Runners, Cleanup(r), NEW i \in Workers,
           container[i].exit = "ok", container[i].state = "exited", container'[i].state = "removed"
    PROVE  (whole /\ result.worker = i) \/ \E q \in Runners : ctl[q].seen = "timeout"
<1>1. container \in [Workers -> [state : ContainerStates, exit : Exits \cup {None}]]
  BY Typed DEF OthersTyped
<1>2. ctl[r].pc \in {"discard", "cleanup", "tidy"} /\ Knows(r)
  BY DEF Cleanup, ContainerInv
<1>3. i = ctl[r].worker
  <2>1. Present(i)
    BY DEF Present
  <2>2. ctl[r].worker \in Workers /\ lease # None /\ lease.worker = ctl[r].worker
    BY <1>2, AtLeased DEF Leased
  <2> QED
    BY <2>1, <2>2, Typed DEF BoxInv
<1>4. CASE ctl[r].pc \in {"cleanup", "tidy"}
  <2>1. lease.worker = ctl[r].worker
    BY <1>4, AtLeased DEF Leased
  <2> QED
    BY <1>2, <1>3, <1>4, <2>1 DEF Knows, ReplayInv, Settled
<1>5. CASE ctl[r].pc = "discard"
  <2>1. container[i] = [state |-> "exited", exit |-> "ok"]
    BY <1>1
  <2> QED
    BY <1>2, <1>3, <1>5, <2>1 DEF Knows
<1> QED
  BY <1>2, <1>4, <1>5

\* A container that ended well is removed only when there is a result of its
\* worker that later calls replay, or by a runner that saw its time run out.
THEOREM FinishedWorkIsAlwaysKept == ExecuteSpec => FinishedWorkIsKept
<1> DEFINE Kept == \A i \in Workers :
                     container[i].exit = "ok" /\ container[i].state = "exited" /\ container'[i].state = "removed"
                       => (whole /\ result.worker = i) \/ \E r \in Runners : ctl[r].seen = "timeout"
<1>1. ASSUME ExecuteInv, runtime = "docker" => ReplayInv, [ExecuteNext]_executeVars
      PROVE  Kept
  <2>1. CASE InContainer /\ ContainerNext
    <3>1. ContainerInv /\ ReplayInv
      BY <1>1, <2>1 DEF InContainer, ExecuteInv
    <3>2. CASE Calm
      BY <3>2 DEF Calm
    <3>3. ASSUME NEW r \in Runners, Start(r) PROVE Kept
      <4>1. container \in [Workers -> [state : ContainerStates, exit : Exits \cup {None}]]
        BY <3>1, Typed DEF OthersTyped
      <4> QED
        BY <3>3, <4>1 DEF Start
    <3>4. ASSUME NEW r \in Runners, PersistResult(r) PROVE Kept
      BY <3>4 DEF PersistResult, workVars
    <3>5. ASSUME NEW r \in Runners, Cleanup(r) PROVE Kept
      BY <3>1, <3>5, RemovalIsDue
    <3>6. ASSUME NEW r \in Runners, Revives(r) PROVE Kept
      BY <3>6 DEF Revives, KillContainerRunner, workVars
    <3> QED
      BY <2>1, <3>1, <3>2, <3>3, <3>4, <3>5, <3>6, StepsAreCalm
  <2>2. CASE InProcess /\ ProcessNext
    BY <2>2 DEF InProcess, workVars
  <2>3. CASE UNCHANGED executeVars
    BY <2>3 DEF executeVars, containerVars, workVars
  <2> QED
    BY <1>1, <2>1, <2>2, <2>3 DEF ExecuteNext
<1> QED
  BY <1>1, ReplayAlways, PTL DEF ExecuteSpec, FinishedWorkIsKept

-----------------------------------------------------------------------------
(* The durable attempt.                                                    *)

Live == {i \in Workers : Running(i)}

\* A result is lost only when the daemon or the disk fails, or after that.
LEMMA LossIsTroubled ==
    ASSUME ContainerInv, ReplayInv, ContainerNext, whole, ~whole'
    PROVE  disturbed' /\ \A i \in Workers : ~Running(i)
<1>1. Settled /\ \A r \in Runners : Handles(r) /\ Knows(r)
  BY DEF ReplayInv, ContainerInv
<1>2. PICK r \in Runners :
          \/ Fail(r) /\ (\/ Recover(r) \/ Reserve(r) \/ Create(r) \/ Dispose(r)
                         \/ CollectOverBudget(r) \/ CollectNothing(r) \/ Cleanup(r))
          \/ ServiceFails(r)
  <2>1. ASSUME NEW i \in Workers, WorkerStep(i) PROVE FALSE
    BY <2>1 DEF WorkerStep, WriteOutput, Overflow, Prune, Exit, hostVars, replayVars
  <2>2. ASSUME NEW r \in Runners, RunnerStep(r)
        PROVE  Fail(r) /\ (\/ Recover(r) \/ Reserve(r) \/ Create(r) \/ Dispose(r)
                           \/ CollectOverBudget(r) \/ CollectNothing(r) \/ Cleanup(r))
    <3>1. CASE Recover(r) \/ Reserve(r) \/ Create(r) \/ Dispose(r) \/ CollectOverBudget(r) \/ CollectNothing(r) \/ Cleanup(r)
      BY <3>1 DEF Recover, Reserve, Create, Dispose, CollectOverBudget, CollectNothing, Cleanup, replayVars
    <3>2. CASE ~(Recover(r) \/ Reserve(r) \/ Create(r) \/ Dispose(r) \/ CollectOverBudget(r) \/ CollectNothing(r) \/ Cleanup(r))
      BY <2>2, <3>2 DEF RunnerStep, OpenDirectory, Terminate, CloseRecovered, InspectPrior, JudgePrior, Archive, Release,
         ForgetOutput, PersistLease, Start, MarkStarted, StartNothing, Abandon, Expire, StopExpired, Collect, PersistResult,
         DropOutput, hostVars, replayVars
    <3> QED
      BY <3>1, <3>2
  <2>3. ASSUME NEW r \in Runners, VerificationFails(r) \/ LaunchFails(r) \/ KillContainerRunner(r) PROVE FALSE
    BY <2>3 DEF VerificationFails, LaunchFails, Abandon, KillContainerRunner, replayVars
  <2> QED
    BY <2>1, <2>2, <2>3 DEF ContainerNext
<1>3. CASE ServiceFails(r)
  BY <1>3 DEF ServiceFails
<1>4. CASE Recover(r) /\ Fail(r)
  <2>1. ctl[r].pc = "recover" /\ ctl'[r].pc = "done" /\ ctl \in Boxes
    BY <1>4, Typed, Failing, Answering DEF Recover, At
  <2>2. Knows(r) /\ lease.state \notin Open
    BY <1>1 DEF Settled
  <2>3. Goto(r, "status")
    BY <1>4, <2>2, <2>1 DEF Recover, replayVars, Fail
  <2> QED
    BY <2>1, <2>3, Going DEF ContainerPoints
<1>5. CASE Reserve(r) \/ Create(r) \/ Dispose(r)
  BY <1>1, <1>5 DEF Reserve, Create, Dispose, At, Knows, Unfinished, Unleased
<1>6. CASE CollectOverBudget(r)
  BY <1>1, <1>6 DEF CollectOverBudget, Settled
<1>7. CASE (CollectNothing(r) \/ Cleanup(r)) /\ Fail(r)
  <2>1. ctl[r].pc \in {"collect", "recollect", "discard", "cleanup", "tidy"} /\ disturbed' = disturbed
    BY <1>7 DEF CollectNothing, Collecting, Cleanup, At, Fail
  <2>2. ctl[r].worker \in Workers
    BY <2>1, AtLeased DEF Leased
  <2>3. ~Present(ctl[r].worker)
    BY <1>1, <1>7, <2>2 DEF CollectNothing, Cleanup, Settled, Fail, replayVars
  <2>4. container[ctl[r].worker].state = "pruned"
    BY <1>1, <2>1, <2>3 DEF Handles
  <2> QED
    BY <1>1, <2>1, <2>2, <2>4 DEF ReplayInv, Settled
<1> QED
  BY <1>2, <1>3, <1>4, <1>5, <1>6, <1>7

\* A calm step is a worker's end, trouble, or the loss of a result after trouble.
LEMMA CalmIsDurable ==
    ASSUME ContainerInv, ReplayInv, ContainerNext, Calm
    PROVE  /\ result' = result /\ (Live' = {} \/ Live' = Live) /\ (whole' => whole)
           /\ disturbed' = disturbed \/ (disturbed' = TRUE /\ Live' = Live)
           /\ whole /\ ~whole' => disturbed' /\ Live = {} /\ Live' = {}
<1>1. result' = result /\ (whole' => whole) /\ Live' \subseteq Live
  BY DEF Calm, Live
<1>2. \A i, j \in Workers : Running(i) /\ Running(j) => i = j
  BY Typed DEF BoxInv, Running, Present
<1>3. Live' = {} \/ Live' = Live
  BY <1>1, <1>2 DEF Live
<1>4. disturbed' = disturbed \/ (disturbed' = TRUE /\ Live' = Live)
  BY DEF Calm, Live
<1>5. whole /\ ~whole' => disturbed' /\ Live = {} /\ Live' = {}
  BY <1>1, LossIsTroubled DEF Live
<1> QED
  BY <1>1, <1>3, <1>4, <1>5

LEMMA CleanupIsDurable ==
    ASSUME ContainerInv, ReplayInv, ContainerNext, NEW r \in Runners, Cleanup(r)
    PROVE  /\ result' = result /\ Live = {} /\ Live' = {} /\ (whole' => whole) /\ disturbed' = disturbed
           /\ whole /\ ~whole' => disturbed
<1>1. \A i \in Workers : ~Running(i)
  <2>1. ctl[r].pc \in {"discard", "cleanup", "tidy"}
    BY DEF Cleanup
  <2>2. lease # None /\ lease.worker = ctl[r].worker /\ ~Running(ctl[r].worker)
    BY <2>1, AtLeased DEF Leased, Knows
  <2> QED
    BY <2>2, NothingRuns
<1>2. container \in [Workers -> [state : ContainerStates, exit : Exits \cup {None}]]
  BY Typed DEF OthersTyped
<1>3. container' = container \/ container' = [container EXCEPT ![ctl[r].worker].state = "removed"]
  BY DEF Cleanup
<1>4. \A i \in Workers : ~Running(i)'
  BY <1>1, <1>2, <1>3 DEF Running
<1>5. disturbed' = disturbed /\ (whole' => whole)
  BY DEF Cleanup, Fail, replayVars
<1> QED
  BY <1>1, <1>4, <1>5, LossIsTroubled DEF Cleanup, Live

LEMMA StartIsLaunch ==
    ASSUME ContainerInv, NEW r \in Runners, Start(r)
    PROVE  Live = {} /\ ~whole /\ ~whole' /\ disturbed' = disturbed /\ \E i \in Workers : Live' = {i}
<1>1. /\ ctl[r].pc = "start" /\ container[ctl[r].worker].state = "created" /\ UNCHANGED <<whole, disturbed>>
      /\ container' = [container EXCEPT ![ctl[r].worker].state = "running"]
  BY DEF Start, At, hostVars, replayVars
<1>2. lease # None /\ lease.worker = ctl[r].worker /\ ctl[r].worker \in Workers /\ ~whole
  BY <1>1, AtLeased DEF Leased, Unfinished, Knows
<1>3. \A i \in Workers : ~Running(i)
  BY <1>1, <1>2, NothingRuns DEF Running
<1>4. container \in [Workers -> [state : ContainerStates, exit : Exits \cup {None}]]
  BY Typed DEF OthersTyped
<1>5. container'[ctl[r].worker].state = "running" /\ \A i \in Workers : i # ctl[r].worker => container'[i] = container[i]
  BY <1>1, <1>2, <1>4
<1>6. Live' = {ctl[r].worker}
  BY <1>2, <1>3, <1>5 DEF Live, Running
<1> QED
  BY <1>1, <1>2, <1>3, <1>6 DEF Live

LEMMA PersistIsConclude ==
    ASSUME ContainerInv, NEW r \in Runners, PersistResult(r)
    PROVE  Live = {} /\ Live' = {} /\ ~whole /\ whole' /\ disturbed' = disturbed /\ result' \in Results
<1>1. /\ ctl[r].pc = "persist" /\ container' = container /\ whole' = TRUE /\ disturbed' = disturbed
      /\ result' = [worker |-> ctl[r].worker, writer |-> IF ctl[r].seen \in {"timeout", "oom"} THEN None ELSE output]
  BY DEF PersistResult, At, workVars
<1>2. /\ lease # None /\ lease.worker = ctl[r].worker /\ ctl[r].worker \in Workers /\ ~whole
      /\ ~Running(ctl[r].worker)
  BY <1>1, AtLeased DEF Leased, Unfinished, Knows
<1>3. \A i \in Workers : ~Running(i)
  BY <1>2, NothingRuns
<1>4. result' \in Results
  BY <1>1, <1>2, Typed DEF Results, OthersTyped
<1> QED
  BY <1>1, <1>2, <1>3, <1>4 DEF Live, Running

LEMMA RevivalIsConclude ==
    ASSUME ContainerInv, NEW r \in Runners, Revives(r)
    PROVE  Live = {} /\ Live' = {} /\ ~whole /\ whole' /\ disturbed' = disturbed /\ result' \in Results
<1>1. /\ ctl[r].pc = "persist" /\ result # None /\ ~whole /\ whole'
      /\ UNCHANGED <<result, container, disturbed>>
  BY DEF Revives, KillContainerRunner, KillRunner, At, workVars
<1>2. lease # None /\ lease.worker = ctl[r].worker /\ ~Running(ctl[r].worker)
  BY <1>1, AtLeased DEF Leased, Knows
<1>3. \A i \in Workers : ~Running(i)
  BY <1>2, NothingRuns
<1>4. result' \in Results
  BY <1>1, Typed DEF OthersTyped
<1> QED
  BY <1>1, <1>3, <1>4 DEF Live, Running

\* With containers execute_request keeps the promise of a durable attempt: one
\* worker at a time, none while there is a result that can be replayed, and a
\* result that is lost only when the daemon or the disk has failed the attempt.
THEOREM AttemptsAreDurable == ExecuteSpec => AttemptIsDurable
<1> DEFINE Replayed == IF runtime = "docker" /\ whole THEN result ELSE None
<1>1. ExecuteInit => Durable!AttemptInit
  <2> SUFFICES ASSUME ExecuteInit PROVE Durable!AttemptInit
    OBVIOUS
  <2>1. \A i \in Workers : container[i].state = "none"
    BY DEF ExecuteInit, ContainerInit
  <2>2. whole = FALSE /\ disturbed = FALSE
    BY DEF ExecuteInit, ContainerInit
  <2> QED
    BY <2>1, <2>2 DEF Durable!AttemptInit, Running
<1>2. ExecuteInv /\ (runtime = "docker" => ReplayInv) /\ [ExecuteNext]_executeVars
        => [Durable!AttemptNext]_<<Live, Replayed, disturbed>>
  <2> SUFFICES ASSUME ExecuteInv, runtime = "docker" => ReplayInv, [ExecuteNext]_executeVars
               PROVE  [Durable!AttemptNext]_<<Live, Replayed, disturbed>>
    OBVIOUS
  <2>1. CASE InContainer /\ ContainerNext
    <3>1. ContainerInv /\ ReplayInv /\ ContainerNext /\ runtime = "docker" /\ runtime' = "docker"
      BY <2>1 DEF InContainer, ExecuteInv
    <3>2. CASE Calm
      <4>1. /\ result' = result /\ (Live' = {} \/ Live' = Live) /\ (whole' => whole)
            /\ disturbed' = disturbed \/ (disturbed' = TRUE /\ Live' = Live)
            /\ whole /\ ~whole' => disturbed' /\ Live = {} /\ Live' = {}
        BY <3>1, <3>2, CalmIsDurable
      <4>2. CASE disturbed' = TRUE /\ Live' = Live
        <5>1. Replayed' \in {Replayed, None}
          BY <3>1, <4>1
        <5> QED
          BY <4>2, <5>1 DEF Durable!AttemptNext, Durable!Suffer, Live
      <4>3. CASE disturbed' = disturbed /\ whole /\ ~whole'
        <5>1. disturbed /\ Live = {} /\ Live' = Live /\ Replayed' = None
          BY <3>1, <4>1, <4>3
        <5> QED
          BY <4>3, <5>1 DEF Durable!AttemptNext, Durable!Lose, Live
      <4>4. CASE disturbed' = disturbed /\ ~(whole /\ ~whole')
        <5>1. Replayed' = Replayed
          BY <3>1, <4>1, <4>4
        <5> QED
          BY <4>1, <4>4, <5>1 DEF Durable!AttemptNext, Durable!Finish, Live
      <4> QED
        BY <4>1, <4>2, <4>3, <4>4
    <3>3. ASSUME NEW r \in Runners, Start(r) PROVE [Durable!AttemptNext]_<<Live, Replayed, disturbed>>
      <4>1. Live = {} /\ ~whole /\ ~whole' /\ disturbed' = disturbed /\ \E i \in Workers : Live' = {i}
        BY <3>1, <3>3, StartIsLaunch
      <4>2. Replayed = None /\ Replayed' = None
        BY <4>1
      <4> QED
        BY <4>1, <4>2 DEF Durable!AttemptNext, Durable!Launch, Live
    <3>4. ASSUME NEW r \in Runners, PersistResult(r) \/ Revives(r)
          PROVE  [Durable!AttemptNext]_<<Live, Replayed, disturbed>>
      <4>1. Live = {} /\ Live' = {} /\ ~whole /\ whole' /\ disturbed' = disturbed /\ result' \in Results
        BY <3>1, <3>4, PersistIsConclude, RevivalIsConclude
      <4>2. Replayed = None /\ Replayed' \in Results
        BY <3>1, <4>1
      <4> QED
        BY <4>1, <4>2 DEF Durable!AttemptNext, Durable!Conclude, Live
    <3>5. ASSUME NEW r \in Runners, Cleanup(r) PROVE [Durable!AttemptNext]_<<Live, Replayed, disturbed>>
      <4>1. /\ result' = result /\ Live = {} /\ Live' = {} /\ (whole' => whole) /\ disturbed' = disturbed
            /\ whole /\ ~whole' => disturbed
        BY <3>1, <3>5, CleanupIsDurable
      <4>2. Replayed' = Replayed \/ (disturbed /\ Replayed' = None)
        BY <3>1, <4>1
      <4> QED
        BY <4>1, <4>2 DEF Durable!AttemptNext, Durable!Finish, Durable!Lose, Live
    <3> QED
      BY <3>1, <3>2, <3>3, <3>4, <3>5, StepsAreCalm
  <2>2. CASE InProcess /\ ProcessNext
    BY <2>2 DEF InProcess, hostVars, replayVars, workVars, Live, Running
  <2>3. CASE UNCHANGED executeVars
    BY <2>3 DEF executeVars, containerVars, dirVars, hostVars, replayVars, workVars, Live, Running
  <2> QED
    BY <2>1, <2>2, <2>3 DEF ExecuteNext
<1> QED
  BY <1>1, <1>2, ReplayAlways, PTL DEF ExecuteSpec, AttemptIsDurable, Durable!AttemptSpec, Live

=============================================================================
