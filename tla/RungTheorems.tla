------------------------------ MODULE RungTheorems ------------------------------
(***************************************************************************)
(* Proofs about a rung and its repairs: what of the pool, the journal, the *)
(* files and the worktree holds at each point of the supervisor's thread,  *)
(* wherever the process was killed before.                                 *)
(***************************************************************************)
EXTENDS RungProperties, FiniteSetTheorems, TLAPS

\* Points of the supervisor's thread.
RungJobs == {"rung", "pool", "passed"}
AskingJobs == {"live", "patch", "diff", "gates", "commit", "config"}
PatchJobs == AskingJobs \cup {"exchange", "update", "override", "call"}
FixedJobs == {"tear", "write", "shelve", "mark", "manifest"}
FinalJobs == {"apply", "complete", "mended"}
MendingJobs == {"mend", "hook"} \cup PatchJobs \cup FixedJobs \cup FinalJobs

\* The two ways to make a config and the quarantine, by the failure at hand.
Reduced(n) == cause[n] \in {"TIMEOUT", "OOM"} \/ (cause[n] = "NAN" /\ ~live)
Shelved(n) == cause[n] = "INVALID_ARTIFACT"
Patched(n) == live /\ ~Reduced(n) /\ ~Shelved(n)

FitsFailure(n, kinds) ==
    /\ Reduced(n) => kinds \subseteq {"torn", "config", "override"}
    /\ Shelved(n) => kinds \subseteq {"bare", "marked", "override"}
    /\ Patched(n) => /\ kinds \subseteq {"diff", "gates", "config", "exchange", "update", "override"}
                     /\ "override" \in kinds => "update" \in kinds
                     /\ "update" \in kinds => "config" \in kinds
    /\ Reduced(n) \/ Shelved(n) \/ Patched(n)

HookJobs == PatchJobs \cup FixedJobs

-----------------------------------------------------------------------------
(* The rung.                                                               *)

\* What an attempt's row says is what its worker left.
RowsAgree == \A i \in Ids : row[i] \in Verdicts => row[i] = result[i]

Attempted(f, op) == row[Id(f, "candidate", op)] = "SUCCESS"

\* A side goes from the fit to the prediction, and only on success.
SidesAgree ==
    \A f \in Folds, s \in Sides :
        LET here == side[f][s] IN
        /\ fold[f] \in {"waiting", "preparing"} => here = Idle
        /\ fold[f] = "running" /\ here.pc = "record" => result[Id(f, s, here.op)] # None
        /\ fold[f] = "running" /\ s = "candidate" =>
             /\ here.op = "predict" => Attempted(f, "fit")
             /\ here.pc = "ok" => Attempted(f, "fit") /\ Attempted(f, "predict")

\* A fold that is over without an error has its evidence.
Covered(f) == evidence[f] = used /\ \A op \in Ops : Attempted(f, op)

PoolAgrees ==
    job = "pool" =>
        /\ cache = None
        /\ SidesAgree
        /\ \A f \in Folds : /\ fold[f] = "ok" \/ (fold[f] = "taken" /\ ~stop) => Covered(f)
                            /\ fold[f] = "waiting" <=> f >= next
        /\ ~stop /\ next <= NFolds => Running \cup Ended # {}

RungInv == RungTypeOK /\ RowsAgree /\ QuietWhileRepaired /\ PoolAgrees /\ RungOfOneRevision

-----------------------------------------------------------------------------
(* The repairs.                                                            *)

\* The journal of repairs.
LedgerAgrees ==
    /\ begun \subseteq 1..used /\ resumed \subseteq begun
    /\ 1..(used - 1) \subseteq resumed
    /\ \A n \in Repairs : n <= used <=> cause[n] # None
    /\ \A n \in Repairs : cause[n] # None => cause[n] \in Repairable
    /\ \A n \in resumed : recorded[n] # {}
    /\ \A n \in Repairs : recorded[n] # {} => n \in begun
    /\ state = "RUNNING" => resumed = 1..used
    /\ state = "REPAIRING" => used \in begun /\ used \notin resumed
    /\ state = "FAILED_REPAIRABLE" => (used \in begun => used \in resumed)

\* Where the supervisor's thread can be in a state.
ControlAgrees ==
    /\ job \in RungJobs \cup Statuses => state = "RUNNING"
    /\ job \in {"plan", "resume", "begin"} \cup MendingJobs => state \in {"FAILED_REPAIRABLE", "REPAIRING"}
    /\ job = "plan" => state = "FAILED_REPAIRABLE" /\ resumed = 1..used
    /\ job = "begin" => state = "FAILED_REPAIRABLE" /\ used > 0
    /\ job \in MendingJobs => used \in begun
    /\ state \in {"FAILED_REPAIRABLE", "REPAIRING"} => failure # None

\* The files of a repair are those its failure calls for, in their order.
FilesAgree ==
    \A n \in Repairs :
        /\ files[n] # {} => n \in begun
        /\ Reduced(n) => files[n] \subseteq {"torn", "config", "override"}
        /\ Shelved(n) => files[n] \subseteq {"bare", "marked", "override"}
        /\ Patched(n) => /\ files[n] \subseteq {"diff", "gates", "config", "exchange", "update", "override"}
                         /\ "override" \in files[n] => "update" \in files[n]
                         /\ "update" \in files[n] => "config" \in files[n]
        /\ ~Reduced(n) /\ ~Shelved(n) /\ ~Patched(n) => files[n] = {}
        /\ recorded[n] # {} \/ revision[n] # None => files[n] \cap {"update", "override"} # {}

\* What the thread knows of the repair in hand.
HookAgrees ==
    /\ job \in {"hook"} \cup PatchJobs \cup FixedJobs => recorded[used] = {} /\ revision[used] = None
    /\ job \in {"tear", "write"} => Reduced(used)
    /\ job \in {"shelve", "mark"} => Shelved(used)
    /\ job = "manifest" => Reduced(used) \/ Shelved(used)
    /\ job \in PatchJobs => Patched(used)
    /\ job \in {"exchange", "update", "override", "call"} => "config" \in files[used]
    /\ job \in {"override", "call"} => "update" \in files[used]
    /\ job \in FinalJobs =>
         /\ proof \subseteq files[used]
         /\ IF Patched(used) THEN {"config", "update"} \subseteq proof ELSE "override" \in proof
    /\ job \in {"complete", "mended"} =>
         /\ head = commit /\ ~dirty
         /\ "config" \in proof => revision[used] # None
         /\ "update" \in proof => revision[used] = used /\ head = used
    /\ job = "mended" => recorded[used] = proof

\* The worktree leaves the experiment's commit only while a patch is repaired.
WorktreeAgrees ==
    /\ head <= used /\ commit <= used
    /\ dirty \/ head # commit =>
         /\ state \in {"REPAIRING", "FAILED_FINAL"}
         /\ used \in Repairs /\ Patched(used)
    /\ \A n \in Repairs : commit = n => revision[n] = n
    /\ job = "config" => head = used

\* Completed repairs are backed by what they were completed with.
RecordsAgree ==
    \A n \in Repairs : recorded[n] # {} =>
        /\ recorded[n] \subseteq files[n]
        /\ "config" \in recorded[n] => revision[n] # None
        /\ "update" \in recorded[n] => revision[n] = n /\ head >= n

RepairInv ==
    /\ RepairTypeOK /\ LedgerAgrees /\ ControlAgrees /\ FilesAgree
    /\ HookAgrees /\ WorktreeAgrees /\ RecordsAgree

IInv == RungInv /\ RepairInv

-----------------------------------------------------------------------------
(* The words for points, failures and verdicts do not meet.                *)

LEMMA Names ==
    /\ Statuses \cap (RungJobs \cup RepairJobs \cup {"away"}) = {}
    /\ "pool" \notin MendingJobs \cup {"plan", "resume", "begin", "away"}
    /\ None \notin Verdicts /\ "SUCCESS" \notin Statuses /\ "reserved" \notin Verdicts /\ "SUCCESS" \in Verdicts
    /\ Repairable \subseteq Statuses
    /\ None \notin Statuses
<1>1. Statuses \subseteq Failures /\ None \notin Failures \cup {"SUCCESS"}
  BY RungAssumption DEF Failures
<1>2. Failures \cap (RungJobs \cup RepairJobs \cup {"away", "SUCCESS", "reserved"}) = {}
  BY DEF Failures, RungJobs, RepairJobs
<1>3. "pool" \notin MendingJobs \cup {"plan", "resume", "begin", "away"}
  BY DEF MendingJobs, PatchJobs, AskingJobs, FixedJobs, FinalJobs
<1> QED
  BY <1>1, <1>2, <1>3 DEF Verdicts, Repairable

\* While the thread is outside the pool nothing of the rung moves.
LEMMA RungKept ==
    ASSUME RungInv, job # "pool", job' # "pool", used' \in Numbers, faults' \in 0..MaxFaults,
           UNCHANGED <<rung, attempts, threads, evidence, cache>>
    PROVE  RungInv'
<1>1. RungTypeOK'
  BY DEF RungInv, RungTypeOK, attempts, threads, NFolds, Ids
<1>2. RowsAgree'
  BY DEF RungInv, RowsAgree, attempts
<1>3. QuietWhileRepaired' /\ PoolAgrees'
  BY DEF RungInv, QuietWhileRepaired, PoolAgrees, Running, threads
<1>4. RungOfOneRevision'
  BY DEF RungInv, RungOfOneRevision, NFolds, attempts
<1> QED
  BY <1>1, <1>2, <1>3, <1>4 DEF RungInv

LEMMA RungStepRuns ==
    ASSUME IInv, RungStep
    PROVE  /\ job \in {"rung", "pool"} /\ job' \in RungJobs \cup Statuses /\ used' = used
<1>1. ASSUME LeavePool
      PROVE  job = "pool" /\ job' \in {"passed"} \cup Statuses /\ used' = used
  <2>1. \A f \in Folds : error[f] # None => error[f] \in Statuses
    BY DEF IInv, RungInv, RungTypeOK
  <2> QED
    BY <1>1, <2>1 DEF LeavePool
<1>2. ASSUME RungStep, ~LeavePool, ~BeginRung
      PROVE  job = "pool" /\ job' = job /\ used' = used
  <2>1. PICK f \in Folds : TakeFold(f) \/ FoldStep(f)
    BY <1>2 DEF RungStep
  <2>2. (fold[f] # "preparing" /\ fold[f] # "running") \/ job = "pool"
    BY DEF IInv, RungInv, QuietWhileRepaired, Running
  <2> QED
    BY <2>1, <2>2 DEF TakeFold, FoldStep, Reserve, Execute, Record, PrepareViews, Lookup, FailPair, ScorePair, At, MayBegin
<1>3. ASSUME BeginRung
      PROVE  job = "rung" /\ job' \in RungJobs /\ used' = used
  BY <1>3 DEF BeginRung, RungJobs
<1> QED
  BY <1>1, <1>2, <1>3 DEF RungJobs

\* A rung changes nothing of its experiment's repairs.
LEMMA RepairsKept ==
    ASSUME IInv, RungStep, UNCHANGED repairVars
    PROVE  RepairInv'
<1>1. /\ job \in {"rung", "pool"} /\ job' \in RungJobs \cup Statuses /\ used' = used
      /\ state = "RUNNING"
  BY RungStepRuns DEF IInv, RepairInv, ControlAgrees, RungJobs
<1>2. job' \notin RepairJobs
  BY <1>1, Names DEF RungJobs, RepairJobs
<1>3. RepairTypeOK'
  BY <1>1 DEF IInv, RepairInv, RepairTypeOK, repairVars, ledger, worktree, provider, RungJobs
<1>4. LedgerAgrees' /\ FilesAgree' /\ RecordsAgree'
  BY <1>1 DEF IInv, RepairInv, LedgerAgrees, FilesAgree, RecordsAgree, Reduced, Shelved, Patched,
     repairVars, ledger, worktree, provider
<1>5. ControlAgrees' /\ HookAgrees' /\ WorktreeAgrees'
  BY <1>1, <1>2 DEF IInv, RepairInv, ControlAgrees, HookAgrees, WorktreeAgrees, Reduced, Shelved, Patched,
     repairVars, ledger, worktree, provider, RepairJobs, MendingJobs, PatchJobs, AskingJobs, FixedJobs, FinalJobs
<1> QED
  BY <1>3, <1>4, <1>5 DEF RepairInv

-----------------------------------------------------------------------------
(* Steps of the rung.                                                      *)

SideStates == [pc : {"idle", "reserve", "execute", "record", "ok", "error"},
               op : Ops, status : Statuses \cup {None}]

LEMMA FoldNumbers ==
    ASSUME RungTypeOK
    PROVE  /\ rung \in Rungs /\ NFolds \in Nat \ {0} /\ 1..NFolds \subseteq Folds
           /\ Folds \subseteq Nat \ {0}
<1>1. rung \in Rungs /\ rung[2] \in Nat \ {0}
  BY RungAssumption DEF RungTypeOK
<1>2. \A r \in Rungs : r[2] \in Nat
  BY RungAssumption
<1> QED
  BY <1>1, <1>2 DEF NFolds, Folds

LEMMA IdNames ==
    ASSUME RungTypeOK, NEW f \in Folds, NEW s \in Sides, NEW op \in Ops
    PROVE  /\ Id(f, s, op) \in Ids
           /\ \A g \in Folds, t \in Sides, o \in Ops :
                Id(f, s, op) = Id(g, t, o) => f = g /\ s = t /\ op = o
BY DEF Id, Ids, RungTypeOK

\* Inside the pool, where no rung is recorded yet.
LEMMA InPool ==
    ASSUME RungInv, job = "pool", job' = "pool", cache' = cache, RungTypeOK', RowsAgree', PoolAgrees'
    PROVE  RungInv'
BY DEF RungInv, PoolAgrees, QuietWhileRepaired, RungOfOneRevision

\* One side of a running fold moves, and no attempt that succeeded is undone.
LEMMA SideMoves ==
    ASSUME RungInv, NEW f \in Folds, NEW s \in Sides, NEW new \in SideStates,
           job = "pool", fold[f] = "running", side' = [side EXCEPT ![f][s] = new],
           UNCHANGED <<job, rung, used, fold, error, next, stop, evidence, cache>>,
           row' \in [Ids -> Verdicts \cup {None, "reserved"}],
           result' \in [Ids -> Verdicts \cup {None}],
           touched' \in (Numbers \X Folds \X Sides) \cup {None}, faults' \in 0..MaxFaults,
           \A i \in Ids : row[i] = "SUCCESS" => row'[i] = "SUCCESS",
           \A i \in Ids : result[i] # None => result'[i] # None,
           RowsAgree',
           new.pc = "record" => result'[Id(f, s, new.op)] # None,
           s = "candidate" => /\ new.op = "predict" => Attempted(f, "fit")'
                              /\ new.pc = "ok" => Attempted(f, "fit")' /\ Attempted(f, "predict")'
    PROVE  RungInv'
<1>1. /\ side' \in [Folds -> [Sides -> SideStates]] /\ side'[f][s] = new
      /\ \A g \in Folds, t \in Sides : g # f \/ t # s => side'[g][t] = side[g][t]
  BY DEF RungInv, RungTypeOK, SideStates
<1>2. RungTypeOK'
  BY <1>1 DEF RungInv, RungTypeOK, SideStates, NFolds
<1>3. \A g \in Folds, op \in Ops : Attempted(g, op) => Attempted(g, op)'
  BY IdNames DEF RungInv, Attempted, Id, Sides
<1>4. SidesAgree'
  <2> SUFFICES ASSUME NEW g \in Folds, NEW t \in Sides
               PROVE  LET here == side'[g][t] IN
                      /\ fold[g] \in {"waiting", "preparing"} => here = Idle
                      /\ fold[g] = "running" /\ here.pc = "record" => result'[Id(g, t, here.op)] # None
                      /\ fold[g] = "running" /\ t = "candidate" =>
                           /\ here.op = "predict" => Attempted(g, "fit")'
                           /\ here.pc = "ok" => Attempted(g, "fit")' /\ Attempted(g, "predict")'
    BY DEF SidesAgree, Id
  <2>1. CASE g = f /\ t = s
    BY <1>1, <2>1
  <2>2. CASE g # f \/ t # s
    <3>1. side'[g][t] = side[g][t] /\ side[g][t].op \in Ops
      BY <1>1, <2>2 DEF RungInv, RungTypeOK
    <3>2. Id(g, t, side[g][t].op) \in Ids
      BY <3>1, IdNames DEF RungInv
    <3> QED
      BY <1>3, <3>1, <3>2 DEF RungInv, PoolAgrees, SidesAgree, Ops
  <2> QED
    BY <2>1, <2>2
<1>5. PoolAgrees'
  BY <1>3, <1>4 DEF RungInv, PoolAgrees, Covered, Running, Ended, NFolds
<1> QED
  BY <1>2, <1>5, InPool

LEMMA MoveIs ==
    ASSUME RungTypeOK, NEW f \in Folds, NEW s \in Sides, NEW pc \in {"reserve", "execute", "record", "ok"},
           Move(f, s, pc)
    PROVE  \E new \in SideStates :
             side' = [side EXCEPT ![f][s] = new] /\ new.pc = pc /\ new.op = side[f][s].op
<1> DEFINE new == [side[f][s] EXCEPT !.pc = pc]
<1>1. side[f] \in [Sides -> SideStates] /\ side[f][s] \in SideStates
  BY DEF RungTypeOK, SideStates
<1>2. side' = [side EXCEPT ![f][s] = new] /\ new \in SideStates /\ new.pc = pc /\ new.op = side[f][s].op
  BY <1>1 DEF Move, SideStates
<1> QED
  BY <1>2

LEMMA ReserveAttempt ==
    ASSUME RungInv, job = "pool", NEW f \in Folds, NEW s \in Sides, Reserve(f, s)
    PROVE  RungInv'
<1> DEFINE i == Id(f, s, side[f][s].op)
<1>0. side[f][s].op \in Ops
  BY DEF RungInv, RungTypeOK
<1>1. fold[f] = "running"
  BY DEF Reserve, At, MayBegin
<1>2. PICK new \in SideStates :
        side' = [side EXCEPT ![f][s] = new] /\ new.pc = "execute" /\ new.op = side[f][s].op
  BY MoveIs DEF RungInv, Reserve
<1>3. i \in Ids
  BY <1>0, IdNames DEF RungInv
<1>4. row' = [row EXCEPT ![i] = IF row[i] = None THEN "reserved" ELSE row[i]]
  BY <1>3 DEF Reserve, RungInv, RungTypeOK
<1> HIDE DEF i
<1>5. /\ row' \in [Ids -> Verdicts \cup {None, "reserved"}]
      /\ \A x \in Ids : row[x] = "SUCCESS" => row'[x] = "SUCCESS"
      /\ \A x \in Ids : row'[x] \in Verdicts => row'[x] = row[x]
  <2>1. row \in [Ids -> Verdicts \cup {None, "reserved"}]
    BY DEF RungInv, RungTypeOK
  <2> QED
    BY <1>3, <1>4, <2>1, Names
<1>6. RowsAgree'
  BY <1>5 DEF RowsAgree, RungInv, Reserve
<1>7. s = "candidate" => (new.op = "predict" => Attempted(f, "fit")')
  <2>1. s = "candidate" => (new.op = "predict" => Attempted(f, "fit"))
    BY <1>1, <1>2 DEF RungInv, PoolAgrees, SidesAgree
  <2>2. "candidate" \in Sides => Id(f, "candidate", "fit") \in Ids
    BY IdNames DEF RungInv, Ops
  <2> QED
    BY <1>5, <2>1, <2>2 DEF Attempted, Reserve, Id, Sides
<1> QED
  BY <1>1, <1>2, <1>5, <1>6, <1>7, SideMoves DEF Reserve, RungInv, RungTypeOK

LEMMA LookupReference ==
    ASSUME RungInv, job = "pool", NEW f \in Folds, Lookup(f)
    PROVE  RungInv'
<1>1. fold[f] = "running" /\ "reference" \in Sides /\ "reference" # "candidate"
  BY DEF Lookup, At, MayBegin, Sides
<1>2. PICK pc \in {"ok", "reserve"} : Move(f, "reference", pc)
  BY DEF Lookup
<1>3. PICK new \in SideStates :
        side' = [side EXCEPT ![f]["reference"] = new] /\ new.pc = pc /\ new.op = side[f]["reference"].op
  BY <1>1, <1>2, MoveIs DEF RungInv
<1>4. RowsAgree'
  BY DEF Lookup, RowsAgree, RungInv, attempts
<1>5. new.pc # "record"
  BY <1>2, <1>3
<1> QED
  BY <1>1, <1>3, <1>4, <1>5, SideMoves DEF Lookup, RungInv, RungTypeOK, attempts

LEMMA ExecuteAttempt ==
    ASSUME RungInv, job = "pool", NEW f \in Folds, NEW s \in Sides, Execute(f, s)
    PROVE  RungInv'
<1> DEFINE i == Id(f, s, side[f][s].op)
<1>0. side[f][s].op \in Ops
  BY DEF RungInv, RungTypeOK
<1>1. fold[f] = "running"
  BY DEF Execute, At
<1>2. PICK new \in SideStates :
        side' = [side EXCEPT ![f][s] = new] /\ new.pc = "record" /\ new.op = side[f][s].op
  BY MoveIs DEF RungInv, Execute
<1>3. i \in Ids
  BY <1>0, IdNames DEF RungInv
<1>4. \/ result[i] # None /\ UNCHANGED <<result, touched, faults>>
      \/ /\ result[i] = None /\ touched' = <<used, f, s>> /\ faults' \in 0..MaxFaults
         /\ \E verdict \in Verdicts : result' = [result EXCEPT ![i] = verdict]
  BY RungAssumption DEF Execute, Launches, RungInv, RungTypeOK, Fault
<1>5. row' = row /\ UNCHANGED <<job, rung, used, fold, error, next, stop, evidence, cache>>
  BY DEF Execute
<1> HIDE DEF i
<1>6. /\ result' \in [Ids -> Verdicts \cup {None}] /\ result'[i] # None
      /\ touched' \in (Numbers \X Folds \X Sides) \cup {None} /\ faults' \in 0..MaxFaults
      /\ \A x \in Ids : result[x] # None => result'[x] = result[x]
  <2>1. result \in [Ids -> Verdicts \cup {None}] /\ touched \in (Numbers \X Folds \X Sides) \cup {None}
        /\ faults \in 0..MaxFaults /\ <<used, f, s>> \in Numbers \X Folds \X Sides
    BY DEF RungInv, RungTypeOK
  <2>2. CASE result[i] # None /\ UNCHANGED <<result, touched, faults>>
    BY <2>1, <2>2
  <2>3. ASSUME NEW verdict \in Verdicts, result[i] = None, result' = [result EXCEPT ![i] = verdict],
               touched' = <<used, f, s>>, faults' \in 0..MaxFaults
        PROVE  /\ result' \in [Ids -> Verdicts \cup {None}] /\ result'[i] # None
               /\ touched' \in (Numbers \X Folds \X Sides) \cup {None} /\ faults' \in 0..MaxFaults
               /\ \A x \in Ids : result[x] # None => result'[x] = result[x]
    BY <1>3, <2>1, <2>3, Names
  <2> QED
    BY <1>4, <2>2, <2>3
<1>7. RowsAgree'
  BY <1>5, <1>6, Names DEF RowsAgree, RungInv
<1>8. result'[Id(f, s, new.op)] # None
  BY <1>2, <1>6 DEF i
<1>9. s = "candidate" => (new.op = "predict" => Attempted(f, "fit")')
  BY <1>1, <1>2, <1>5 DEF RungInv, PoolAgrees, SidesAgree, Attempted, Id
<1> QED
  BY <1>1, <1>2, <1>5, <1>6, <1>7, <1>8, <1>9, SideMoves DEF RungInv, RungTypeOK

LEMMA RecordAttempt ==
    ASSUME RungInv, job = "pool", NEW f \in Folds, NEW s \in Sides, Record(f, s)
    PROVE  RungInv'
<1> DEFINE op == side[f][s].op
           i == Id(f, s, op)
           verdict == result[i]
           new == IF verdict # "SUCCESS" THEN [pc |-> "error", op |-> op, status |-> verdict]
                  ELSE IF op = "fit" THEN [pc |-> "reserve", op |-> "predict", status |-> None]
                  ELSE [pc |-> "ok", op |-> op, status |-> None]
<1>1. fold[f] = "running" /\ side[f][s].pc = "record" /\ op \in Ops
  BY DEF Record, At, RungInv, RungTypeOK
<1>2. i \in Ids
  BY <1>1, IdNames DEF RungInv
<1>3. verdict \in Verdicts
  BY <1>1, <1>2 DEF RungInv, RungTypeOK, PoolAgrees, SidesAgree
<1>4. new \in SideStates
  BY <1>1, <1>3 DEF SideStates, Verdicts, Ops
<1>5. side' = [side EXCEPT ![f][s] = new] /\ row' = [row EXCEPT ![i] = verdict]
  BY DEF Record
<1>6. UNCHANGED <<job, rung, used, result, touched, fold, error, next, stop, evidence, cache, faults>>
  BY DEF Record
<1>7. /\ row' \in [Ids -> Verdicts \cup {None, "reserved"}] /\ row'[i] = verdict
      /\ \A x \in Ids : row[x] \in Verdicts => row'[x] = row[x]
  BY <1>2, <1>3, <1>5 DEF RungInv, RungTypeOK, RowsAgree
<1>8. RowsAgree'
  BY <1>2, <1>3, <1>5, <1>6, <1>7 DEF RungInv, RungTypeOK, RowsAgree
<1>9. new.pc # "record"
  OBVIOUS
<1>10. s = "candidate" =>
         /\ new.op = "predict" => Attempted(f, "fit")'
         /\ new.pc = "ok" => Attempted(f, "fit")' /\ Attempted(f, "predict")'
  <2> SUFFICES ASSUME s = "candidate"
               PROVE  /\ new.op = "predict" => Attempted(f, "fit")'
                      /\ new.pc = "ok" => Attempted(f, "fit")' /\ Attempted(f, "predict")'
    OBVIOUS
  <2>1. op = "predict" => row'[Id(f, s, "fit")] = "SUCCESS"
    <3>1. op = "predict" => row[Id(f, s, "fit")] = "SUCCESS"
      BY <1>1 DEF RungInv, PoolAgrees, SidesAgree, Attempted
    <3>2. Id(f, s, "fit") \in Ids
      BY IdNames DEF RungInv, Ops
    <3> QED
      BY <1>7, <3>1, <3>2 DEF Verdicts
  <2>2. verdict = "SUCCESS" => row'[Id(f, s, op)] = "SUCCESS"
    BY <1>7
  <2>3. op = "fit" \/ op = "predict"
    BY <1>1 DEF Ops
  <2>4. \A o : Attempted(f, o)' <=> row'[Id(f, s, o)] = "SUCCESS"
    BY <1>6 DEF Attempted, Id
  <2> HIDE DEF verdict, op
  <2>5. CASE verdict # "SUCCESS"
    BY <2>1, <2>4, <2>5
  <2>6. CASE verdict = "SUCCESS"
    BY <2>1, <2>2, <2>3, <2>4, <2>6
  <2> QED
    BY <2>5, <2>6
<1> HIDE DEF new, i, verdict
<1>11. \A x \in Ids : row[x] = "SUCCESS" => row'[x] = "SUCCESS"
  BY <1>7 DEF Verdicts
<1> QED
  BY <1>1, <1>4, <1>5, <1>6, <1>7, <1>8, <1>9, <1>10, <1>11, SideMoves DEF RungInv, RungTypeOK

\* A fold moves on; its sides and attempts stay as they are.
LEMMA FoldMoves ==
    ASSUME RungInv, job = "pool", NEW f \in Folds, fold[f] \in {"preparing", "running"},
           NEW to \in {"running", "ok", "error"}, fold' = [fold EXCEPT ![f] = to],
           to = "ok" => evidence'[f] = used /\ \A op \in Ops : Attempted(f, op),
           to = "running" => fold[f] = "preparing",
           evidence' \in [Folds -> Numbers \cup {None}], error' \in [Folds -> Statuses \cup {None}],
           \A g \in Folds : g # f => evidence'[g] = evidence[g],
           faults' \in 0..MaxFaults,
           UNCHANGED <<job, rung, used, attempts, side, next, stop, cache>>
    PROVE  RungInv'
<1>1. fold' \in [Folds -> {"waiting", "preparing", "running", "ok", "error", "taken"}]
      /\ fold'[f] = to /\ \A g \in Folds : g # f => fold'[g] = fold[g]
  BY DEF RungInv, RungTypeOK
<1>2. RungTypeOK'
  BY <1>1 DEF RungInv, RungTypeOK, attempts, NFolds
<1>3. RowsAgree'
  BY DEF RungInv, RowsAgree, attempts
<1>4. \A g \in Folds, op \in Ops : Attempted(g, op)' <=> Attempted(g, op)
  BY DEF Attempted, Id, attempts
<1>5. SidesAgree'
  <2> SUFFICES ASSUME NEW g \in Folds, NEW s \in Sides
               PROVE  LET here == side[g][s] IN
                      /\ fold'[g] \in {"waiting", "preparing"} => here = Idle
                      /\ fold'[g] = "running" /\ here.pc = "record" => result[Id(g, s, here.op)] # None
                      /\ fold'[g] = "running" /\ s = "candidate" =>
                           /\ here.op = "predict" => Attempted(g, "fit")
                           /\ here.pc = "ok" => Attempted(g, "fit") /\ Attempted(g, "predict")
    BY <1>4 DEF SidesAgree, attempts, Id, Attempted
  <2>1. CASE fold'[g] = fold[g]
    BY <2>1 DEF RungInv, PoolAgrees, SidesAgree
  <2>2. CASE g = f /\ to = "running"
    BY <1>1, <2>2 DEF RungInv, PoolAgrees, SidesAgree, Idle
  <2> QED
    BY <1>1, <2>1, <2>2
<1>6. \A g \in Folds : /\ fold'[g] = "ok" \/ (fold'[g] = "taken" /\ ~stop) => Covered(g)'
                       /\ fold'[g] = "waiting" <=> g >= next
  BY <1>1, <1>4 DEF RungInv, PoolAgrees, Covered
<1>7. (Running \cup Ended)' # {}
  BY <1>1 DEF Running, Ended
<1> QED
  BY <1>2, <1>3, <1>5, <1>6, <1>7, InPool DEF PoolAgrees, RungInv

LEMMA FoldSteps ==
    ASSUME RungInv, job = "pool", NEW f \in Folds, PrepareViews(f) \/ FailPair(f) \/ ScorePair(f)
    PROVE  RungInv'
<1>1. /\ evidence \in [Folds -> Numbers \cup {None}] /\ error \in [Folds -> Statuses \cup {None}]
      /\ faults \in 0..MaxFaults /\ used \in Numbers
      /\ \A s \in Sides : side[f][s].status \in Statuses \cup {None}
  BY DEF RungInv, RungTypeOK
<1>2. faults' \in 0..MaxFaults
  BY <1>1, RungAssumption DEF PrepareViews, FailPair, ScorePair, Fault
<1>3. error' \in [Folds -> Statuses \cup {None}]
  <2>1. ASSUME NEW status \in Statuses \cup {None}, error' = [error EXCEPT ![f] = status]
        PROVE  error' \in [Folds -> Statuses \cup {None}]
    BY <1>1, <2>1
  <2> QED
    BY <1>1, <2>1 DEF PrepareViews, FailPair, ScorePair, Unreadable, Sides
<1>4. CASE PrepareViews(f)
  BY <1>1, <1>2, <1>3, <1>4, FoldMoves DEF PrepareViews
<1>5. CASE FailPair(f)
  BY <1>1, <1>2, <1>3, <1>5, FoldMoves DEF FailPair
<1>6. CASE ScorePair(f)
  <2>1. \A op \in Ops : Attempted(f, op)
    BY <1>6 DEF ScorePair, Fits, Sides, Ops, RungInv, PoolAgrees, SidesAgree
  <2>2. CASE evidence' = [evidence EXCEPT ![f] = used] /\ fold' = [fold EXCEPT ![f] = "ok"]
    BY <1>1, <1>2, <1>3, <1>6, <2>1, <2>2, FoldMoves DEF ScorePair
  <2>3. CASE fold' = [fold EXCEPT ![f] = "error"] /\ UNCHANGED evidence
    BY <1>1, <1>2, <1>3, <1>6, <2>3, FoldMoves DEF ScorePair
  <2> QED
    BY <1>6, <2>2, <2>3 DEF ScorePair
<1> QED
  BY <1>4, <1>5, <1>6

LEMMA TakeStep ==
    ASSUME RungInv, job = "pool", NEW f \in Folds, TakeFold(f)
    PROVE  RungInv'
<1>1. /\ rung \in Rungs /\ NFolds \in Nat \ {0} /\ 1..NFolds \subseteq Folds /\ Folds \subseteq Nat \ {0}
      /\ next \in 1..NFolds + 1 /\ stop \in BOOLEAN /\ stop' \in BOOLEAN
      /\ fold \in [Folds -> {"waiting", "preparing", "running", "ok", "error", "taken"}]
      /\ NFolds' = NFolds
  BY FoldNumbers DEF RungInv, RungTypeOK, TakeFold, NFolds
<1>2. /\ \A g \in Folds : fold[g] = "waiting" <=> g >= next
      /\ \A g \in Folds : fold[g] = "ok" \/ (fold[g] = "taken" /\ ~stop) => Covered(g)
      /\ cache = None /\ SidesAgree
  BY DEF RungInv, PoolAgrees
<1>3. UNCHANGED <<job, rung, used, attempts, side, error, evidence, cache, faults>>
  BY DEF TakeFold
<1>4. /\ fold' \in [Folds -> {"waiting", "preparing", "running", "ok", "error", "taken"}]
      /\ fold'[f] = "taken" /\ fold[f] \in {"ok", "error"} /\ stop' = (stop \/ fold[f] = "error")
      /\ IF ~stop' /\ next <= NFolds
         THEN /\ next \in Folds /\ next # f /\ fold'[next] = "preparing" /\ next' = next + 1
              /\ \A g \in Folds : g # f /\ g # next => fold'[g] = fold[g]
         ELSE /\ next' = next /\ \A g \in Folds : g # f => fold'[g] = fold[g]
  <2>1. fold[f] \in {"ok", "error"} /\ stop' = (stop \/ fold[f] = "error")
    BY DEF TakeFold, Ended
  <2>2. CASE ~stop' /\ next <= NFolds
    <3>1. next \in Folds /\ fold[next] = "waiting" /\ next # f
      BY <1>1, <1>2, <2>1, <2>2
    <3>2. fold' = [fold EXCEPT ![f] = "taken", ![next] = "preparing"] /\ next' = next + 1
      BY <2>2 DEF TakeFold
    <3> QED
      BY <1>1, <2>1, <2>2, <3>1, <3>2
  <2>3. CASE ~(~stop' /\ next <= NFolds)
    BY <1>1, <2>1, <2>3 DEF TakeFold
  <2> QED
    BY <2>2, <2>3
<1>5. next' \in 1..NFolds + 1
  BY <1>1, <1>4
<1>6. RungTypeOK'
  BY <1>1, <1>3, <1>4, <1>5 DEF RungInv, RungTypeOK, attempts
<1>7. RowsAgree'
  BY <1>3 DEF RungInv, RowsAgree, attempts
<1>8. \A g \in Folds : (Covered(g)' <=> Covered(g)) /\ \A op : Attempted(g, op)' <=> Attempted(g, op)
  BY <1>3 DEF Covered, Attempted, Id, attempts
<1>9. SidesAgree'
  <2> SUFFICES ASSUME NEW g \in Folds, NEW s \in Sides
               PROVE  LET here == side[g][s] IN
                      /\ fold'[g] \in {"waiting", "preparing"} => here = Idle
                      /\ fold'[g] = "running" /\ here.pc = "record" => result[Id(g, s, here.op)] # None
                      /\ fold'[g] = "running" /\ s = "candidate" =>
                           /\ here.op = "predict" => Attempted(g, "fit")
                           /\ here.pc = "ok" => Attempted(g, "fit") /\ Attempted(g, "predict")
    BY <1>3, <1>8 DEF SidesAgree, attempts, Id, Attempted
  <2>1. CASE fold'[g] = fold[g]
    BY <1>2, <2>1 DEF SidesAgree
  <2>2. CASE fold'[g] = "taken"
    BY <2>2
  <2>3. CASE g = next /\ fold'[g] = "preparing"
    BY <1>1, <1>2, <2>3 DEF SidesAgree, Idle
  <2> QED
    BY <1>4, <2>1, <2>2, <2>3
<1>10. \A g \in Folds : /\ fold'[g] = "ok" \/ (fold'[g] = "taken" /\ ~stop') => Covered(g)'
                        /\ fold'[g] = "waiting" <=> g >= next'
  <2> SUFFICES ASSUME NEW g \in Folds
               PROVE  /\ fold'[g] = "ok" \/ (fold'[g] = "taken" /\ ~stop') => Covered(g)
                      /\ fold'[g] = "waiting" <=> g >= next'
    BY <1>8
  <2>1. fold'[g] = "waiting" <=> g >= next'
    BY <1>1, <1>2, <1>4
  <2>2. CASE g = f
    <3>1. ~stop' => fold[f] = "ok"
      BY <1>4
    <3>2. fold[f] = "ok" => Covered(f)
      BY <1>2
    <3> QED
      BY <1>4, <2>1, <2>2, <3>1, <3>2
  <2>3. CASE g # f
    <3>1. fold'[g] = fold[g] \/ fold'[g] = "preparing"
      BY <1>4, <2>3
    <3> QED
      BY <1>1, <1>2, <1>4, <3>1
  <2> QED
    BY <2>1, <2>2, <2>3
<1>11. ~stop' /\ next' <= NFolds => (Running \cup Ended)' # {}
  BY <1>1, <1>4 DEF Running
<1> QED
  BY <1>1, <1>2, <1>3, <1>6, <1>7, <1>9, <1>10, <1>11, InPool DEF PoolAgrees

LEMMA BeginStep ==
    ASSUME RungInv, job = "rung", BeginRung
    PROVE  RungInv'
<1>1. CASE CachedRung
  BY <1>1, RungKept DEF BeginRung, CachedRung, RungInv, RungTypeOK
<1>2. CASE ~CachedRung
  <2>1. /\ rung \in Rungs /\ NFolds \in Nat \ {0} /\ 1..NFolds \subseteq Folds /\ Folds \subseteq Nat \ {0}
        /\ NFolds' = NFolds
    BY FoldNumbers DEF RungInv, BeginRung, NFolds
  <2>2. Width \in Nat \ {0}
    BY RungAssumption DEF Width
  <2>3. /\ fold' = [f \in Folds |-> IF f <= Width /\ f <= NFolds THEN "preparing" ELSE "waiting"]
        /\ next' = IF Width < NFolds THEN Width + 1 ELSE NFolds + 1
        /\ side' = [f \in Folds |-> [s \in Sides |-> Idle]]
        /\ error' = [f \in Folds |-> None] /\ stop' = FALSE /\ job' = "pool"
        /\ UNCHANGED <<rung, used, attempts, evidence, cache, faults>> /\ cache = None
    BY <1>2 DEF BeginRung, CachedRung
  <2>4. next' \in 1..NFolds + 1
    BY <2>1, <2>2, <2>3
  <2>5. Idle \in SideStates
    BY DEF Idle, SideStates, Ops
  <2>6. RungTypeOK'
    BY <2>1, <2>3, <2>4, <2>5 DEF RungInv, RungTypeOK, attempts, SideStates
  <2>7. RowsAgree'
    BY <2>3 DEF RungInv, RowsAgree, attempts
  <2>8. SidesAgree'
    BY <2>3 DEF SidesAgree, Idle
  <2>9. \A f \in Folds : /\ fold'[f] \in {"waiting", "preparing"}
                         /\ fold'[f] = "waiting" <=> f >= next'
    BY <2>1, <2>2, <2>3
  <2>10. 1 \in Folds /\ fold'[1] = "preparing"
    BY <2>1, <2>2, <2>3
  <2> QED
    BY <2>3, <2>6, <2>7, <2>8, <2>9, <2>10
    DEF RungInv, PoolAgrees, QuietWhileRepaired, RungOfOneRevision, Running
<1> QED
  BY <1>1, <1>2

LEMMA LeaveStep ==
    ASSUME RungInv, LeavePool
    PROVE  RungInv'
<1>1. /\ job = "pool" /\ Running = {} /\ Ended = {}
      /\ job' # "pool"
  BY Names DEF LeavePool, PoolDrained, RungInv, RungTypeOK, RungJobs
<1>2. UNCHANGED <<rung, used, attempts, threads, evidence, faults>>
  BY DEF LeavePool
<1>3. CASE stop
  BY <1>1, <1>2, <1>3 DEF LeavePool, RungInv, RungTypeOK, RowsAgree, QuietWhileRepaired, Running, PoolAgrees,
     RungOfOneRevision, attempts, threads, NFolds
<1>4. CASE ~stop
  <2>1. cache' = used /\ used \in Numbers
    BY <1>4 DEF LeavePool, RungInv, RungTypeOK
  <2>2. RungTypeOK' /\ RowsAgree' /\ QuietWhileRepaired' /\ PoolAgrees'
    BY <1>1, <1>2, <2>1 DEF RungInv, RungTypeOK, RowsAgree, QuietWhileRepaired, Running, PoolAgrees,
       attempts, threads, NFolds
  <2>3. \A f \in 1..NFolds : Covered(f)
    <3>1. next > NFolds /\ next \in Nat
      BY <1>1, <1>4, FoldNumbers DEF RungInv, PoolAgrees, RungTypeOK
    <3>2. ASSUME NEW f \in 1..NFolds
          PROVE  Covered(f)
      <4>1. f \in Folds /\ f < next
        BY <3>1, FoldNumbers DEF RungInv
      <4>2. fold[f] # "waiting"
        BY <1>1, <3>1, <4>1, FoldNumbers DEF RungInv, PoolAgrees
      <4>3. fold[f] = "taken"
        BY <1>1, <4>1, <4>2 DEF RungInv, RungTypeOK, Running, Ended
      <4> QED
        BY <1>1, <1>4, <4>1, <4>3 DEF RungInv, PoolAgrees
    <3> QED
      BY <3>2
  <2>4. RungOfOneRevision'
    BY <1>2, <2>1, <2>3 DEF RungOfOneRevision, Covered, Attempted, Id, attempts, NFolds
  <2> QED
    BY <2>2, <2>4 DEF RungInv
<1> QED
  BY <1>3, <1>4

LEMMA RungStepKeeps ==
    ASSUME IInv, RungStep
    PROVE  RungInv'
<1>1. RungInv /\ job \in {"rung", "pool"}
  BY RungStepRuns DEF IInv
<1>2. CASE BeginRung
  BY <1>1, <1>2, BeginStep DEF BeginRung
<1>3. CASE LeavePool
  BY <1>1, <1>3, LeaveStep
<1>4. ASSUME NEW f \in Folds, TakeFold(f) \/ FoldStep(f)
      PROVE  RungInv'
  <2>1. job = "pool"
    BY <1>1, <1>4 DEF RungInv, QuietWhileRepaired, Running,
       TakeFold, FoldStep, Reserve, Execute, Record, PrepareViews, Lookup, FailPair, ScorePair, At, MayBegin
  <2> QED
    BY <1>1, <1>4, <2>1, TakeStep, FoldSteps, LookupReference, ReserveAttempt, ExecuteAttempt, RecordAttempt
    DEF FoldStep
<1> QED
  BY <1>2, <1>3, <1>4 DEF RungStep

\* A kill takes the threads, and nothing that is recorded.
LEMMA KillKeepsRung ==
    ASSUME RungInv, Kill
    PROVE  RungInv'
<1>1. Idle \in SideStates
  BY DEF Idle, SideStates, Ops
<1>2. NFolds' = NFolds /\ 1 \in 1..NFolds + 1
  BY FoldNumbers DEF RungInv, Kill, NFolds
<1>3. RungTypeOK'
  <2>1. faults' \in 0..MaxFaults
    BY RungAssumption DEF Kill, Fault, RungInv, RungTypeOK
  <2>2. /\ side' \in [Folds -> [Sides -> SideStates]] /\ error' \in [Folds -> Statuses \cup {None}]
        /\ fold' \in [Folds -> {"waiting", "preparing", "running", "ok", "error", "taken"}]
        /\ next' \in 1..NFolds' + 1 /\ stop' \in BOOLEAN
    BY <1>1, <1>2 DEF Kill
  <2>3. UNCHANGED <<rung, used, row, result, touched, evidence, cache>>
    BY DEF Kill, attempts
  <2> QED
    BY <2>1, <2>2, <2>3 DEF RungInv, RungTypeOK, SideStates
<1>4. RowsAgree' /\ RungOfOneRevision'
  BY DEF RungInv, RowsAgree, RungOfOneRevision, NFolds, Kill, attempts
<1>5. QuietWhileRepaired' /\ PoolAgrees'
  BY DEF Kill, Goto, QuietWhileRepaired, PoolAgrees, Running
<1> QED
  BY <1>3, <1>4, <1>5 DEF RungInv

LEMMA KillKeepsRepairs ==
    ASSUME IInv, Kill
    PROVE  RepairInv'
<1>1. /\ job' = "away" /\ proof' = {}
      /\ UNCHANGED <<live, state, failure, ledger, files, worktree, provider, used>>
  BY DEF Kill, Goto
<1>2. "away" \notin RungJobs \cup Statuses \cup RepairJobs
  BY Names DEF RungJobs, RepairJobs
<1>3. RepairTypeOK'
  BY <1>1 DEF IInv, RepairInv, RepairTypeOK, ledger, worktree, provider
<1>4. LedgerAgrees' /\ FilesAgree' /\ RecordsAgree'
  BY <1>1 DEF IInv, RepairInv, LedgerAgrees, FilesAgree, RecordsAgree, Reduced, Shelved, Patched,
     ledger, worktree, provider
<1>5. ControlAgrees' /\ HookAgrees' /\ WorktreeAgrees'
  BY <1>1, <1>2 DEF IInv, RepairInv, ControlAgrees, HookAgrees, WorktreeAgrees, Reduced, Shelved, Patched,
     ledger, worktree, provider, RepairJobs, MendingJobs, PatchJobs, AskingJobs, FixedJobs, FinalJobs
<1> QED
  BY <1>3, <1>4, <1>5 DEF RepairInv

-----------------------------------------------------------------------------
(* Steps of the repair.                                                    *)

\* A repair touches the rung only by its number.
LEMMA RepairStepWaits ==
    ASSUME IInv, RepairStep \/ HookFails
    PROVE  /\ job # "pool" /\ job' # "pool"
           /\ used' \in Numbers /\ faults' \in 0..MaxFaults
           /\ UNCHANGED <<rung, attempts, threads, evidence, cache>>
<1>1. used \in Numbers /\ faults \in 0..MaxFaults /\ MaxRepairs \in Nat /\ "pool" \notin Statuses
  BY Names, RungAssumption DEF IInv, RungInv, RungTypeOK, RungJobs
<1>2. CASE HookFails
  BY <1>1, <1>2, RungAssumption DEF HookFails, HookPoints, FailRepair, Goto, Fault
<1>3. CASE Plan
  BY <1>1, <1>3 DEF Plan, KeepRung, Goto, AllowanceLeft, Numbers
<1>4. CASE RepairStep /\ ~Plan
  <2>1. job # "pool" /\ job' # "pool" /\ Keep
    BY <1>1, <1>4 DEF RepairStep, Enter, CompleteRung, RaiseInterrupted, HandleFailure, ResumeRepair, BeginRepair,
       FindEvidence, StartHook, TearConfig, WriteConfig, Shelve, Mark, WriteManifest,
       AskProvider, ApplyPatch, KeepDiff, RunGates, CommitPatch, CopyConfig,
       KeepExchange, WriteUpdate, WriteOverride, RecordCall, ApplyRevision, CompleteRepair, ResumeRung,
       Goto, FailRepair
  <2> QED
    BY <1>1, <2>1 DEF Keep
<1> QED
  BY <1>2, <1>3, <1>4

LEMMA RepairStepKeepsRung ==
    ASSUME IInv, RepairStep \/ HookFails
    PROVE  RungInv'
BY RepairStepWaits, RungKept DEF IInv

-----------------------------------------------------------------------------
(* Steps of the hook: they touch the files of the repair in hand, the      *)
(* worktree and the provider.                                              *)

LEMMA HookMoves ==
    ASSUME IInv, job \in HookJobs \cup {"hook"}, job' \in HookJobs \cup {"apply"}, NEW kinds \in SUBSET Kinds,
           files' = [files EXCEPT ![used] = kinds], FitsFailure(used, kinds),
           UNCHANGED <<live, state, failure, ledger, used>>,
           proof' \subseteq Kinds, head' \in Numbers, dirty' \in BOOLEAN, commit' = commit,
           asked' \in [Repairs -> Nat], calls' \subseteq Repairs,
           head' >= head, HookAgrees', WorktreeAgrees'
    PROVE  RepairInv'
<1>1. /\ used \in Repairs /\ used \in begun /\ recorded[used] = {} /\ revision[used] = None
      /\ state \in {"FAILED_REPAIRABLE", "REPAIRING"}
  BY DEF IInv, RepairInv, RepairTypeOK, LedgerAgrees, ControlAgrees, HookAgrees, HookJobs, MendingJobs
<1>2. \A n \in Repairs : files'[n] = IF n = used THEN kinds ELSE files[n]
  BY DEF IInv, RepairInv, RepairTypeOK
<1>3. job' \in RepairJobs /\ job' \notin RungJobs \cup Statuses \cup {"plan", "resume", "begin"} /\ job' \in MendingJobs
  <2>1. job' \in RepairJobs /\ job' \notin RungJobs \cup {"plan", "resume", "begin"} /\ job' \in MendingJobs
    BY DEF HookJobs, RepairJobs, RungJobs, MendingJobs, PatchJobs, AskingJobs, FixedJobs, FinalJobs
  <2> QED
    BY <2>1, Names
<1>4. RepairTypeOK'
  BY <1>3 DEF IInv, RepairInv, RepairTypeOK, ledger
<1>5. LedgerAgrees' /\ ControlAgrees'
  BY <1>1, <1>3 DEF IInv, RepairInv, LedgerAgrees, ControlAgrees, ledger
<1>6. FilesAgree'
  BY <1>1, <1>2 DEF IInv, RepairInv, FilesAgree, FitsFailure, Reduced, Shelved, Patched, ledger
<1>7. RecordsAgree'
  <2>1. head \in Nat /\ head' \in Nat /\ Repairs \subseteq Nat
    BY RungAssumption DEF IInv, RepairInv, RepairTypeOK, Numbers, Repairs
  <2>2. SUFFICES ASSUME NEW n \in Repairs, recorded[n] # {}
                 PROVE  /\ recorded[n] \subseteq files[n]
                        /\ "config" \in recorded[n] => revision[n] # None
                        /\ "update" \in recorded[n] => revision[n] = n /\ head' >= n
    BY <1>1, <1>2 DEF RecordsAgree, ledger
  <2>3. "update" \in recorded[n] => head >= n
    BY <2>2 DEF IInv, RepairInv, RecordsAgree
  <2>4. "update" \in recorded[n] => head' >= n
    BY <2>1, <2>3
  <2> QED
    BY <2>2, <2>4 DEF IInv, RepairInv, RecordsAgree
<1> QED
  BY <1>4, <1>5, <1>6, <1>7 DEF RepairInv

LEMMA FixedSteps ==
    ASSUME IInv, TearConfig \/ WriteConfig \/ Shelve \/ Mark \/ WriteManifest
    PROVE  RepairInv'
<1>1. /\ job \in FixedJobs /\ job \in HookJobs /\ job' \in FixedJobs \cup {"apply"}
      /\ UNCHANGED <<live, state, failure, ledger, used, head, dirty, commit, asked, calls>>
  BY DEF TearConfig, WriteConfig, Shelve, Mark, WriteManifest, Goto, Keep, KeepLedger, worktree, provider,
     FixedJobs, HookJobs
<1>2. used \in Repairs /\ files[used] \subseteq Kinds
  BY <1>1 DEF IInv, RepairInv, RepairTypeOK, LedgerAgrees, ControlAgrees, MendingJobs, FixedJobs
<1>3. (Reduced(used) \/ Shelved(used)) /\ ~Patched(used)
  BY <1>1 DEF IInv, RepairInv, HookAgrees, FixedJobs, Patched
<1>4. FitsFailure(used, files[used])
  BY <1>2, <1>3 DEF IInv, RepairInv, FilesAgree, FitsFailure
<1>5. PICK kinds \in SUBSET Kinds :
        /\ files' = [files EXCEPT ![used] = kinds] /\ FitsFailure(used, kinds)
        /\ job' = "apply" => "override" \in kinds
  <2>1. files = [files EXCEPT ![used] = files[used]]
    BY DEF IInv, RepairInv, RepairTypeOK
  <2>2. CASE TearConfig
    BY <1>2, <1>3, <1>4, <2>2 DEF TearConfig, Leave, FitsFailure, Kinds, Goto,
       IInv, RepairInv, HookAgrees, Shelved, Reduced
  <2>3. CASE WriteConfig
    BY <1>2, <1>3, <1>4, <2>3 DEF WriteConfig, Leave, FitsFailure, Kinds, Goto,
       IInv, RepairInv, HookAgrees, Shelved, Reduced
  <2>4. CASE Shelve
    BY <1>2, <1>3, <1>4, <2>1, <2>4 DEF Shelve, Leave, FitsFailure, Kinds, Goto,
       IInv, RepairInv, HookAgrees, Shelved, Reduced
  <2>5. CASE Mark
    BY <1>2, <1>3, <1>4, <2>5 DEF Mark, Leave, FitsFailure, Kinds, Goto,
       IInv, RepairInv, HookAgrees, Shelved, Reduced
  <2>6. CASE WriteManifest
    <3>1. files[used] \cup {"override"} \in SUBSET Kinds /\ FitsFailure(used, files[used] \cup {"override"})
      BY <1>2, <1>3, <1>4 DEF FitsFailure, Kinds
    <3> QED
      BY <2>6, <3>1 DEF WriteManifest, Leave
  <2> QED
    BY <2>2, <2>3, <2>4, <2>5, <2>6
<1>6. files'[used] = kinds
  BY <1>2, <1>5 DEF IInv, RepairInv, RepairTypeOK
<1>7. /\ proof' \subseteq Kinds
      /\ job' = "apply" => proof' \subseteq files'[used] /\ "override" \in proof'
  BY <1>2, <1>5, <1>6 DEF TearConfig, WriteConfig, Shelve, Mark, WriteManifest, Leave, Goto,
     IInv, RepairInv, RepairTypeOK, Kinds
<1>8. HookAgrees'
  <2>1. /\ job' \in {"tear", "write"} => Reduced(used)
        /\ job' \in {"shelve", "mark"} => Shelved(used)
    BY DEF TearConfig, WriteConfig, Shelve, Mark, WriteManifest, Goto, IInv, RepairInv, HookAgrees
  <2>2. recorded[used] = {} /\ revision[used] = None
    BY <1>1 DEF IInv, RepairInv, HookAgrees
  <2> QED
    BY <1>1, <1>3, <1>7, <2>1, <2>2 DEF HookAgrees, FixedJobs, PatchJobs, AskingJobs, FinalJobs,
       Reduced, Shelved, Patched, ledger
<1>9. WorktreeAgrees'
  BY <1>1 DEF IInv, RepairInv, WorktreeAgrees, Patched, Reduced, Shelved, ledger, FixedJobs
<1>10. /\ head' \in Numbers /\ dirty' \in BOOLEAN /\ commit' = commit /\ head' >= head
       /\ asked' \in [Repairs -> Nat] /\ calls' \subseteq Repairs
  BY <1>1, RungAssumption DEF IInv, RepairInv, RepairTypeOK, Numbers
<1>11. job' \in HookJobs \cup {"apply"} /\ UNCHANGED <<live, state, failure, ledger, used>>
  BY <1>1 DEF HookJobs
<1> QED
  BY <1>1, <1>5, <1>7, <1>8, <1>9, <1>10, <1>11, HookMoves

\* An exception of a repair ends it, whatever it has left.
LEMMA RepairGivesUp ==
    ASSUME IInv, FailRepair, job \in RepairJobs,
           UNCHANGED <<live, failure, ledger, files, proof, worktree, provider, used>>
    PROVE  RepairInv'
<1>1. /\ job' = "away" /\ state' \in {state, "FAILED_FINAL"}
      /\ "away" \notin RungJobs \cup Statuses \cup RepairJobs
  BY Names DEF FailRepair, Goto, RungJobs, RepairJobs
<1>2. RepairTypeOK'
  BY <1>1 DEF IInv, RepairInv, RepairTypeOK, Finished, ledger, worktree, provider
<1>3. LedgerAgrees' /\ FilesAgree' /\ RecordsAgree'
  BY <1>1 DEF IInv, RepairInv, LedgerAgrees, FilesAgree, RecordsAgree, Reduced, Shelved, Patched,
     ledger, worktree
<1>4. ControlAgrees' /\ HookAgrees'
  BY <1>1 DEF IInv, RepairInv, ControlAgrees, HookAgrees,
     RepairJobs, MendingJobs, PatchJobs, AskingJobs, FixedJobs, FinalJobs
<1>5. WorktreeAgrees'
  BY <1>1 DEF IInv, RepairInv, WorktreeAgrees, Patched, Reduced, Shelved, ledger, worktree, FailRepair
<1> QED
  BY <1>2, <1>3, <1>4, <1>5 DEF RepairInv

LEMMA HookFailsStep ==
    ASSUME IInv, HookFails
    PROVE  RepairInv'
<1>1. UNCHANGED <<live, failure, ledger, files, proof, worktree, provider, used>>
  BY DEF HookFails
<1>2. job \in RepairJobs /\ FailRepair
  BY DEF HookFails, HookPoints, RepairJobs
<1> QED
  BY <1>1, <1>2, RepairGivesUp

PatchStep ==
    \/ (AskProvider /\ Fresh) \/ ApplyPatch \/ KeepDiff \/ RunGates \/ CommitPatch
    \/ CopyConfig \/ KeepExchange \/ WriteUpdate \/ WriteOverride \/ RecordCall

LEMMA PatchSteps ==
    ASSUME IInv, PatchStep
    PROVE  RepairInv'
<1>1. /\ job \in PatchJobs /\ job' \in PatchJobs \cup {"apply"}
      /\ UNCHANGED <<live, state, failure, ledger, used, commit>>
  BY DEF PatchStep, AskProvider, ApplyPatch, KeepDiff, RunGates, CommitPatch, CopyConfig, KeepExchange,
     WriteUpdate, WriteOverride, RecordCall, Goto, Keep, KeepLedger, worktree, PatchJobs, AskingJobs
<1>2. used \in Repairs /\ files[used] \subseteq Kinds /\ used \in begun
  BY <1>1 DEF IInv, RepairInv, RepairTypeOK, LedgerAgrees, ControlAgrees, MendingJobs
<1>3. /\ Patched(used) /\ ~Reduced(used) /\ ~Shelved(used)
      /\ recorded[used] = {} /\ revision[used] = None
  BY <1>1 DEF IInv, RepairInv, HookAgrees, Patched
<1>4. FitsFailure(used, files[used])
  BY <1>2, <1>3 DEF IInv, RepairInv, FilesAgree, FitsFailure
<1>5. state = "REPAIRING"
  BY <1>1, <1>2, <1>3 DEF IInv, RepairInv, ControlAgrees, LedgerAgrees, MendingJobs
<1>6. /\ head \in Nat /\ used \in Nat /\ head <= used /\ commit <= used
      /\ head \in Numbers /\ used \in Numbers /\ commit \in Numbers
  BY <1>2, RungAssumption DEF IInv, RungInv, RepairInv, RungTypeOK, RepairTypeOK, WorktreeAgrees, Numbers, Repairs
<1>7. PICK kinds \in SUBSET Kinds :
        /\ files' = [files EXCEPT ![used] = kinds] /\ FitsFailure(used, kinds)
        /\ job' \in {"exchange", "update", "override", "call"} => "config" \in kinds
        /\ job' \in {"override", "call"} => "update" \in kinds
        /\ job' = "apply" => {"config", "update"} \subseteq kinds /\ proof' = kinds
  <2>1. files = [files EXCEPT ![used] = files[used]]
    BY DEF IInv, RepairInv, RepairTypeOK
  <2>2. CASE (AskProvider /\ Fresh) \/ ApplyPatch \/ CommitPatch
    BY <1>2, <1>4, <2>1, <2>2 DEF AskProvider, ApplyPatch, CommitPatch, Goto
  <2>3. CASE KeepDiff \/ RunGates
    <3>1. PICK kind \in {"diff", "gates"} : files' = [files EXCEPT ![used] = files[used] \cup {kind}]
      BY <2>3 DEF KeepDiff, RunGates, Leave
    <3>2. FitsFailure(used, files[used] \cup {kind}) /\ files[used] \cup {kind} \in SUBSET Kinds
      BY <1>2, <1>3, <1>4 DEF FitsFailure, Kinds
    <3>3. job' \in {"gates", "commit"}
      BY <2>3 DEF KeepDiff, RunGates, Goto
    <3> QED
      BY <3>1, <3>2, <3>3
  <2>4. CASE CopyConfig
    <3>1. FitsFailure(used, files[used] \cup {"config"}) /\ files[used] \cup {"config"} \in SUBSET Kinds
      BY <1>2, <1>3, <1>4 DEF FitsFailure, Kinds
    <3> QED
      BY <2>4, <3>1 DEF CopyConfig, Leave, Goto
  <2>5. CASE KeepExchange
    <3>1. FitsFailure(used, files[used] \cup {"exchange"}) /\ files[used] \cup {"exchange"} \in SUBSET Kinds
      BY <1>2, <1>3, <1>4 DEF FitsFailure, Kinds
    <3>2. "config" \in files[used]
      BY <2>5 DEF IInv, RepairInv, HookAgrees, KeepExchange
    <3> QED
      BY <2>5, <3>1, <3>2 DEF KeepExchange, Leave, Goto
  <2>6. CASE WriteUpdate
    <3>1. "config" \in files[used]
      BY <2>6 DEF IInv, RepairInv, HookAgrees, WriteUpdate
    <3>2. FitsFailure(used, files[used] \cup {"update"}) /\ files[used] \cup {"update"} \in SUBSET Kinds
      BY <1>2, <1>3, <1>4, <3>1 DEF FitsFailure, Kinds
    <3> QED
      BY <2>6, <3>1, <3>2 DEF WriteUpdate, Leave, Goto
  <2>7. CASE WriteOverride
    <3>1. "config" \in files[used] /\ "update" \in files[used]
      BY <2>7 DEF IInv, RepairInv, HookAgrees, WriteOverride
    <3>2. FitsFailure(used, files[used] \cup {"override"}) /\ files[used] \cup {"override"} \in SUBSET Kinds
      BY <1>2, <1>3, <1>4, <3>1 DEF FitsFailure, Kinds
    <3> QED
      BY <2>7, <3>1, <3>2 DEF WriteOverride, Leave, Goto
  <2>8. CASE RecordCall
    <3>1. "config" \in files[used] /\ "update" \in files[used]
      BY <2>8 DEF IInv, RepairInv, HookAgrees, RecordCall
    <3> QED
      BY <1>2, <1>4, <2>1, <2>8, <3>1 DEF RecordCall, Goto
  <2> QED
    BY <2>2, <2>3, <2>4, <2>5, <2>6, <2>7, <2>8 DEF PatchStep
<1>8. files'[used] = kinds
  BY <1>2, <1>7 DEF IInv, RepairInv, RepairTypeOK
<1>9. proof' \subseteq Kinds
  BY <1>2 DEF PatchStep, AskProvider, ApplyPatch, KeepDiff, RunGates, CommitPatch, CopyConfig, KeepExchange,
     WriteUpdate, WriteOverride, RecordCall, IInv, RepairInv, RepairTypeOK
<1>10. /\ head' \in {head, used} /\ dirty' \in BOOLEAN
       /\ job' = "config" => head' = used
  BY DEF PatchStep, AskProvider, ApplyPatch, KeepDiff, RunGates, CommitPatch, CopyConfig, KeepExchange,
     WriteUpdate, WriteOverride, RecordCall, Goto, worktree, IInv, RepairInv, RepairTypeOK
<1>11. asked' \in [Repairs -> Nat] /\ calls' \subseteq Repairs
  <2>1. asked' = asked \/ asked' = [asked EXCEPT ![used] = asked[used] + 1]
    BY DEF PatchStep, AskProvider, ApplyPatch, KeepDiff, RunGates, CommitPatch, CopyConfig, KeepExchange,
       WriteUpdate, WriteOverride, RecordCall, provider
  <2>2. calls' \subseteq calls \cup {used}
    BY DEF PatchStep, AskProvider, ApplyPatch, KeepDiff, RunGates, CommitPatch, CopyConfig, KeepExchange,
       WriteUpdate, WriteOverride, RecordCall, provider
  <2> QED
    BY <1>2, <2>1, <2>2 DEF IInv, RepairInv, RepairTypeOK
<1>12. HookAgrees'
  <2>1. UNCHANGED <<cause, live, recorded, revision, used>>
    BY <1>1 DEF ledger
  <2>2. Patched(used)'
    BY <1>3, <2>1 DEF Patched, Reduced, Shelved
  <2>3. job' \notin FixedJobs \cup {"complete", "mended"}
    BY <1>1 DEF PatchJobs, AskingJobs, FixedJobs
  <2>4. job' \in FinalJobs => job' = "apply"
    BY <2>3 DEF FinalJobs
  <2> QED
    BY <1>3, <1>7, <1>8, <2>1, <2>2, <2>3, <2>4 DEF HookAgrees, FixedJobs
<1>13. WorktreeAgrees'
  BY <1>1, <1>2, <1>3, <1>5, <1>6, <1>10 DEF IInv, RepairInv, WorktreeAgrees, Patched, Reduced, Shelved, ledger
<1>14. head' \in Numbers /\ head' >= head /\ job \in HookJobs /\ job' \in HookJobs \cup {"apply"}
  BY <1>1, <1>6, <1>10 DEF HookJobs
<1> QED
  BY <1>1, <1>7, <1>9, <1>10, <1>11, <1>12, <1>13, <1>14, HookMoves

-----------------------------------------------------------------------------
(* Steps of the supervisor: they touch the journal and the state.          *)

\* What is nobody's but the hook's stays.
LEMMA EnterSteps ==
    ASSUME IInv, Enter \/ CompleteRung \/ RaiseInterrupted \/ HandleFailure \/ ResumeRepair
    PROVE  RepairInv'
<1>1. /\ UNCHANGED <<live, ledger, files, proof, worktree, provider, used>>
      /\ job' \notin MendingJobs \/ ResumeRepair
  BY DEF Enter, CompleteRung, RaiseInterrupted, HandleFailure, ResumeRepair, Keep, Goto, repairVars,
     MendingJobs, PatchJobs, AskingJobs, FixedJobs, FinalJobs
<1>2. /\ job' \in {"away", "rung", "resume", "plan", "begin", "mend"}
      /\ job' \in RepairJobs \cup {"away", "rung"}
      /\ job' \notin Statuses
  <2>1. {"away", "rung", "resume", "plan", "begin", "mend"} \cap Statuses = {}
    BY Names DEF RungJobs, RepairJobs
  <2> QED
    BY <2>1 DEF Enter, CompleteRung, RaiseInterrupted, HandleFailure, ResumeRepair, Goto, RepairJobs
<1>3. state' \in {"RUNNING", "FAILED_REPAIRABLE", "REPAIRING"} \cup Finished /\ failure' \in Statuses \cup {None}
  BY DEF Enter, CompleteRung, RaiseInterrupted, HandleFailure, ResumeRepair, repairVars, IInv, RepairInv, RepairTypeOK, Finished
<1>4. RepairTypeOK'
  BY <1>1, <1>2, <1>3 DEF IInv, RepairInv, RepairTypeOK, ledger, worktree, provider
<1>5. FilesAgree' /\ RecordsAgree'
  BY <1>1 DEF IInv, RepairInv, FilesAgree, RecordsAgree, Reduced, Shelved, Patched, ledger, worktree
<1>6. HookAgrees'
  BY <1>2 DEF HookAgrees, PatchJobs, AskingJobs, FixedJobs, FinalJobs
<1>7. CASE HandleFailure
  <2>1. /\ state = "RUNNING" /\ state' = "FAILED_REPAIRABLE" /\ job' = "plan" /\ failure' \in Statuses
        /\ resumed = 1..used
    BY <1>7 DEF HandleFailure, Goto, IInv, RepairInv, ControlAgrees, LedgerAgrees
  <2>2. used \in resumed \/ used \notin begun
    BY <2>1, <1>1 DEF IInv, RepairInv, LedgerAgrees
  <2>3. LedgerAgrees' /\ ControlAgrees' /\ WorktreeAgrees'
    BY <1>1, <1>2, <2>1, <2>2, Names DEF IInv, RepairInv, LedgerAgrees, ControlAgrees, WorktreeAgrees, RungJobs,
       Patched, Reduced, Shelved, ledger, worktree, MendingJobs, PatchJobs, AskingJobs, FixedJobs, FinalJobs
  <2> QED
    BY <1>4, <1>5, <1>6, <2>3 DEF RepairInv
<1>8. CASE Enter
  <2>1. /\ state' = state /\ failure' = failure /\ job' \in {"rung", "resume"}
        /\ job' = "rung" <=> state = "RUNNING"
        /\ state \in {"RUNNING", "FAILED_REPAIRABLE", "REPAIRING"}
    BY <1>8 DEF Enter, Goto, repairVars, IInv, RepairInv, RepairTypeOK
  <2>2. LedgerAgrees' /\ WorktreeAgrees'
    BY <1>1, <2>1 DEF IInv, RepairInv, LedgerAgrees, WorktreeAgrees, Patched, Reduced, Shelved, ledger, worktree
  <2>3. ControlAgrees'
    BY <1>1, <1>2, <2>1 DEF IInv, RepairInv, ControlAgrees, ledger,
       MendingJobs, PatchJobs, AskingJobs, FixedJobs, FinalJobs, RungJobs
  <2> QED
    BY <1>4, <1>5, <1>6, <2>2, <2>3 DEF RepairInv
<1>9. CASE CompleteRung
  <2>1. state = "RUNNING" /\ state' = "COMPLETE" /\ failure' = failure /\ job' = "away"
    BY <1>9 DEF CompleteRung, Goto, IInv, RepairInv, ControlAgrees, RungJobs
  <2>2. LedgerAgrees' /\ WorktreeAgrees'
    BY <1>1, <2>1 DEF IInv, RepairInv, LedgerAgrees, WorktreeAgrees, Patched, Reduced, Shelved, ledger, worktree
  <2>3. ControlAgrees'
    BY <1>2, <2>1 DEF ControlAgrees, RungJobs, MendingJobs, PatchJobs, AskingJobs, FixedJobs, FinalJobs
  <2> QED
    BY <1>4, <1>5, <1>6, <2>2, <2>3 DEF RepairInv
<1>10. CASE ResumeRepair
  <2>1. /\ state' = state /\ failure' = failure /\ used > 0
        /\ job' = (IF state = "FAILED_REPAIRABLE" THEN "begin" ELSE "mend")
        /\ state \in {"FAILED_REPAIRABLE", "REPAIRING"}
    BY <1>10 DEF ResumeRepair, Goto, repairVars, IInv, RepairInv, ControlAgrees
  <2>2. LedgerAgrees' /\ WorktreeAgrees'
    BY <1>1, <1>2, <2>1 DEF IInv, RepairInv, LedgerAgrees, WorktreeAgrees, Patched, Reduced, Shelved, ledger, worktree
  <2>3. ControlAgrees'
    BY <1>1, <1>2, <2>1 DEF IInv, RepairInv, ControlAgrees, LedgerAgrees, ledger,
       MendingJobs, PatchJobs, AskingJobs, FixedJobs, FinalJobs, RungJobs
  <2> QED
    BY <1>4, <1>5, <1>6, <2>2, <2>3 DEF RepairInv
<1>11. CASE RaiseInterrupted
  <2>1. state' = state /\ failure' = failure /\ job' = "away"
    BY <1>11 DEF RaiseInterrupted, Goto, repairVars
  <2>2. LedgerAgrees' /\ WorktreeAgrees'
    BY <1>1, <2>1 DEF IInv, RepairInv, LedgerAgrees, WorktreeAgrees, Patched, Reduced, Shelved, ledger, worktree
  <2>3. ControlAgrees'
    BY <1>2, <2>1 DEF IInv, RepairInv, ControlAgrees, RungJobs, MendingJobs, PatchJobs, AskingJobs, FixedJobs, FinalJobs
  <2> QED
    BY <1>4, <1>5, <1>6, <2>2, <2>3 DEF RepairInv
<1> QED
  BY <1>7, <1>8, <1>9, <1>10, <1>11

LEMMA PlanStep ==
    ASSUME IInv, Plan
    PROVE  RepairInv'
<1>1. /\ state = "FAILED_REPAIRABLE" /\ resumed = 1..used
      /\ head = commit /\ ~dirty /\ failure # None
  <2>1. CASE job = "plan"
    BY <2>1 DEF IInv, RepairInv, ControlAgrees, WorktreeAgrees
  <2>2. CASE job = "resume" /\ used = 0
    <3>1. 1..used = {} /\ resumed = {} /\ begun = {}
      BY <2>2 DEF IInv, RepairInv, LedgerAgrees
    <3>2. state = "FAILED_REPAIRABLE"
      BY <2>2, <3>1 DEF IInv, RepairInv, ControlAgrees, LedgerAgrees
    <3> QED
      BY <3>1, <3>2 DEF IInv, RepairInv, WorktreeAgrees, ControlAgrees
  <2> QED
    BY <2>1, <2>2 DEF Plan
<1>2. used \in Nat /\ used \in Numbers /\ MaxRepairs \in Nat
  BY RungAssumption DEF IInv, RungInv, RungTypeOK, Numbers
<1>3. begun = 1..used
  BY <1>1 DEF IInv, RepairInv, LedgerAgrees
<1>4. UNCHANGED <<live, failure, begun, resumed, revision, recorded, files, proof, worktree, provider>>
  BY DEF Plan
<1>5. CASE used' = used + 1
  <2>1. /\ failure \in Repairable /\ used < MaxRepairs /\ cause' = [cause EXCEPT ![used + 1] = failure]
        /\ job' = "begin" /\ state' = state
    BY <1>2, <1>5 DEF Plan, AllowanceLeft, Goto
  <2>2. used + 1 \in Repairs /\ used + 1 \notin begun /\ cause \in [Repairs -> Statuses \cup {None}]
    BY <1>2, <1>3, <2>1 DEF Repairs, IInv, RepairInv, RepairTypeOK
  <2>3. /\ \A n \in Repairs : cause'[n] = IF n = used + 1 THEN failure ELSE cause[n]
        /\ failure \in Statuses /\ failure # None
    BY <2>1, <2>2, Names DEF Repairable
  <2>4. RepairTypeOK'
    BY <1>4, <2>1, <2>3 DEF IInv, RepairInv, RepairTypeOK, worktree, provider, RepairJobs
  <2>5. LedgerAgrees'
    <3>1. 1..used \subseteq 1..used' /\ used' - 1 = used /\ used' \notin begun /\ Repairs \subseteq Nat
      BY <1>2, <1>3, <1>5, <2>2 DEF Repairs
    <3>2. \A n \in Repairs : n <= used' <=> cause'[n] # None
      BY <1>2, <1>5, <2>3, <3>1 DEF IInv, RepairInv, LedgerAgrees
    <3>3. \A n \in Repairs : cause'[n] # None => cause'[n] \in Repairable
      BY <2>1, <2>3 DEF IInv, RepairInv, LedgerAgrees
    <3> QED
      BY <1>1, <1>3, <1>4, <2>1, <3>1, <3>2, <3>3 DEF IInv, RepairInv, LedgerAgrees
  <2>6. ControlAgrees' /\ HookAgrees'
    <3>1. "begin" \notin RungJobs \cup Statuses \cup MendingJobs
      BY Names DEF RungJobs, RepairJobs, MendingJobs, PatchJobs, AskingJobs, FixedJobs, FinalJobs
    <3> QED
      BY <1>1, <1>2, <1>4, <1>5, <2>1, <3>1 DEF ControlAgrees, HookAgrees, MendingJobs, FinalJobs, PatchJobs, AskingJobs
  <2>7. FilesAgree'
    BY <1>4, <2>2, <2>3 DEF IInv, RepairInv, FilesAgree, Reduced, Shelved, Patched
  <2>8. WorktreeAgrees' /\ RecordsAgree'
    <3>1. head \in Nat /\ commit \in Nat
      BY RungAssumption DEF IInv, RepairInv, RepairTypeOK, Numbers
    <3> QED
      BY <1>1, <1>2, <1>4, <1>5, <2>1, <3>1 DEF IInv, RepairInv, WorktreeAgrees, RecordsAgree, worktree
  <2> QED
    BY <2>4, <2>5, <2>6, <2>7, <2>8 DEF RepairInv
<1>6. CASE used' # used + 1
  <2>1. state' = "FAILED_FINAL" /\ job' = "away" /\ used' = used /\ cause' = cause
    BY <1>6 DEF Plan, Goto
  <2>2. "away" \notin RungJobs \cup Statuses \cup RepairJobs
    BY Names DEF RungJobs, RepairJobs
  <2>3. RepairTypeOK'
    BY <1>4, <2>1 DEF IInv, RepairInv, RepairTypeOK, worktree, provider, Finished
  <2>4. LedgerAgrees' /\ FilesAgree' /\ RecordsAgree'
    BY <1>4, <2>1 DEF IInv, RepairInv, LedgerAgrees, FilesAgree, RecordsAgree, Reduced, Shelved, Patched, worktree
  <2>5. ControlAgrees' /\ HookAgrees' /\ WorktreeAgrees'
    BY <1>1, <1>4, <2>1, <2>2 DEF IInv, RepairInv, ControlAgrees, HookAgrees, WorktreeAgrees, worktree,
       RepairJobs, MendingJobs, PatchJobs, AskingJobs, FixedJobs, FinalJobs
  <2> QED
    BY <2>3, <2>4, <2>5 DEF RepairInv
<1> QED
  BY <1>5, <1>6

LEMMA BeginRepairStep ==
    ASSUME IInv, BeginRepair
    PROVE  RepairInv'
<1>1. /\ state = "FAILED_REPAIRABLE" /\ used \in Repairs /\ used \in Nat /\ job' = "mend"
      /\ begun' = begun \cup {used} /\ state' \in {state, "REPAIRING"}
      /\ used \in begun => state' = state
      /\ used \notin begun => state' = "REPAIRING"
  BY RungAssumption DEF BeginRepair, Goto, IInv, RungInv, RungTypeOK, RepairInv, ControlAgrees, Numbers, Repairs
<1>2. UNCHANGED <<live, failure, cause, resumed, revision, recorded, files, proof, worktree, provider, used>>
  BY DEF BeginRepair, Keep
<1>3. RepairTypeOK'
  BY <1>1, <1>2 DEF IInv, RepairInv, RepairTypeOK, RepairJobs, worktree, provider
<1>4. LedgerAgrees'
  <2>1. CASE used \in begun
    <3>1. begun' = begun /\ state' = state
      BY <1>1, <2>1
    <3> QED
      BY <1>2, <3>1 DEF IInv, RepairInv, LedgerAgrees
  <2>2. CASE used \notin begun
    <3>1. used \in 1..used /\ used \notin resumed /\ state' = "REPAIRING"
      BY <1>1, <2>2 DEF IInv, RepairInv, LedgerAgrees, Repairs
    <3> QED
      BY <1>1, <1>2, <3>1 DEF IInv, RepairInv, LedgerAgrees
  <2> QED
    BY <2>1, <2>2
<1>5. ControlAgrees' /\ HookAgrees'
  <2>1. "mend" \notin RungJobs \cup Statuses \cup {"plan", "resume", "begin"}
    BY Names DEF RungJobs, RepairJobs
  <2>2. failure # None
    BY <1>1 DEF IInv, RepairInv, ControlAgrees
  <2> QED
    BY <1>1, <1>2, <2>1, <2>2 DEF ControlAgrees, HookAgrees, PatchJobs, AskingJobs, FixedJobs, FinalJobs
<1>6. FilesAgree' /\ RecordsAgree'
  BY <1>1, <1>2 DEF IInv, RepairInv, FilesAgree, RecordsAgree, Reduced, Shelved, Patched, worktree
<1>7. WorktreeAgrees'
  BY <1>1, <1>2 DEF IInv, RepairInv, WorktreeAgrees, Patched, Reduced, Shelved, worktree
<1> QED
  BY <1>3, <1>4, <1>5, <1>6, <1>7 DEF RepairInv

LEMMA FindEvidenceStep ==
    ASSUME IInv, FindEvidence
    PROVE  RepairInv'
<1>1. /\ job = "mend" /\ UNCHANGED <<live, state, failure, ledger, files, worktree, provider, used>>
  BY DEF FindEvidence, KeepLedger, Keep
<1>2. used \in begun /\ used \in Repairs /\ state \in {"FAILED_REPAIRABLE", "REPAIRING"}
  BY <1>1 DEF IInv, RepairInv, RepairTypeOK, ControlAgrees, MendingJobs
<1>3. \/ /\ job' = "apply" /\ proof' = {"config", "update"} /\ "update" \in files[used]
      \/ /\ job' = "apply" /\ proof' = {"override"} \cup (files[used] \cap {"config"})
         /\ "override" \in files[used] /\ "update" \notin files[used]
      \/ /\ job' = "hook" /\ proof' = proof /\ files[used] \cap {"update", "override"} = {}
  BY DEF FindEvidence, Has, Goto
<1>4. /\ job' \in {"apply", "hook"} /\ job' \in RepairJobs /\ job' \in MendingJobs
      /\ job' \notin RungJobs \cup Statuses \cup {"plan", "resume", "begin"}
  BY <1>3, Names DEF RepairJobs, RungJobs, MendingJobs, FinalJobs
<1>5. RepairTypeOK'
  BY <1>1, <1>3, <1>4 DEF IInv, RepairInv, RepairTypeOK, Kinds, ledger, worktree, provider
<1>6. LedgerAgrees' /\ FilesAgree' /\ RecordsAgree' /\ WorktreeAgrees'
  BY <1>1, <1>4 DEF IInv, RepairInv, LedgerAgrees, FilesAgree, RecordsAgree, WorktreeAgrees,
     Reduced, Shelved, Patched, ledger, worktree
<1>7. ControlAgrees'
  BY <1>1, <1>2, <1>4 DEF IInv, RepairInv, ControlAgrees, ledger
<1>8. HookAgrees'
  <2>1. "update" \in files[used] => Patched(used) /\ "config" \in files[used]
    BY <1>2 DEF IInv, RepairInv, FilesAgree
  <2>2. "override" \in files[used] /\ "update" \notin files[used] => ~Patched(used)
    BY <1>2 DEF IInv, RepairInv, FilesAgree
  <2>3. files[used] \cap {"update", "override"} = {} => recorded[used] = {} /\ revision[used] = None
    BY <1>2 DEF IInv, RepairInv, FilesAgree
  <2>4. UNCHANGED <<files, recorded, revision, used>> /\ (Patched(used)' <=> Patched(used))
    BY <1>1 DEF ledger, Patched, Reduced, Shelved
  <2> QED
    BY <1>3, <2>1, <2>2, <2>3, <2>4 DEF HookAgrees, PatchJobs, AskingJobs, FixedJobs, FinalJobs
<1> QED
  BY <1>5, <1>6, <1>7, <1>8 DEF RepairInv

LEMMA StartHookStep ==
    ASSUME IInv, StartHook
    PROVE  RepairInv'
<1>1. /\ job = "hook"
      /\ UNCHANGED <<live, failure, ledger, files, proof, worktree, provider, used>>
  BY DEF StartHook, KeepLedger, Keep
<1>2. CASE FailRepair
  BY <1>1, <1>2, RepairGivesUp DEF RepairJobs
<1>3. CASE ~FailRepair
  <2>1. /\ state' = state /\ (Reduces \/ Shelves \/ Patches)
        /\ job' = IF Has("config") \/ Has("marked") THEN (IF Patches THEN "exchange" ELSE "manifest")
                  ELSE IF Reduces THEN "tear" ELSE IF Shelves THEN "shelve" ELSE "live"
    BY <1>3 DEF StartHook, Goto
  <2>2. used \in Repairs /\ files[used] \in SUBSET Kinds /\ files' = [files EXCEPT ![used] = files[used]]
    BY <1>1 DEF IInv, RepairInv, RepairTypeOK, ControlAgrees, MendingJobs
  <2>3. /\ Reduces = Reduced(used) /\ Shelves = Shelved(used) /\ Patches = Patched(used)
        /\ FitsFailure(used, files[used])
        /\ Patched(used) => "marked" \notin files[used]
        /\ recorded[used] = {} /\ revision[used] = None
    BY <1>1, <2>1, <2>2 DEF Reduces, Shelves, Patches, Reduced, Shelved, Patched, FitsFailure,
       IInv, RepairInv, FilesAgree, HookAgrees
  <2>4. job' \in {"exchange", "manifest", "tear", "shelve", "live"}
    BY <2>1
  <2>5. HookAgrees'
    <3>1. /\ Patched(used)' = Patched(used) /\ Reduced(used)' = Reduced(used) /\ Shelved(used)' = Shelved(used)
          /\ UNCHANGED <<files, recorded, revision, used>>
      BY <1>1 DEF Patched, Reduced, Shelved, ledger
    <3>2. /\ job' = "exchange" => Patched(used) /\ "config" \in files[used]
          /\ job' = "manifest" => Reduced(used) \/ Shelved(used)
          /\ job' = "tear" => Reduced(used)
          /\ job' = "shelve" => Shelved(used)
          /\ job' = "live" => Patched(used)
      BY <2>1, <2>3 DEF Has
    <3> QED
      BY <2>3, <2>4, <3>1, <3>2 DEF HookAgrees, FinalJobs, PatchJobs, AskingJobs
  <2>6. WorktreeAgrees'
    BY <1>1, <2>1, <2>4 DEF IInv, RepairInv, WorktreeAgrees, Patched, Reduced, Shelved, ledger, worktree
  <2>7. /\ proof' \subseteq Kinds /\ head' \in Numbers /\ dirty' \in BOOLEAN /\ commit' = commit /\ head' >= head
        /\ asked' \in [Repairs -> Nat] /\ calls' \subseteq Repairs
    BY <1>1, RungAssumption DEF IInv, RepairInv, RepairTypeOK, Numbers, worktree, provider
  <2>8. job' \in HookJobs
    BY <2>4 DEF HookJobs, PatchJobs, AskingJobs, FixedJobs
  <2> QED
    BY <1>1, <2>1, <2>2, <2>3, <2>5, <2>6, <2>7, <2>8, HookMoves
<1> QED
  BY <1>2, <1>3

LEMMA ApplyRevisionStep ==
    ASSUME IInv, ApplyRevision
    PROVE  RepairInv'
<1>1. /\ job = "apply" /\ job \in MendingJobs /\ job \in FinalJobs
      /\ UNCHANGED <<live, failure, cause, begun, resumed, recorded, files, proof, head, dirty, provider, used>>
  BY DEF ApplyRevision, Keep, MendingJobs, FinalJobs
<1>2. /\ used \in begun /\ used \in Repairs /\ state \in {"FAILED_REPAIRABLE", "REPAIRING"}
      /\ used \in Nat /\ used \in Numbers /\ commit \in Numbers /\ commit <= used
  BY <1>1, RungAssumption DEF IInv, RungInv, RungTypeOK, RepairInv, RepairTypeOK, ControlAgrees, WorktreeAgrees, Numbers
<1>3. /\ proof \subseteq files[used]
      /\ Patched(used) => {"config", "update"} \subseteq proof
      /\ ~Patched(used) => "override" \in proof /\ "update" \notin files[used]
      /\ ~Patched(used) => head = commit /\ ~dirty
  BY <1>1, <1>2 DEF IInv, RepairInv, HookAgrees, FilesAgree, WorktreeAgrees, Patched
<1>4. CASE FailRepair /\ UNCHANGED <<revision, commit>>
  BY <1>1, <1>4, RepairGivesUp DEF RepairJobs, ledger, worktree
<1>5. CASE ~(FailRepair /\ UNCHANGED <<revision, commit>>)
  <2>1. /\ state' = state /\ job' = "complete"
        /\ \/ "config" \notin proof /\ revision' = revision /\ commit' = commit
           \/ /\ "config" \in proof
              /\ "update" \in proof => head = used /\ ~dirty
              /\ revision[used] # None => commit = NewCommit
              /\ revision' = [revision EXCEPT ![used] = NewCommit] /\ commit' = NewCommit
    BY <1>5 DEF ApplyRevision, Goto
  <2>2. job' \in RepairJobs /\ job' \in MendingJobs /\ job' \notin RungJobs \cup Statuses \cup {"plan", "resume", "begin"}
    BY <2>1, Names DEF RepairJobs, RungJobs, MendingJobs, FinalJobs
  <2>3. /\ commit' \in Numbers /\ NewCommit \in Numbers /\ commit' <= used' /\ NewCommit # None
        /\ head' = commit' /\ ~dirty'
    BY <1>1, <1>2, <1>3, <2>1, RungAssumption DEF NewCommit, Numbers
  <2>4. /\ revision \in [Repairs -> Numbers \cup {None}]
        /\ \A n \in Repairs : n # used => revision'[n] = revision[n]
        /\ revision'[used] = IF "config" \in proof THEN NewCommit ELSE revision[used]
    BY <1>2, <2>1 DEF IInv, RepairInv, RepairTypeOK
  <2>5. RepairTypeOK'
    BY <1>1, <2>1, <2>2, <2>3 DEF IInv, RepairInv, RepairTypeOK, provider
  <2>6. LedgerAgrees' /\ ControlAgrees'
    BY <1>1, <1>2, <2>1, <2>2 DEF IInv, RepairInv, LedgerAgrees, ControlAgrees
  <2>7. FilesAgree'
    BY <1>1, <1>3, <2>4 DEF IInv, RepairInv, FilesAgree, Reduced, Shelved, Patched
  <2>8. HookAgrees'
    BY <1>1, <1>3, <2>1, <2>3, <2>4 DEF HookAgrees, FinalJobs, Patched, Reduced, Shelved, NewCommit,
       PatchJobs, AskingJobs, FixedJobs
  <2>9. \A n \in Repairs : commit' = n => revision'[n] = n
    BY <1>2, <2>1, <2>4 DEF IInv, RepairInv, WorktreeAgrees, NewCommit
  <2>10. WorktreeAgrees'
    BY <1>1, <2>1, <2>3, <2>9 DEF IInv, RepairInv, WorktreeAgrees
  <2>11. RecordsAgree'
    <3>1. SUFFICES ASSUME NEW n \in Repairs, recorded[n] # {}
                   PROVE  /\ recorded[n] \subseteq files[n]
                          /\ "config" \in recorded[n] => revision'[n] # None
                          /\ "update" \in recorded[n] => revision'[n] = n /\ head >= n
      BY <1>1 DEF RecordsAgree
    <3>2. CASE n # used
      BY <2>4, <3>1, <3>2 DEF IInv, RepairInv, RecordsAgree
    <3>3. CASE n = used
      BY <1>3, <2>1, <2>3, <2>4, <3>1, <3>3 DEF IInv, RepairInv, RecordsAgree, NewCommit
    <3> QED
      BY <3>2, <3>3
  <2> QED
    BY <2>5, <2>6, <2>7, <2>8, <2>10, <2>11 DEF RepairInv
<1> QED
  BY <1>4, <1>5

LEMMA CompleteRepairStep ==
    ASSUME IInv, CompleteRepair
    PROVE  RepairInv'
<1>1. /\ job = "complete" /\ job \in MendingJobs /\ job \in FinalJobs
      /\ UNCHANGED <<live, failure, cause, begun, resumed, revision, files, proof, worktree, provider, used>>
  BY DEF CompleteRepair, Keep, MendingJobs, FinalJobs
<1>2. used \in begun /\ used \in Repairs /\ used \in Nat /\ proof \subseteq files[used] /\ proof \subseteq Kinds
  BY <1>1, RungAssumption DEF IInv, RungInv, RungTypeOK, RepairInv, RepairTypeOK, ControlAgrees, HookAgrees, Numbers
<1>3. /\ proof \cap {"update", "override"} # {}
      /\ "config" \in proof => revision[used] # None
      /\ "update" \in proof => revision[used] = used /\ head = used
  BY <1>1 DEF IInv, RepairInv, HookAgrees
<1>4. CASE FailRepair /\ UNCHANGED recorded
  BY <1>1, <1>4, RepairGivesUp DEF RepairJobs, ledger
<1>5. CASE ~(FailRepair /\ UNCHANGED recorded)
  <2>1. state' = state /\ job' = "mended" /\ recorded' = [recorded EXCEPT ![used] = proof]
    BY <1>5 DEF CompleteRepair, Goto
  <2>2. job' \in RepairJobs /\ job' \in MendingJobs /\ job' \notin RungJobs \cup Statuses \cup {"plan", "resume", "begin"}
    BY <2>1, Names DEF RepairJobs, RungJobs, MendingJobs, FinalJobs
  <2>3. \A n \in Repairs : recorded'[n] = IF n = used THEN proof ELSE recorded[n]
    BY <2>1 DEF IInv, RepairInv, RepairTypeOK
  <2>4. RepairTypeOK'
    BY <1>1, <1>2, <2>1, <2>2 DEF IInv, RepairInv, RepairTypeOK, worktree, provider
  <2>5. LedgerAgrees'
    <3>1. /\ \A n \in resumed : recorded'[n] # {}
          /\ \A n \in Repairs : recorded'[n] # {} => n \in begun
      BY <1>2, <1>3, <2>3 DEF IInv, RepairInv, RepairTypeOK, LedgerAgrees
    <3> QED
      BY <1>1, <2>1, <3>1 DEF IInv, RepairInv, LedgerAgrees
  <2>6. ControlAgrees'
    BY <1>1, <1>2, <2>1, <2>2 DEF IInv, RepairInv, ControlAgrees
  <2>7. FilesAgree' /\ WorktreeAgrees'
    BY <1>1, <1>2, <1>3, <2>1, <2>3 DEF IInv, RepairInv, FilesAgree, WorktreeAgrees, Reduced, Shelved, Patched, worktree
  <2>8. HookAgrees'
    BY <1>1, <1>2, <2>1, <2>3 DEF IInv, RepairInv, HookAgrees, Patched, Reduced, Shelved, worktree,
       FinalJobs, PatchJobs, AskingJobs, FixedJobs
  <2>9. RecordsAgree'
    <3>1. SUFFICES ASSUME NEW n \in Repairs, recorded'[n] # {}
                   PROVE  /\ recorded'[n] \subseteq files[n]
                          /\ "config" \in recorded'[n] => revision[n] # None
                          /\ "update" \in recorded'[n] => revision[n] = n /\ head >= n
      BY <1>1 DEF RecordsAgree, worktree
    <3>2. CASE n = used
      BY <1>2, <1>3, <2>3, <3>2
    <3>3. CASE n # used
      BY <2>3, <3>1, <3>3 DEF IInv, RepairInv, RecordsAgree
    <3> QED
      BY <3>2, <3>3
  <2> QED
    BY <2>4, <2>5, <2>6, <2>7, <2>8, <2>9 DEF RepairInv
<1> QED
  BY <1>4, <1>5

LEMMA ResumeRungStep ==
    ASSUME IInv, ResumeRung
    PROVE  RepairInv'
<1>1. /\ job = "mended" /\ job \in MendingJobs /\ job \in FinalJobs
      /\ UNCHANGED <<live, failure, cause, begun, revision, recorded, files, proof, worktree, provider, used>>
      /\ resumed' = resumed \cup {used}
      /\ state' = IF used \in resumed THEN state ELSE "RUNNING"
      /\ job' = IF state' = "RUNNING" THEN "rung" ELSE "resume"
  BY DEF ResumeRung, Keep, Goto, MendingJobs, FinalJobs
<1>2. /\ used \in begun /\ used \in Repairs /\ used \in Nat /\ used \in 1..used
      /\ state \in {"FAILED_REPAIRABLE", "REPAIRING"} /\ failure # None
      /\ recorded[used] # {} /\ head = commit /\ ~dirty
  BY <1>1, RungAssumption DEF IInv, RungInv, RungTypeOK, RepairInv, RepairTypeOK, ControlAgrees, HookAgrees,
     LedgerAgrees, Numbers
<1>3. job' \in {"rung", "resume"} /\ job' \in {"rung"} \cup RepairJobs
  BY <1>1 DEF RepairJobs
<1>4. RepairTypeOK'
  BY <1>1, <1>2, <1>3 DEF IInv, RepairInv, RepairTypeOK, worktree, provider
<1>5. used \in resumed => state = "FAILED_REPAIRABLE" /\ state' = state /\ job' = "resume"
  BY <1>1, <1>2 DEF IInv, RepairInv, LedgerAgrees
<1>6. used \notin resumed => state' = "RUNNING" /\ job' = "rung"
  BY <1>1
<1>7. LedgerAgrees'
  <2>1. resumed' \subseteq begun /\ \A n \in resumed' : recorded[n] # {}
    BY <1>1, <1>2 DEF IInv, RepairInv, LedgerAgrees
  <2>2. resumed' = 1..used
    <3>1. 1..(used - 1) \subseteq resumed /\ resumed \subseteq 1..used
      BY DEF IInv, RepairInv, LedgerAgrees
    <3>2. (1..(used - 1)) \cup {used} = 1..used
      BY <1>2
    <3> QED
      BY <1>1, <1>2, <3>1, <3>2
  <2> QED
    BY <1>1, <1>2, <1>5, <1>6, <2>1, <2>2 DEF IInv, RepairInv, LedgerAgrees
<1>8. ControlAgrees'
  <2>1. {"rung", "resume"} \cap MendingJobs = {} /\ "resume" \notin RungJobs \cup Statuses
    BY Names DEF MendingJobs, PatchJobs, AskingJobs, FixedJobs, FinalJobs, RungJobs, RepairJobs
  <2> QED
    BY <1>1, <1>2, <1>3, <1>5, <1>6, <2>1 DEF ControlAgrees
<1>9. HookAgrees'
  BY <1>3 DEF HookAgrees, PatchJobs, AskingJobs, FixedJobs, FinalJobs
<1>10. FilesAgree' /\ RecordsAgree'
  BY <1>1 DEF IInv, RepairInv, FilesAgree, RecordsAgree, Reduced, Shelved, Patched, worktree
<1>11. WorktreeAgrees'
  BY <1>1, <1>2, <1>3 DEF IInv, RepairInv, WorktreeAgrees, worktree
<1> QED
  BY <1>4, <1>7, <1>8, <1>9, <1>10, <1>11 DEF RepairInv

-----------------------------------------------------------------------------
(* The invariant, and what follows from it.                                *)

LEMMA RepairStepKeeps ==
    ASSUME IInv, RepairStep \/ HookFails
    PROVE  IInv'
<1>1. RungInv'
  BY RepairStepKeepsRung
<1>2. ASSUME AskProvider, ~Fresh
      PROVE  RepairInv'
  <2>1. /\ FailRepair /\ job \in RepairJobs
        /\ UNCHANGED <<live, failure, ledger, files, proof, worktree, provider, used>>
    BY <1>2 DEF AskProvider, KeepLedger, Keep, RepairJobs, provider
  <2> QED
    BY <2>1, RepairGivesUp
<1>3. RepairInv'
  BY <1>2, EnterSteps, PlanStep, BeginRepairStep, FindEvidenceStep, StartHookStep, FixedSteps, PatchSteps,
     ApplyRevisionStep, CompleteRepairStep, ResumeRungStep, HookFailsStep
  DEF RepairStep, PatchStep
<1> QED
  BY <1>1, <1>3 DEF IInv

LEMMA InitHolds == Init => IInv
<1> SUFFICES ASSUME Init PROVE IInv
  OBVIOUS
<1>1. /\ RungInit /\ RepairInit /\ job = "away" /\ job \notin RungJobs \cup Statuses \cup RepairJobs
      /\ 0 \in Numbers /\ 1..used = {} /\ used = 0 /\ MaxFaults \in Nat /\ MaxRepairs \in Nat
  BY Names, RungAssumption DEF Init, RungInit, Numbers, RungJobs, RepairJobs
<1>2. RungTypeOK
  <2>1. NFolds \in Nat
    BY <1>1, RungAssumption DEF RungInit, NFolds
  <2>2. 1 \in 1..NFolds + 1 /\ Idle \in SideStates
    BY <2>1 DEF Idle, SideStates, Ops
  <2>3. side \in [Folds -> [Sides -> SideStates]] /\ next \in 1..NFolds + 1 /\ faults \in 0..MaxFaults
    BY <1>1, <2>2 DEF RungInit
  <2> QED
    BY <1>1, <2>3 DEF RungInit, RungTypeOK, SideStates
<1>3. RowsAgree /\ QuietWhileRepaired /\ PoolAgrees /\ RungOfOneRevision
  BY <1>1, Names DEF RungInit, RowsAgree, QuietWhileRepaired, Running, PoolAgrees, RungOfOneRevision
<1>4. RepairTypeOK
  BY <1>1 DEF RepairInit, RepairTypeOK
<1>5. LedgerAgrees /\ FilesAgree /\ RecordsAgree
  <2>1. \A n \in Repairs : ~(n <= used) /\ cause[n] = None /\ recorded[n] = {} /\ files[n] = {} /\ revision[n] = None
    BY <1>1 DEF RepairInit, Repairs
  <2>2. 1..(used - 1) = {}
    BY <1>1
  <2> QED
    BY <1>1, <2>1, <2>2, Names DEF RepairInit, LedgerAgrees, FilesAgree, RecordsAgree, Reduced, Shelved, Patched
<1>6. ControlAgrees /\ HookAgrees /\ WorktreeAgrees
  BY <1>1 DEF RepairInit, ControlAgrees, HookAgrees, WorktreeAgrees, Repairs,
     RepairJobs, MendingJobs, PatchJobs, AskingJobs, FixedJobs, FinalJobs
<1> QED
  BY <1>2, <1>3, <1>4, <1>5, <1>6 DEF IInv, RungInv, RepairInv

LEMMA StutterKeeps ==
    ASSUME IInv, UNCHANGED vars
    PROVE  IInv'
<1>1. RungInv'
  BY DEF vars, rungVars, IInv, RungInv, RungTypeOK, RowsAgree, QuietWhileRepaired, PoolAgrees, RungOfOneRevision,
     SidesAgree, Covered, Attempted, Id, Running, Ended, NFolds, Fits, attempts, threads
<1>2. RepairInv'
  BY DEF vars, rungVars, repairVars, IInv, RepairInv, RepairTypeOK, LedgerAgrees, ControlAgrees, FilesAgree,
     HookAgrees, WorktreeAgrees, RecordsAgree, Reduced, Shelved, Patched, ledger, worktree, provider
<1> QED
  BY <1>1, <1>2 DEF IInv

LEMMA NextKeeps == IInv /\ [Next]_vars => IInv'
<1> SUFFICES ASSUME IInv, [Next]_vars PROVE IInv'
  OBVIOUS
<1>1. CASE RepairStep \/ HookFails
  BY <1>1, RepairStepKeeps
<1>2. CASE RungStep /\ UNCHANGED repairVars
  BY <1>2, RungStepKeeps, RepairsKept DEF IInv
<1>3. CASE Kill
  BY <1>3, KillKeepsRung, KillKeepsRepairs DEF IInv
<1>4. CASE UNCHANGED vars
  BY <1>4, StutterKeeps
<1> QED
  BY <1>1, <1>2, <1>3, <1>4 DEF Next, Step

\* The inductive invariant holds in every run of the rung and its repairs.
THEOREM RungsAreConsistent == Spec => []IInv
BY InitHolds, NextKeeps, PTL DEF Spec

\* Every variable of the rung and of its repairs keeps its type.
THEOREM RungsAreTyped == Spec => []TypeOK
<1>1. IInv => TypeOK
  BY DEF IInv, RungInv, RepairInv, TypeOK
<1> QED
  BY <1>1, RungsAreConsistent, PTL

\* A rung that is recorded is of one repair number in all its folds and in all
\* the attempts of its candidate, wherever it was killed and resumed.
THEOREM RungIsOfOneRevision == Spec => []RungOfOneRevision
<1>1. IInv => RungOfOneRevision
  BY DEF IInv, RungInv
<1> QED
  BY <1>1, RungsAreConsistent, PTL

\* No thread of a rung's pools is left when its failure is handled.
THEOREM RepairsFindQuiet == Spec => []QuietWhileRepaired
<1>1. IInv => QuietWhileRepaired
  BY DEF IInv, RungInv
<1> QED
  BY <1>1, RungsAreConsistent, PTL

\* A rung runs on the commit its experiment names, and a completed repair is
\* backed by the files, the revision and the commit it was completed with.
THEOREM RepairsAreBacked == Spec => []CompletedRepairIsBacked
<1>1. ASSUME IInv PROVE RunsOnTheCommit
  <2>1. SUFFICES ASSUME job \in RungJobs
                 PROVE  head = commit /\ ~dirty /\ used = Cardinality(resumed)
    BY DEF RunsOnTheCommit, RungJobs
  <2>2. state = "RUNNING" /\ resumed = 1..used
    BY <1>1, <2>1 DEF IInv, RepairInv, ControlAgrees, LedgerAgrees
  <2>3. used \in Nat
    BY <1>1, RungAssumption DEF IInv, RungInv, RungTypeOK, Numbers
  <2>4. Cardinality(resumed) = used
    BY <2>2, <2>3, FS_Interval
  <2>5. head = commit /\ ~dirty
    BY <1>1, <2>2 DEF IInv, RepairInv, WorktreeAgrees
  <2> QED
    BY <2>4, <2>5
<1>2. IInv => CompletedRepairIsBacked
  BY <1>1 DEF IInv, RungInv, RepairInv, TypeOK, RecordsAgree, CompletedRepairIsBacked
<1> QED
  BY <1>2, RungsAreConsistent, PTL

-----------------------------------------------------------------------------
(* What was decided stays.                                                 *)

LEMMA AttemptsAreFinal ==
    ASSUME IInv, Next, NEW i \in Ids
    PROVE  /\ result[i] # None => result'[i] = result[i]
           /\ row[i] \in Verdicts => row'[i] = row[i]
<1>1. CASE UNCHANGED attempts
  BY <1>1 DEF attempts
<1>2. ASSUME NEW f \in Folds, NEW s \in Sides, Reserve(f, s) \/ Execute(f, s) \/ Record(f, s)
      PROVE  /\ result[i] # None => result'[i] = result[i]
             /\ row[i] \in Verdicts => row'[i] = row[i]
  <2>1. /\ row[i] \in Verdicts => row[i] = result[i] /\ row[i] # None
        /\ row \in [Ids -> Verdicts \cup {None, "reserved"}] /\ result \in [Ids -> Verdicts \cup {None}]
    BY Names DEF IInv, RungInv, RowsAgree, RungTypeOK
  <2>2. CASE Reserve(f, s)
    BY <2>1, <2>2 DEF Reserve
  <2>3. CASE Execute(f, s)
    BY <2>1, <2>3 DEF Execute, Launches
  <2>4. CASE Record(f, s)
    BY <2>1, <2>4 DEF Record
  <2> QED
    BY <1>2, <2>2, <2>3, <2>4
<1>3. CASE RungStep
  <2>1. ASSUME NEW f \in Folds, PrepareViews(f) \/ Lookup(f) \/ FailPair(f) \/ ScorePair(f) \/ TakeFold(f)
        PROVE  UNCHANGED attempts
    BY <2>1 DEF PrepareViews, Lookup, FailPair, ScorePair, TakeFold
  <2>2. BeginRung \/ LeavePool => UNCHANGED attempts
    BY DEF BeginRung, LeavePool
  <2> QED
    BY <1>1, <1>2, <1>3, <2>1, <2>2 DEF RungStep, FoldStep
<1>4. RepairStep \/ HookFails => UNCHANGED attempts
  BY RepairStepWaits
<1>5. Kill => UNCHANGED attempts
  BY DEF Kill
<1> QED
  BY <1>1, <1>3, <1>4, <1>5 DEF Next, Step

LEMMA PatchesAreFinal ==
    ASSUME IInv, Next, NEW n \in Repairs, asked'[n] # asked[n]
    PROVE  head < n /\ revision[n] = None
<1>1. AskProvider /\ Fresh
  BY DEF Next, Step, RepairStep, Enter, CompleteRung, RaiseInterrupted, HandleFailure, Plan, ResumeRepair, BeginRepair,
     FindEvidence, StartHook, TearConfig, WriteConfig, Shelve, Mark, WriteManifest, AskProvider,
     ApplyPatch, KeepDiff, RunGates, CommitPatch, CopyConfig, KeepExchange, WriteUpdate, WriteOverride,
     RecordCall, ApplyRevision, CompleteRepair, ResumeRung, Kill, HookFails, repairVars, provider
<1>2. n = used /\ head = commit /\ revision[used] = None
  BY <1>1 DEF AskProvider, Fresh, IInv, RepairInv, RepairTypeOK, HookAgrees, PatchJobs, AskingJobs
<1>3. n \in Nat /\ commit \in Nat /\ commit <= used
  BY RungAssumption DEF IInv, RepairInv, RepairTypeOK, WorktreeAgrees, Repairs, Numbers
<1>4. commit # n
  BY <1>2, <1>3, RungAssumption DEF IInv, RepairInv, WorktreeAgrees
<1> QED
  BY <1>2, <1>3, <1>4

\* The verdict of an attempt and its row are never changed, and the provider is
\* not asked for a repair that the worktree or the experiment has a commit of.
THEOREM NothingIsDecidedTwice == Spec => DecidedOnce
<1> DEFINE Kept == /\ \A i \in Ids : /\ result[i] # None => result'[i] = result[i]
                                     /\ row[i] \in Verdicts => row'[i] = row[i]
                   /\ \A n \in Repairs : asked'[n] # asked[n] => head < n /\ revision[n] = None
<1>1. IInv /\ [Next]_vars => [Kept]_vars
  BY AttemptsAreFinal, PatchesAreFinal
<1> QED
  BY <1>1, RungsAreConsistent, PTL DEF Spec, DecidedOnce

-----------------------------------------------------------------------------
(* Repairs are bounded.                                                    *)

Done == {n \in Repairs : recorded[n] # {}}

Counted ==
    /\ used \in Nat /\ used <= MaxRepairs
    /\ Cardinality(Done) = IF used > 0 /\ recorded[used] = {} THEN used - 1 ELSE used

\* All the repairs but the last one are finished.
LEMMA FinishedRepairs == IInv => Counted
<1> SUFFICES ASSUME IInv PROVE Counted
  OBVIOUS
<1>1. used \in Nat /\ used <= MaxRepairs /\ MaxRepairs \in Nat
  BY RungAssumption DEF IInv, RungInv, RungTypeOK, Numbers
<1>2. 1..(used - 1) \subseteq Done /\ Done \subseteq 1..used
  BY <1>1 DEF Done, IInv, RepairInv, LedgerAgrees, Repairs
<1>3. CASE used > 0 /\ recorded[used] = {}
  <2>1. Done = 1..(used - 1)
    BY <1>1, <1>2, <1>3 DEF Done
  <2> QED
    BY <1>1, <1>3, <2>1, FS_Interval DEF Counted
<1>4. CASE used = 0
  <2>1. Done = {}
    BY <1>1, <1>2, <1>4
  <2> QED
    BY <1>1, <1>4, <2>1, FS_EmptySet DEF Counted
<1>5. CASE used > 0 /\ recorded[used] # {}
  <2>1. Done = 1..used
    BY <1>1, <1>2, <1>5 DEF Done, Repairs
  <2> QED
    BY <1>1, <1>5, <2>1, FS_Interval DEF Counted
<1> QED
  BY <1>1, <1>3, <1>4, <1>5 DEF Counted

LEMMA FinishedAfter == IInv' => Counted'
BY FinishedRepairs, PTL

LEMMA Stages ==
    /\ state = "RUNNING" => Stage = "running"
    /\ state = "FAILED_REPAIRABLE" => Stage = "fallen"
    /\ state = "REPAIRING" => Stage = "mending"
    /\ state = "COMPLETE" => Stage = "passed"
    /\ state = "FAILED_FINAL" => Stage = "failed"
BY DEF Stage

LEMMA StagesAfter ==
    /\ state' = "RUNNING" => Stage' = "running"
    /\ state' = "FAILED_REPAIRABLE" => Stage' = "fallen"
    /\ state' = "REPAIRING" => Stage' = "mending"
    /\ state' = "COMPLETE" => Stage' = "passed"
    /\ state' = "FAILED_FINAL" => Stage' = "failed"
BY DEF Stage

LEMMA SilentRepair ==
    ASSUME UNCHANGED <<state, used, recorded>>
    PROVE  UNCHANGED Promise!promiseVars
BY DEF Promise!promiseVars, Stage

LEMMA GivingUp ==
    ASSUME IInv, FailRepair, UNCHANGED <<used, recorded>>
    PROVE  [Promise!PromiseNext]_(Promise!promiseVars)
<1>1. CASE state = "REPAIRING"
  BY <1>1, Stages, StagesAfter DEF FailRepair, Promise!PromiseNext, Promise!GiveUp
<1>2. CASE state # "REPAIRING"
  BY <1>2, SilentRepair DEF FailRepair
<1> QED
  BY <1>1, <1>2

LEMMA PromiseStep ==
    ASSUME IInv, IInv', [Next]_vars
    PROVE  [Promise!PromiseNext]_(Promise!promiseVars)
<1> DEFINE finished == Cardinality({n \in Repairs : recorded[n] # {}})
<1>1. /\ used \in Nat /\ used <= MaxRepairs
      /\ finished = IF used > 0 /\ recorded[used] = {} THEN used - 1 ELSE used
      /\ finished' = IF used' > 0 /\ recorded'[used'] = {} THEN used' - 1 ELSE used'
      /\ recorded' = recorded => finished' = finished
  BY FinishedRepairs, FinishedAfter DEF Counted, Done
<1> HIDE DEF finished
<1>2. state = "RUNNING" \/ resumed = 1..used => finished = used
  BY <1>1 DEF IInv, RepairInv, LedgerAgrees
<1>3. CASE HandleFailure
  <2>1. state = "RUNNING" /\ state' = "FAILED_REPAIRABLE" /\ used' = used /\ recorded' = recorded
    BY <1>3 DEF HandleFailure, Keep, ledger, IInv, RepairInv, ControlAgrees
  <2> QED
    BY <1>1, <1>2, <2>1, Stages, StagesAfter DEF Promise!PromiseNext, Promise!Fall, finished
<1>4. CASE CompleteRung
  <2>1. state = "RUNNING" /\ state' = "COMPLETE" /\ used' = used /\ recorded' = recorded
    BY <1>4 DEF CompleteRung, Keep, ledger, IInv, RepairInv, ControlAgrees, RungJobs
  <2> QED
    BY <1>1, <2>1, Stages, StagesAfter DEF Promise!PromiseNext, Promise!Pass, finished
<1>5. CASE Plan
  <2>1. state = "FAILED_REPAIRABLE" /\ resumed = 1..used /\ recorded' = recorded
    <3>1. used = 0 => resumed = {} /\ begun = {} /\ 1..used = {}
      BY DEF IInv, RepairInv, LedgerAgrees
    <3> QED
      BY <1>5, <3>1 DEF Plan, IInv, RepairInv, ControlAgrees, LedgerAgrees
  <2>2. CASE used' = used + 1 /\ state' = state /\ used < MaxRepairs
    BY <1>1, <1>2, <2>1, <2>2, Stages, StagesAfter DEF Promise!PromiseNext, Promise!ReserveRepair, finished
  <2>3. CASE used' = used /\ state' = "FAILED_FINAL"
    BY <1>1, <2>1, <2>3, Stages, StagesAfter DEF Promise!PromiseNext, Promise!GiveUp, finished
  <2> QED
    BY <1>5, <2>2, <2>3 DEF Plan, AllowanceLeft
<1>6. CASE BeginRepair
  <2>1. /\ state = "FAILED_REPAIRABLE" /\ used > 0 /\ used' = used /\ recorded' = recorded
        /\ used \in begun => state' = state
        /\ used \notin begun => state' = "REPAIRING"
    BY <1>6 DEF BeginRepair, Keep, IInv, RepairInv, ControlAgrees
  <2>2. CASE used \in begun
    BY <2>1, <2>2, SilentRepair
  <2>3. CASE used \notin begun
    <3>1. recorded[used] = {}
      BY <1>1, <2>1, <2>3 DEF IInv, RepairInv, LedgerAgrees, Repairs
    <3>2. finished < used
      BY <1>1, <2>1, <3>1
    <3> QED
      BY <1>1, <2>1, <2>3, <3>2, Stages, StagesAfter DEF Promise!PromiseNext, Promise!Mend, finished
  <2> QED
    BY <2>2, <2>3
<1>7. CASE CompleteRepair
  <2>1. used' = used /\ used \in begun /\ used \in Repairs /\ used > 0 /\ proof # {}
    BY <1>1, <1>7 DEF CompleteRepair, Keep, IInv, RepairInv, RepairTypeOK, ControlAgrees, HookAgrees,
       MendingJobs, FinalJobs, Repairs
  <2>2. CASE FailRepair /\ UNCHANGED recorded
    BY <2>1, <2>2, GivingUp
  <2>3. CASE recorded[used] = proof /\ recorded' = [recorded EXCEPT ![used] = proof] /\ state' = state
    <3>1. recorded' = recorded
      BY <2>3 DEF IInv, RepairInv, RepairTypeOK
    <3> QED
      BY <2>1, <2>3, <3>1, SilentRepair
  <2>4. CASE recorded[used] = {} /\ recorded' = [recorded EXCEPT ![used] = proof] /\ state' = state
    <3>1. recorded'[used] = proof
      BY <2>1, <2>4 DEF IInv, RepairInv, RepairTypeOK
    <3>2. finished' = used
      BY <1>1, <2>1, <3>1
    <3>3. state = "REPAIRING"
      BY <1>7, <2>1, <2>4 DEF CompleteRepair, IInv, RepairInv, ControlAgrees, LedgerAgrees, MendingJobs, FinalJobs
    <3> QED
      BY <2>1, <2>4, <3>2, <3>3, Stages, StagesAfter DEF Promise!PromiseNext, Promise!Finish, finished
  <2> QED
    BY <1>7, <2>2, <2>3, <2>4 DEF CompleteRepair
<1>8. CASE ResumeRung
  <2>1. /\ used' = used /\ recorded' = recorded /\ recorded[used] # {} /\ used \in begun
        /\ state \in {"FAILED_REPAIRABLE", "REPAIRING"}
        /\ state' = IF used \in resumed THEN state ELSE "RUNNING"
    BY <1>8 DEF ResumeRung, Keep, IInv, RepairInv, ControlAgrees, HookAgrees, MendingJobs, FinalJobs
  <2>2. CASE used \in resumed
    BY <2>1, <2>2, SilentRepair
  <2>3. CASE used \notin resumed
    <3>1. state = "REPAIRING" /\ finished = used
      BY <1>1, <2>1, <2>3 DEF IInv, RepairInv, LedgerAgrees
    <3> QED
      BY <1>1, <2>1, <2>3, <3>1, Stages, StagesAfter DEF Promise!PromiseNext, Promise!RunAgain, finished
  <2> QED
    BY <2>2, <2>3
<1>9. CASE StartHook \/ AskProvider \/ ApplyRevision \/ HookFails
  <2>1. UNCHANGED <<used, recorded>>
    BY <1>9 DEF StartHook, AskProvider, ApplyRevision, HookFails, KeepLedger, Keep, ledger
  <2>2. FailRepair \/ state' = state
    BY <1>9 DEF StartHook, AskProvider, ApplyRevision, HookFails
  <2> QED
    BY <2>1, <2>2, GivingUp, SilentRepair
<1>10. CASE \/ Enter \/ RaiseInterrupted \/ ResumeRepair \/ FindEvidence \/ TearConfig \/ WriteConfig \/ Shelve \/ Mark \/ WriteManifest
            \/ ApplyPatch \/ KeepDiff \/ RunGates \/ CommitPatch \/ CopyConfig \/ KeepExchange
            \/ WriteUpdate \/ WriteOverride \/ RecordCall \/ Kill \/ UNCHANGED vars
  <2>1. UNCHANGED <<state, used, recorded>>
    BY <1>10 DEF Enter, RaiseInterrupted, ResumeRepair, FindEvidence, TearConfig, WriteConfig, Shelve, Mark, WriteManifest,
       ApplyPatch, KeepDiff, RunGates, CommitPatch, CopyConfig, KeepExchange, WriteUpdate, WriteOverride,
       RecordCall, Kill, KeepLedger, Keep, ledger, repairVars, rungVars, vars
  <2> QED
    BY <2>1, SilentRepair
<1>11. CASE RungStep /\ UNCHANGED repairVars
  BY <1>11, RungStepRuns, SilentRepair DEF repairVars, ledger
<1> QED
  BY <1>3, <1>4, <1>5, <1>6, <1>7, <1>8, <1>9, <1>10, <1>11 DEF Next, Step, RepairStep

\* A rung falls and is mended at most as often as repairs are allowed, runs again
\* only after the repair of its last fall is finished, and passes only while it runs.
THEOREM RepairsImplementPromise == Spec => RepairsAreBounded
<1>1. Init => Promise!PromiseInit
  <2> SUFFICES ASSUME Init PROVE Promise!PromiseInit
    OBVIOUS
  <2>1. {n \in Repairs : recorded[n] # {}} = {}
    BY DEF Init, RepairInit
  <2>2. Cardinality({n \in Repairs : recorded[n] # {}}) = 0
    BY <2>1, FS_EmptySet
  <2> QED
    BY <2>2, Stages DEF Init, RungInit, RepairInit, Promise!PromiseInit
<1>2. IInv /\ IInv' /\ [Next]_vars => [Promise!PromiseNext]_(Promise!promiseVars)
  BY PromiseStep
<1> QED
  BY <1>1, <1>2, RungsAreConsistent, PTL DEF Spec, RepairsAreBounded, Promise!PromiseSpec

=============================================================================
