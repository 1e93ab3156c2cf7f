------------------------------ MODULE RungExecution ------------------------------
(***************************************************************************)
(* One rung of an experiment: run_rung of rex/control/scientific_hooks.py, *)
(* the pool of folds, the two sides of a fold, and the fit and predict     *)
(* attempts of a side.                                                     *)
(*                                                                         *)
(* The rung's candidate is compared with a control fitted on the same      *)
(* fold, with the stronger of its own components, or with the predictions  *)
(* of the incumbent.  Attempts are named by the number of repairs reserved *)
(* so far; their rows and the worker's results outlive the process, the    *)
(* pools do not.                                                           *)
(***************************************************************************)
EXTENDS Naturals, FiniteSets

CONSTANTS
    None,
    Rungs,        \* what a rung may compare a candidate with, and its partitions
    FoldWidth,    \* folds evaluated at a time
    SideBySide,   \* whether candidate and control run at the same time
    Statuses,     \* the ways an attempt can fail
    MaxRepairs,
    MaxFaults     \* bound on kills and failures

\* AttemptStatus, but for the one that means success.
Failures == {"SYNTAX", "IMPORT", "CONTRACT", "TIMEOUT", "OOM", "NAN", "CRASH",
             "INVALID_ARTIFACT", "INTERRUPTED"}

ASSUME RungAssumption ==
    /\ Rungs \subseteq {"control", "component", "incumbent"} \X (Nat \ {0})
    /\ FoldWidth \in Nat \ {0} /\ SideBySide \in BOOLEAN
    /\ Statuses \subseteq Failures
    /\ MaxRepairs \in Nat /\ MaxFaults \in Nat
    /\ None \notin Failures \cup {"SUCCESS", "reserved"} /\ None \notin Nat

VARIABLES
    job,        \* where the supervisor's thread is
    rung,       \* what this rung compares with, and how many partitions it has
    used,       \* repairs reserved for the experiment
    row,        \* the attempts table
    result,     \* the durable results of workers
    side,       \* the threads of the folds' sides
    fold,       \* the futures of the fold pool
    error,      \* what a fold's evaluation raised
    next,       \* the first fold not submitted yet
    stop,       \* whether the scheduler has seen a failure
    evidence,   \* the repair number a fold's metrics.json belongs to
    cache,      \* scientific-cache/<experiment>/<rung>.json
    touched,    \* the attempt directory that was written to last
    faults

referent == rung[1]
NFolds == rung[2]

Folds == UNION {1..r[2] : r \in Rungs}
Sides == {"candidate", "reference"}
Ops == {"fit", "predict"}
Numbers == 0..MaxRepairs
Ids == Numbers \X Folds \X Sides \X Ops

\* A slip: attempts are not named by the repair.
FirstId(f, s, op) == <<0, f, s, op>>

Id(f, s, op) == <<used, f, s, op>>
Verdicts == Statuses \cup {"SUCCESS"}

attempts == <<row, result, touched>>
threads == <<side, fold, error, next, stop>>
rungVars == <<job, rung, used, attempts, threads, evidence, cache, faults>>

Idle == [pc |-> "idle", op |-> "fit", status |-> None]

RungTypeOK ==
    /\ rung \in Rungs /\ used \in Numbers
    /\ row \in [Ids -> Verdicts \cup {None, "reserved"}]
    /\ result \in [Ids -> Verdicts \cup {None}]
    /\ side \in [Folds -> [Sides -> [pc : {"idle", "reserve", "execute", "record", "ok", "error"},
                                     op : Ops, status : Statuses \cup {None}]]]
    /\ fold \in [Folds -> {"waiting", "preparing", "running", "ok", "error", "taken"}]
    /\ error \in [Folds -> Statuses \cup {None}]
    /\ next \in 1..NFolds + 1 /\ stop \in BOOLEAN
    /\ evidence \in [Folds -> Numbers \cup {None}] /\ cache \in Numbers \cup {None}
    /\ touched \in (Numbers \X Folds \X Sides) \cup {None}
    /\ faults \in 0..MaxFaults

RungInit ==
    /\ job = "away" /\ rung \in Rungs /\ used = 0
    /\ row = [i \in Ids |-> None] /\ result = [i \in Ids |-> None]
    /\ touched = None
    /\ side = [f \in Folds |-> [s \in Sides |-> Idle]]
    /\ fold = [f \in Folds |-> "waiting"] /\ error = [f \in Folds |-> None]
    /\ next = 1 /\ stop = FALSE
    /\ evidence = [f \in Folds |-> None] /\ cache = None
    /\ faults = 0

\* How run_rung names the errors of views, references and scores.
Unreadable == Statuses \cap {"CONTRACT", "INVALID_ARTIFACT", "NAN", "OOM", "TIMEOUT"}

Fault == faults < MaxFaults /\ faults' = faults + 1

\* Only a control is fitted; the other referents are read.
Fits(s) == s = "candidate" \/ referent = "control"

\* _parallel_side_width.
InParallel == SideBySide /\ referent = "control"

Width == IF InParallel THEN (FoldWidth + 1) \div 2 ELSE FoldWidth

-------------------------------------------------------------------------------
(* run_rung: the cached rung, and the pool of folds.                       *)

\* _cached_rung: the recorded rung is returned when all it refers to is there.
CachedRung == cache # None

BeginRung ==
    /\ job = "rung"
    /\ IF CachedRung THEN job' = "passed" /\ UNCHANGED threads
       ELSE /\ job' = "pool"
            /\ fold' = [f \in Folds |-> IF f <= Width /\ f <= NFolds THEN "preparing" ELSE "waiting"]
            /\ next' = IF Width < NFolds THEN Width + 1 ELSE NFolds + 1
            /\ side' = [f \in Folds |-> [s \in Sides |-> Idle]]
            /\ error' = [f \in Folds |-> None] /\ stop' = FALSE
    /\ UNCHANGED <<rung, used, attempts, evidence, cache, faults>>

Running == {f \in Folds : fold[f] \in {"preparing", "running"}}
Ended == {f \in Folds : fold[f] \in {"ok", "error"}}

\* A completed future is taken; while nothing failed the next fold takes its place.
TakeFold(f) ==
    /\ job = "pool" /\ f \in Ended
    /\ stop' = (stop \/ fold[f] = "error")
    /\ IF ~stop' /\ next <= NFolds
       THEN fold' = [fold EXCEPT ![f] = "taken", ![next] = "preparing"] /\ next' = next + 1
       ELSE fold' = [fold EXCEPT ![f] = "taken"] /\ UNCHANGED next
    /\ UNCHANGED <<job, rung, used, attempts, side, error, evidence, cache, faults>>

\* A slip: the pool is left as soon as a failure was seen.
PoolFailed == stop

\* Leaving the executor waits for every fold that was submitted.
PoolDrained == Running \cup Ended = {}

\* The failure of the lowest fold is raised; else the rung is written as one.
LeavePool ==
    /\ job = "pool" /\ PoolDrained
    /\ IF stop
       THEN LET bad == {f \in Folds : error[f] # None} IN
            /\ \E f \in bad : (\A g \in bad : f <= g) /\ job' = error[f]
            /\ UNCHANGED cache
       ELSE job' = "passed" /\ cache' = used
    /\ UNCHANGED <<rung, used, attempts, threads, evidence, faults>>

-------------------------------------------------------------------------------
(* _evaluate_pair: the sides of a fold.                                    *)

\* The views and configs both sides read.  A partition or a recipe is written file
\* by file under a name of its inputs, its manifest last, and reused when the
\* manifest matches; else it is written again.  What cannot be read or aligned
\* is a failure of the fold, as the scores' would be.
PrepareViews(f) ==
    /\ fold[f] = "preparing"
    /\ \/ fold' = [fold EXCEPT ![f] = "running"] /\ UNCHANGED <<error, faults>>
       \/ /\ Fault /\ fold' = [fold EXCEPT ![f] = "error"]
          /\ \E status \in Unreadable : error' = [error EXCEPT ![f] = status]
    /\ UNCHANGED <<job, rung, used, attempts, side, next, stop, evidence, cache>>

At(f, s, pc) == fold[f] = "running" /\ side[f][s].pc = pc
Move(f, s, pc) == side' = [side EXCEPT ![f][s].pc = pc]
Other(s) == IF s = "candidate" THEN "reference" ELSE "candidate"

\* The candidate is first unless both run at once, and a side that has not
\* begun when the other one failed is cancelled.
MayBegin(f, s) ==
    /\ At(f, s, "idle") /\ Fits(s)
    /\ s = "candidate" \/ InParallel \/ side[f]["candidate"].pc = "ok"
    /\ side[f][Other(s)].pc # "error"

\* A reference looks for the control that other runs have published: import_entry
\* finds it, or there is a miss or a bypass.
Lookup(f) ==
    /\ MayBegin(f, "reference")
    /\ Move(f, "reference", "ok") \/ Move(f, "reference", "reserve")
    /\ UNCHANGED <<job, rung, used, attempts, fold, error, next, stop, evidence, cache, faults>>

-------------------------------------------------------------------------------
(* _execute_one and _run_and_record: the attempts of a side.               *)

Reserve(f, s) ==
    LET i == Id(f, s, side[f][s].op) IN
    /\ At(f, s, "reserve") \/ (s = "candidate" /\ MayBegin(f, s))
    /\ row' = [row EXCEPT ![i] = IF @ = None THEN "reserved" ELSE @]
    /\ Move(f, s, "execute")
    /\ UNCHANGED <<job, rung, used, result, touched, fold, error, next, stop, evidence, cache, faults>>

\* A slip: a worker is launched again over the result it left.
Relaunch(i) == TRUE

\* execute: a durable result is replayed, else the worker is launched.
Launches(i) == result[i] = None

Execute(f, s) ==
    LET i == Id(f, s, side[f][s].op) IN
    /\ At(f, s, "execute")
    /\ IF Launches(i)
       THEN \E verdict \in Verdicts :
              /\ result' = [result EXCEPT ![i] = verdict] /\ touched' = <<used, f, s>>
              /\ IF verdict = "SUCCESS" THEN UNCHANGED faults ELSE Fault
       ELSE UNCHANGED <<result, touched, faults>>
    /\ Move(f, s, "record")
    /\ UNCHANGED <<job, rung, used, row, fold, error, next, stop, evidence, cache>>

\* record_attempt, then the next operation, the end of the side, or its failure.
\* A reference is published at its end, or bypassed: the execution stands.
Record(f, s) ==
    LET op == side[f][s].op  i == Id(f, s, op)  verdict == result[i] IN
    /\ At(f, s, "record")
    /\ row' = [row EXCEPT ![i] = verdict]
    /\ side' = [side EXCEPT ![f][s] =
                  IF verdict # "SUCCESS" THEN [pc |-> "error", op |-> op, status |-> verdict]
                  ELSE IF op = "fit" THEN [pc |-> "reserve", op |-> "predict", status |-> None]
                  ELSE [pc |-> "ok", op |-> op, status |-> None]]
    /\ UNCHANGED <<job, rung, used, result, touched, fold, error, next, stop, evidence, cache, faults>>

-------------------------------------------------------------------------------
(* The end of a fold.                                                      *)

\* A slip: the side that is cancelled is waited for.
BothEnded(f, s) == ~Fits(s) \/ side[f][s].pc \in {"ok", "error"}

\* A side that has not begun when the other one failed is not waited for.
Settled(f, s) == ~Fits(s) \/ side[f][s].pc \in {"ok", "error"} \/
                 (side[f][s].pc = "idle" /\ side[f][Other(s)].pc = "error")

\* The candidate's failure is raised before the reference's.
FailPair(f) ==
    LET bad == {s \in Sides : side[f][s].pc = "error"} IN
    /\ fold[f] = "running" /\ bad # {} /\ \A s \in Sides : Settled(f, s)
    /\ error' = [error EXCEPT ![f] =
                   side[f][IF "candidate" \in bad THEN "candidate" ELSE "reference"].status]
    /\ fold' = [fold EXCEPT ![f] = "error"]
    /\ UNCHANGED <<job, rung, used, attempts, side, next, stop, evidence, cache, faults>>

\* Both sides are scored on the same rows; the scoring itself may refuse an
\* artifact, a component that is missing, or an incumbent that has drifted.
ScorePair(f) ==
    /\ fold[f] = "running" /\ \A s \in Sides : Fits(s) => side[f][s].pc = "ok"
    /\ \/ /\ evidence' = [evidence EXCEPT ![f] = used]
          /\ fold' = [fold EXCEPT ![f] = "ok"] /\ UNCHANGED <<error, faults>>
       \/ /\ Fault /\ \E status \in Unreadable : error' = [error EXCEPT ![f] = status]
          /\ fold' = [fold EXCEPT ![f] = "error"] /\ UNCHANGED evidence
    /\ UNCHANGED <<job, rung, used, attempts, side, next, stop, cache>>

FoldStep(f) ==
    \/ \E s \in Sides : Reserve(f, s) \/ Execute(f, s) \/ Record(f, s)
    \/ PrepareViews(f) \/ Lookup(f) \/ FailPair(f) \/ ScorePair(f)

RungStep == BeginRung \/ LeavePool \/ \E f \in Folds : TakeFold(f) \/ FoldStep(f)

===============================================================================
