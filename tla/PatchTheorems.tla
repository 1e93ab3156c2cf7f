----------------------------- MODULE PatchTheorems -----------------------------
(***************************************************************************)
(* Proofs about the preparation of a live candidate: what the decisions,   *)
(* the verdicts, the slots and the worktree say of each other at every     *)
(* point of the process, wherever an earlier one was killed.               *)
(***************************************************************************)
EXTENDS PatchProperties, FiniteSetTheorems, TLAPS

\* Points at which an attempt is under way, if there is one.
SlotPoints == {"decide", "keep", "record"}
OpenPoints == {"apply", "audit", "gates", "restore", "reject", "accept"}
EndPoints == {"file", "refile", "settle"}
AttemptPoints == {"attempt", "judge", "publish"} \cup SlotPoints \cup OpenPoints \cup EndPoints
ClosingPoints == {"mainrow", "evidence", "abandon"}
MainPoints == {"away", "failed", "final", "register", "done"} \cup ClosingPoints

Moved == {"PATCHED", "STATIC_VALID", "FIXTURE_VALID"}
Gated == {"static", "fixture", "good"}

\* The attempts before the k-th are rejected, and their repairs are closed.
Begun(k) ==
    /\ \A j \in 1..(k - 1) : verdict[j] = "rejected"
    /\ \A j \in 1..(k - 2) : repair[j] = "done"

Reserved(k) == k > 1 => repair[k - 1] # "none"

\* Every attempt is rejected and every slot is closed.
Spent ==
    /\ \A k \in Attempts : verdict[k] = "rejected"
    /\ \A n \in 1..MaxRepairs : repair[n] = "done"
    /\ head = 0

AllMirrored == \A d \in Decisions : response[d] # None => d \in mirrored

RouterInv ==
    /\ call \in [at : Nat, tries : Nat, attempts : Nat, answered : BOOLEAN]
    /\ call.answered => call.at \in 1..Len(Route)

\* Every file has been written after the ones it rests on.
FilesInv ==
    /\ \A k \in Attempts : response[k] # None => response[k].kind \in Patches /\ Begun(k) /\ Reserved(k)
    /\ \A k \in Attempts : verdict[k] # None => k \in recorded
    /\ \A k \in Attempts, g \in Gates : gate[k][g] # None =>
          /\ response[k] # None /\ response[k].kind \in Gated
          /\ gate[k][g] = "pass" => response[k].kind # g
    /\ \A k \in Attempts : verdict[k] = "accepted" =>
          response[k].kind = "good" /\ \A g \in Gates : gate[k][g] = "pass"

\* The tables of the transaction and of the run.
TablesInv ==
    /\ mirrored \subseteq recorded /\ \A d \in recorded : response[d] # None
    /\ RepairsMatchRejections
    /\ tx.state # "none" => response[0] # None
    /\ tx.state \notin {"none", "PROPOSED"} => 0 \in recorded
    /\ tx.state = "FAILED_FINAL" \/ tx.reason = "exhausted" =>
          tx.state \in {"FAILED_REPAIRABLE", "FAILED_FINAL"} /\ Spent
    /\ tx.state \in Moved =>
          /\ tx.patch \in Attempts /\ verdict[tx.patch] = "accepted"
          /\ tree \in {Absent, Gone, Clean, Dirty(tx.patch)}
    /\ head # 0 => tx.state = "FIXTURE_VALID" /\ tx.patch = head /\ tree.patch = 0
    /\ main \in {"PROPOSED", "ABANDONED"} => tx.state = "FAILED_FINAL"
    /\ main = "PREPARED" => head # 0
    /\ main \in {"PREPARED", "ABANDONED"} => AllMirrored

\* What the process knows where it is.
PointInv ==
    /\ at.pc \in AttemptPoints \ {"keep", "record"} => at.k # 0
    /\ at.pc \in AttemptPoints /\ at.k # 0 => tx.state = "WORKTREE_READY" /\ Begun(at.k)
    /\ at.pc \in (AttemptPoints \ {"attempt"}) /\ at.k # 0 => Reserved(at.k)
    /\ at.pc \in {"away", "propose", "create"} => at.k = 0
    /\ at.pc = "create" => response[0] # None /\ tx.state = "none"
    /\ at.pc = "keep" => IF at.k = 0 THEN tx.state = "none" /\ (response[0] = None \/ Misfiled)
                                     ELSE response[at.k] = None
    /\ at.pc = "record" => response[at.k] # None /\ (at.k = 0 => tx.state # "none")
    /\ at.pc \in {"worktree", "dispatch"} => 0 \in recorded /\ tx.state # "none"
    /\ at.pc \in {"judge"} \cup OpenPoints => at.k \in recorded
    /\ at.pc \in OpenPoints => verdict[at.k] = None
    /\ at.pc \in {"audit", "gates", "accept", "publish"} => tree = Dirty(at.k)
    /\ at.pc = "audit" => response[at.k].kind # "unappliable"
    /\ at.pc \in {"gates", "accept"} => response[at.k].kind \in Gated
    /\ at.pc = "accept" => \A g \in Gates : gate[at.k][g] = "pass"
    /\ at.pc \in EndPoints => verdict[at.k] # None /\ (verdict[at.k] = "accepted" => tree = Dirty(at.k))
    /\ at.pc = "publish" => verdict[at.k] = "accepted"
    /\ at.pc = "commit" => tx.state = "FIXTURE_VALID"
    /\ at.pc \in {"stamp", "mirror", "register"} => head # 0
    /\ at.pc = "register" => AllMirrored
    /\ at.pc = "final" => (tx.state = "FAILED_FINAL" \/ tx.reason = "exhausted")
    /\ at.pc \in ClosingPoints => tx.state = "FAILED_FINAL"
    /\ at.pc = "abandon" => AllMirrored
    /\ main # "absent" => at.pc \in MainPoints

IInv == TypeOK /\ RouterInv /\ FilesInv /\ TablesInv /\ PointInv

-----------------------------------------------------------------------------
(* Facts of the types, and the step that only moves.                       *)

LEMMA Values ==
    /\ MaxRepairs \in Nat /\ MaxFaults \in Nat /\ MaxCalls \in Nat
    /\ None \notin Answers /\ None \notin {"pass", "fail", "accepted", "rejected"} \cup Reasons
    /\ Len(Route) \in Nat /\ 0 \in Decisions /\ 1 \in Attempts
    /\ Attempts \subseteq Decisions /\ Attempts \subseteq Nat /\ 0 \notin Attempts
    /\ \A d \in Decisions : d # 0 => d \in Attempts
BY PatchAssumption, RouterAssumption DEF Attempts, Decisions

LEMMA ClosedPoints ==
    /\ AttemptPoints \subseteq Points /\ MainPoints \subseteq Points
    /\ AttemptPoints \cap MainPoints = {}
BY DEF AttemptPoints, SlotPoints, OpenPoints, EndPoints, MainPoints, ClosingPoints, Points

\* What is on file and in the tables stays when only the process moves.
LEMMA OnlyMoves ==
    ASSUME IInv, UNCHANGED <<files, rows, work, run>>, at' \in [pc : Points, k : Decisions],
           faults' \in 0..MaxFaults, RouterInv', billed' \in Nat,
           ledger' \in [calls : 0..MaxCalls, spent : BOOLEAN], PointInv'
    PROVE  IInv'
<1>1. TypeOK'
  BY DEF IInv, TypeOK, files, rows, work, run
<1>2. FilesInv' /\ TablesInv'
  BY DEF IInv, FilesInv, TablesInv, Begun, Reserved, Spent, AllMirrored, RepairsMatchRejections,
     files, rows, work, run
<1> QED
  BY <1>1, <1>2 DEF IInv

\* The same, while no model is being asked.
LEMMA Moves ==
    ASSUME IInv, UNCHANGED <<files, rows, work, run, faults, routerVars>>, at' \in [pc : Points, k : Decisions], PointInv'
    PROVE  IInv'
BY OnlyMoves DEF IInv, TypeOK, RouterInv, routerVars

LEMMA RouterSteps ==
    ASSUME IInv, RouterStep
    PROVE  IInv'
<1>1. UNCHANGED <<at, files, rows, work, run>> /\ call.at \in 1..Len(Route) /\ ~call.answered
  BY DEF RouterStep, RefuseCall, Request, Asked
<1>2. call \in [at : Nat, tries : Nat, attempts : Nat, answered : BOOLEAN]
  BY DEF IInv, RouterInv
<1>3. faults' \in 0..MaxFaults
  BY Values DEF RouterStep, IInv, TypeOK
<1>4. \/ call' = [call EXCEPT !.at = @ + 1, !.tries = 0, !.attempts = @ + 1]
      \/ call' = [call EXCEPT !.answered = TRUE, !.attempts = @ + 1]
      \/ call' = [call EXCEPT !.tries = @ + 1, !.attempts = @ + 1]
  BY DEF RouterStep, RefuseCall, Request, NextProvider
<1>5. RouterInv'
  <2>1. CASE call' = [call EXCEPT !.at = @ + 1, !.tries = 0, !.attempts = @ + 1]
    <3>1. call' = [at |-> call.at + 1, tries |-> 0, attempts |-> call.attempts + 1, answered |-> FALSE]
      BY <1>1, <1>2, <2>1
    <3>2. call.at + 1 \in Nat /\ call.attempts + 1 \in Nat
      BY <1>2
    <3> QED
      BY <3>1, <3>2 DEF RouterInv
  <2>2. CASE call' = [call EXCEPT !.answered = TRUE, !.attempts = @ + 1]
    <3>1. call' = [at |-> call.at, tries |-> call.tries, attempts |-> call.attempts + 1, answered |-> TRUE]
      BY <1>1, <1>2, <2>2
    <3>2. call.at \in Nat /\ call.tries \in Nat /\ call.attempts + 1 \in Nat
      BY <1>2
    <3> QED
      BY <1>1, <3>1, <3>2 DEF RouterInv
  <2>3. CASE call' = [call EXCEPT !.tries = @ + 1, !.attempts = @ + 1]
    <3>1. call' = [at |-> call.at, tries |-> call.tries + 1, attempts |-> call.attempts + 1, answered |-> FALSE]
      BY <1>1, <1>2, <2>3
    <3>2. call.at \in Nat /\ call.tries + 1 \in Nat /\ call.attempts + 1 \in Nat
      BY <1>2
    <3> QED
      BY <3>1, <3>2 DEF RouterInv
  <2> QED
    BY <1>4, <2>1, <2>2, <2>3
<1>6. \/ UNCHANGED <<ledger, billed>>
      \/ /\ ledger.calls < MaxCalls /\ billed' = billed + 1
         /\ \E spent \in BOOLEAN : ledger' = [calls |-> ledger.calls + 1, spent |-> spent]
  <2>1. CASE RefuseCall
    BY <2>1 DEF RefuseCall
  <2>2. ASSUME NEW outcome, Request(outcome)
        PROVE  \/ UNCHANGED <<ledger, billed>>
               \/ /\ ledger.calls < MaxCalls /\ billed' = billed + 1
                  /\ ledger' = [calls |-> ledger.calls + 1, spent |-> outcome = "overspent"]
    BY <2>2 DEF Request, WithinBudget
  <2>3. \A outcome : (outcome = "overspent") \in BOOLEAN
    OBVIOUS
  <2> QED
    BY <2>1, <2>2, <2>3 DEF RouterStep
<1>7. billed' \in Nat /\ ledger' \in [calls : 0..MaxCalls, spent : BOOLEAN]
  <2>1. ledger \in [calls : 0..MaxCalls, spent : BOOLEAN] /\ billed \in Nat /\ MaxCalls \in Nat
    BY Values DEF IInv, TypeOK
  <2>2. ledger.calls < MaxCalls => ledger.calls + 1 \in 0..MaxCalls
    BY <2>1
  <2> QED
    BY <1>6, <2>1, <2>2
<1>8. PointInv'
  BY <1>1 DEF IInv, PointInv, Begun, Reserved, AllMirrored, Misfiled, Foreign, files, rows, work, run
<1> QED
  BY <1>1, <1>3, <1>5, <1>7, <1>8, OnlyMoves DEF IInv, TypeOK

LEMMA KillStep ==
    ASSUME IInv, Kill
    PROVE  IInv'
<1>1. at' = [pc |-> "away", k |-> 0] /\ call' = NoCall /\ UNCHANGED <<files, rows, work, run, ledger, billed>>
  BY DEF Kill, GotoWith
<1>2. RouterInv' /\ faults' \in 0..MaxFaults
  BY <1>1, Values DEF RouterInv, NoCall, Kill, IInv, TypeOK
<1>3. PointInv'
  BY <1>1 DEF PointInv, AttemptPoints, SlotPoints, OpenPoints, EndPoints, MainPoints, ClosingPoints
<1> QED
  BY <1>1, <1>2, <1>3, Values, OnlyMoves DEF Points, IInv, TypeOK

LEMMA ReportStep ==
    ASSUME IInv, ReportFailure
    PROVE  IInv'
<1>1. at' = [pc |-> "away", k |-> 0]
  BY DEF ReportFailure, GotoWith
<1>2. PointInv'
  BY <1>1 DEF PointInv, AttemptPoints, SlotPoints, OpenPoints, EndPoints, MainPoints, ClosingPoints
<1> QED
  BY <1>1, <1>2, Values, Moves DEF ReportFailure, Points

\* A process counts what the run's table holds, which is a finite number.
LEMMA CountedCalls ==
    ASSUME IInv
    PROVE  Rehydrated \in Nat
<1> DEFINE Paying == {e \in mirrored : response[e].provider = Paid}
           Of(d) == {d} \X (1..response[d].attempts)
           f == [d \in Paying |-> Of(d)]
           Parts == {Of(d) : d \in Paying}
<1>1. IsFiniteSet(Decisions)
  <2>1. Decisions = 0..(MaxRepairs + 1)
    BY Values DEF Decisions, Attempts
  <2> QED
    BY <2>1, Values, FS_Interval
<1>2. IsFiniteSet(Paying)
  <2>1. Paying \subseteq Decisions
    BY DEF IInv, TypeOK
  <2> QED
    BY <1>1, <2>1, FS_Subset
<1>3. ASSUME NEW d \in Paying
      PROVE  IsFiniteSet(Of(d))
  <2>1. response[d].attempts \in Nat
    <3>1. response[d] \in Answers
      BY DEF IInv, TypeOK, TablesInv
    <3> QED
      BY <3>1 DEF Answers
  <2>2. IsFiniteSet(1..response[d].attempts)
    BY <2>1, FS_Interval
  <2>3. IsFiniteSet({d})
    BY FS_Singleton
  <2> QED
    BY <2>2, <2>3, FS_Product
<1>4. IsFiniteSet(Parts)
  <2>1. f \in Surjection(Paying, Parts)
    BY DEF Surjection
  <2> QED
    BY <1>2, <2>1, FS_Surjection
<1>5. IsFiniteSet(UNION Parts)
  BY <1>3, <1>4, FS_UNION
<1>6. UNION Parts = PaidRequests
  BY DEF PaidRequests
<1> QED
  BY <1>5, <1>6, FS_CardinalityType DEF Rehydrated

LEMMA EnterStep ==
    ASSUME IInv, Enter
    PROVE  IInv'
<1>1. UNCHANGED <<files, rows, work, run, faults, call, billed>> /\ main # "ABANDONED" /\ at.pc = "away" /\ at.k = 0
  BY DEF Enter, At, IInv, PointInv
<1>2. /\ at' \in [pc : Points, k : Decisions] /\ at'.k = 0
      /\ at'.pc = IF Exhausted THEN "final" ELSE IF main = "PREPARED" THEN "register" ELSE "propose"
  BY <1>1 DEF Enter, Goto, IInv, TypeOK, Points
<1>3. PointInv'
  <2>1. CASE Exhausted
    BY <1>1, <1>2, <2>1 DEF Exhausted, PointInv, AttemptPoints, SlotPoints, OpenPoints, EndPoints, MainPoints,
       ClosingPoints, rows, run
  <2>2. CASE ~Exhausted /\ main = "PREPARED"
    BY <1>1, <1>2, <2>2 DEF IInv, TablesInv, PointInv, AttemptPoints, SlotPoints, OpenPoints, EndPoints, MainPoints,
       ClosingPoints, rows, run, work, files, AllMirrored
  <2>3. CASE ~Exhausted /\ main # "PREPARED"
    <3>1. main = "absent"
      BY <1>1, <2>3 DEF Exhausted, IInv, TypeOK, TablesInv
    <3> QED
      BY <1>1, <1>2, <2>3, <3>1 DEF PointInv, AttemptPoints, SlotPoints, OpenPoints, EndPoints, MainPoints,
         ClosingPoints, run
  <2> QED
    BY <2>1, <2>2, <2>3
<1>4. ledger' \in [calls : 0..MaxCalls, spent : BOOLEAN]
  <2>1. PICK n \in 0..MaxCalls : ledger' = [FreshLedger EXCEPT !.calls = n]
    BY CountedCalls, Values DEF Enter
  <2> QED
    BY <2>1 DEF FreshLedger
<1>5. RouterInv'
  BY <1>1 DEF IInv, RouterInv
<1> QED
  BY <1>1, <1>2, <1>3, <1>4, <1>5, OnlyMoves DEF IInv, TypeOK

-----------------------------------------------------------------------------
(* The proposal, the worktree and the way to the attempts.                 *)

\* An exception that is not the end of the attempts leaves everything on file.
LEMMA Raised ==
    ASSUME IInv, NEW why \in Reasons \ {"exhausted"}, Raise(why), head = 0,
           UNCHANGED <<files, recorded, filed, repair, work, run>>, faults' \in 0..MaxFaults, RouterInv',
           billed' \in Nat, ledger' \in [calls : 0..MaxCalls, spent : BOOLEAN]
    PROVE  IInv'
<1>1. /\ at \in [pc : Points, k : Decisions] /\ at' = [at EXCEPT !.pc = "failed"]
      /\ tx \in [state : TxStates, reason : Reasons \cup {None}, patch : Decisions]
      /\ tx' = IF tx.state \in Failing THEN [tx EXCEPT !.state = "FAILED_REPAIRABLE", !.reason = why] ELSE tx
  BY DEF IInv, TypeOK, Raise, Goto
<1>2. at' \in [pc : Points, k : Decisions] /\ at'.pc = "failed"
  BY <1>1 DEF Points
<1>3. /\ tx' = tx \/ (tx.state \in Failing /\ tx'.state = "FAILED_REPAIRABLE" /\ tx'.reason = why)
      /\ tx' \in [state : TxStates, reason : Reasons \cup {None}, patch : Decisions]
  BY <1>1 DEF TxStates
<1>4. TypeOK'
  BY <1>2, <1>3 DEF IInv, TypeOK, files, work, run
<1>5. FilesInv'
  BY DEF IInv, FilesInv, Begun, Reserved, files
<1>6. TablesInv'
  <2>1. CASE tx' = tx
    BY <2>1 DEF IInv, TablesInv, Spent, AllMirrored, RepairsMatchRejections, files, work, run
  <2>2. CASE tx.state \in Failing /\ tx'.state = "FAILED_REPAIRABLE" /\ tx'.reason = why
    BY <2>2 DEF IInv, TablesInv, Spent, AllMirrored, RepairsMatchRejections, files, work, run, Failing, Moved
  <2> QED
    BY <1>3, <2>1, <2>2
<1>7. PointInv'
  BY <1>2 DEF PointInv, AttemptPoints, SlotPoints, OpenPoints, EndPoints, MainPoints, ClosingPoints
<1> QED
  BY <1>4, <1>5, <1>6, <1>7 DEF IInv

LEMMA RouterKept == IInv /\ UNCHANGED routerVars =>
    RouterInv' /\ billed' \in Nat /\ ledger' \in [calls : 0..MaxCalls, spent : BOOLEAN]
BY DEF IInv, TypeOK, RouterInv, routerVars

LEMMA AskStarts == Ask => RouterInv'
<1> SUFFICES ASSUME Ask PROVE RouterInv'
  OBVIOUS
<1>1. call' = [at |-> 1, tries |-> 0, attempts |-> 0, answered |-> FALSE]
  BY DEF Ask, NoCall
<1>2. call'.answered = FALSE
  BY <1>1
<1>3. call' \in [at : Nat, tries : Nat, attempts : Nat, answered : BOOLEAN]
  BY <1>1
<1> QED
  BY <1>2, <1>3 DEF RouterInv

\* While a preparation is under way the run's row is not there yet.
LEMMA BeforeMain ==
    ASSUME IInv, at.pc \notin MainPoints
    PROVE  main = "absent"
BY DEF IInv, PointInv

LEMMA ProposeStep ==
    ASSUME IInv, Propose
    PROVE  IInv'
<1>1. /\ at.pc = "propose" /\ at.k = 0 /\ main = "absent"
      /\ UNCHANGED <<files, rows, work, run, faults, ledger, billed>>
  BY BeforeMain DEF Propose, At, IInv, PointInv, MainPoints, ClosingPoints
<1> DEFINE Next0 == IF response[0] = None \/ Misfiled THEN "keep"
                    ELSE IF Foreign THEN "failed" ELSE IF tx.state = "none" THEN "create" ELSE "record"
<1>2. /\ at' = [pc |-> Next0, k |-> 0]
      /\ Ask \/ call' = call
  BY DEF Propose, GotoWith
<1>3. at' \in [pc : Points, k : Decisions] /\ at'.k = 0 /\ at'.pc = Next0
  BY <1>2, Values DEF Points
<1>4. RouterInv'
  BY <1>2, AskStarts DEF IInv, RouterInv
<1>5. /\ response[0] = None => tx.state = "none"
      /\ Misfiled => tx.state = "none"
      /\ Misfiled' = Misfiled
  BY <1>1 DEF IInv, TablesInv, Misfiled, Foreign, files, rows
<1> HIDE DEF Next0
<1>6. \/ at'.pc = "keep" /\ (response[0] = None \/ Misfiled)
      \/ at'.pc = "failed"
      \/ at'.pc = "create" /\ response[0] # None /\ tx.state = "none"
      \/ at'.pc = "record" /\ response[0] # None /\ tx.state # "none"
  BY <1>3 DEF Next0
<1>7. PointInv'
  BY <1>1, <1>3, <1>5, <1>6 DEF PointInv, AttemptPoints, SlotPoints, OpenPoints, EndPoints, MainPoints, ClosingPoints,
     files, rows, run
<1> QED
  BY <1>1, <1>3, <1>4, <1>7, OnlyMoves DEF IInv, TypeOK

LEMMA CreateStep ==
    ASSUME IInv, CreateExperiment
    PROVE  IInv'
<1>1. /\ at.pc = "create" /\ at.k = 0 /\ main = "absent" /\ response[0] # None /\ tx.state = "none"
      /\ UNCHANGED <<files, recorded, filed, repair, work, run, faults, routerVars>>
  BY BeforeMain DEF CreateExperiment, At, IInv, PointInv, MainPoints, ClosingPoints
<1>2. /\ at \in [pc : Points, k : Decisions]
      /\ tx \in [state : TxStates, reason : Reasons \cup {None}, patch : Decisions]
  BY DEF IInv, TypeOK
<1>3. CASE response[0].kind = "outside"
  <2>1. at' = [at EXCEPT !.pc = "failed"] /\ tx' = tx
    BY <1>3 DEF CreateExperiment, Goto
  <2>2. at' \in [pc : Points, k : Decisions] /\ at'.pc = "failed"
    BY <1>2, <2>1 DEF Points
  <2>3. PointInv'
    BY <2>2 DEF PointInv, AttemptPoints, SlotPoints, OpenPoints, EndPoints, MainPoints, ClosingPoints
  <2> QED
    BY <1>1, <2>1, <2>2, <2>3, Moves DEF rows
<1>4. CASE response[0].kind # "outside"
  <2>1. at' = [at EXCEPT !.pc = "record"] /\ tx' = [tx EXCEPT !.state = "PROPOSED"]
    BY <1>4 DEF CreateExperiment, Goto
  <2>2. at' \in [pc : Points, k : Decisions] /\ at'.pc = "record" /\ at'.k = 0
    BY <1>1, <1>2, <2>1 DEF Points
  <2>3. /\ tx'.state = "PROPOSED" /\ tx'.reason = tx.reason
        /\ tx' \in [state : TxStates, reason : Reasons \cup {None}, patch : Decisions]
    BY <1>2, <2>1 DEF TxStates
  <2>4. TypeOK'
    BY <1>1, <2>2, <2>3 DEF IInv, TypeOK, files, work, run, routerVars
  <2>5. FilesInv' /\ RouterInv'
    BY <1>1, RouterKept DEF IInv, FilesInv, Begun, Reserved, files
  <2>6. TablesInv'
    BY <1>1, <2>3 DEF IInv, TablesInv, Spent, AllMirrored, RepairsMatchRejections, files, work, run, Moved
  <2>7. PointInv'
    BY <1>1, <2>2, <2>3 DEF PointInv, AttemptPoints, SlotPoints, OpenPoints, EndPoints, MainPoints, ClosingPoints,
       files, run
  <2> QED
    BY <2>4, <2>5, <2>6, <2>7 DEF IInv
<1> QED
  BY <1>3, <1>4

LEMMA RecordStep ==
    ASSUME IInv, RecordDecision
    PROVE  IInv'
<1>1. /\ at.pc = "record" /\ main = "absent" /\ response[at.k] # None /\ recorded' = recorded \cup {at.k}
      /\ UNCHANGED <<files, tx, filed, repair, work, run, faults, routerVars>>
      /\ at.k = 0 => tx.state # "none"
      /\ at.k # 0 => tx.state = "WORKTREE_READY" /\ Begun(at.k) /\ Reserved(at.k)
  BY BeforeMain DEF RecordDecision, At, IInv, PointInv, MainPoints, ClosingPoints, AttemptPoints, SlotPoints
<1>2. /\ at' \in [pc : Points, k : Decisions] /\ at'.k = at.k /\ at.k \in Decisions
      /\ at'.pc = IF at.k = 0 THEN "worktree" ELSE "judge"
  BY DEF RecordDecision, Goto, IInv, TypeOK, Points
<1>3. TypeOK'
  BY <1>1, <1>2 DEF IInv, TypeOK, files, work, run, routerVars
<1>4. FilesInv' /\ RouterInv'
  BY <1>1, RouterKept DEF IInv, FilesInv, Begun, Reserved, files
<1>5. TablesInv'
  BY <1>1, <1>2 DEF IInv, TablesInv, Spent, AllMirrored, RepairsMatchRejections, files, work, run
<1>6. PointInv'
  BY <1>1, <1>2 DEF PointInv, AttemptPoints, SlotPoints, OpenPoints, EndPoints, MainPoints, ClosingPoints,
     files, run, Begun, Reserved
<1> QED
  BY <1>3, <1>4, <1>5, <1>6 DEF IInv

LEMMA WorkspaceStep ==
    ASSUME IInv, EnsureWorkspace
    PROVE  IInv'
<1>1. /\ at.pc = "worktree" /\ main = "absent" /\ 0 \in recorded /\ tx.state # "none"
      /\ UNCHANGED <<files, rows, head, run, faults, routerVars>>
  BY BeforeMain DEF EnsureWorkspace, At, IInv, PointInv, MainPoints, ClosingPoints
<1>2. /\ at' \in [pc : Points, k : Decisions] /\ at'.pc \in {"failed", "dispatch"}
      /\ tree' = tree \/ (tree = Absent /\ tree' = Clean)
  BY DEF EnsureWorkspace, Goto, IInv, TypeOK, Points
<1>3. TypeOK'
  BY <1>1, <1>2, Values DEF IInv, TypeOK, files, rows, run, routerVars, Clean
<1>4. FilesInv' /\ RouterInv'
  BY <1>1, RouterKept DEF IInv, FilesInv, Begun, Reserved, files, rows
<1>5. TablesInv'
  BY <1>1, <1>2 DEF IInv, TablesInv, Spent, AllMirrored, RepairsMatchRejections, files, rows, run, Clean, Dirty, Absent
<1>6. PointInv'
  BY <1>1, <1>2 DEF PointInv, AttemptPoints, SlotPoints, OpenPoints, EndPoints, MainPoints, ClosingPoints, rows, run
<1> QED
  BY <1>3, <1>4, <1>5, <1>6 DEF IInv

LEMMA DispatchStep ==
    ASSUME IInv, Dispatch
    PROVE  IInv'
<1>1. /\ at.pc = "dispatch" /\ main = "absent" /\ 0 \in recorded /\ tx.state # "none"
      /\ UNCHANGED <<files, recorded, filed, repair, work, run, faults, routerVars>>
      /\ at \in [pc : Points, k : Decisions]
      /\ tx \in [state : TxStates, reason : Reasons \cup {None}, patch : Decisions]
  BY BeforeMain DEF Dispatch, At, IInv, TypeOK, PointInv, MainPoints, ClosingPoints
<1>2. CASE tx' = tx
  <2>1. \/ tx.state = "WORKTREE_READY" /\ at' = [pc |-> "attempt", k |-> 1]
        \/ tx.state = "FIXTURE_VALID" /\ at' = [at EXCEPT !.pc = "commit"]
        \/ at' = [at EXCEPT !.pc = "failed"]
    BY <1>1, <1>2 DEF Dispatch, Goto, GotoWith
  <2>2. /\ at' \in [pc : Points, k : Decisions]
        /\ \/ tx.state = "WORKTREE_READY" /\ at'.pc = "attempt" /\ at'.k = 1
           \/ tx.state = "FIXTURE_VALID" /\ at'.pc = "commit"
           \/ at'.pc = "failed"
    BY <1>1, <2>1, Values DEF Points
  <2>3. \A k : k = 1 => Begun(k)
    BY DEF Begun
  <2>4. PointInv'
    BY <1>1, <1>2, <2>2, <2>3 DEF PointInv, Begun, AttemptPoints, SlotPoints, OpenPoints, EndPoints, MainPoints,
       ClosingPoints, run
  <2> QED
    BY <1>1, <1>2, <2>2, <2>4, Moves DEF rows
<1>3. CASE tx' # tx
  <2>1. PICK s : /\ tx' = [tx EXCEPT !.state = s] /\ at' = at
                 /\ \/ s = "WORKTREE_READY" /\ tx.state = "PROPOSED"
                    \/ s \in Moved /\ tx.state \in Moved
    BY <1>1, <1>3 DEF Dispatch, Moved
  <2>2. /\ tx'.state = s /\ tx'.reason = tx.reason /\ tx'.patch = tx.patch
        /\ tx' \in [state : TxStates, reason : Reasons \cup {None}, patch : Decisions]
    BY <1>1, <2>1 DEF TxStates, Moved
  <2>3. TypeOK'
    BY <1>1, <2>1, <2>2 DEF IInv, TypeOK, files, work, run, routerVars
  <2>4. FilesInv' /\ RouterInv'
    BY <1>1, RouterKept DEF IInv, FilesInv, Begun, Reserved, files
  <2>5. head = 0 \/ s = tx.state
    BY <1>1, <1>3, <2>1 DEF IInv, TablesInv, Dispatch, Moved
  <2>6. TablesInv'
    BY <1>1, <2>1, <2>2, <2>5 DEF IInv, TablesInv, Spent, AllMirrored, RepairsMatchRejections, files, work, run, Moved
  <2>7. PointInv'
    BY <1>1, <2>1, <2>2 DEF PointInv, AttemptPoints, SlotPoints, OpenPoints, EndPoints, MainPoints, ClosingPoints,
       run, Moved
  <2> QED
    BY <2>3, <2>4, <2>6, <2>7 DEF IInv
<1> QED
  BY <1>2, <1>3

-----------------------------------------------------------------------------
(* One attempt.                                                            *)

LEMMA InAttempt ==
    ASSUME IInv, at.pc \in AttemptPoints, at.k # 0
    PROVE  /\ at \in [pc : Points, k : Decisions] /\ at.k \in Attempts /\ at.k \in Decisions
           /\ main = "absent" /\ tx.state = "WORKTREE_READY" /\ head = 0 /\ tx.reason # "exhausted"
           /\ tx \in [state : TxStates, reason : Reasons \cup {None}, patch : Decisions]
           /\ Begun(at.k) /\ (at.pc # "attempt" => Reserved(at.k))
<1>1. at \in [pc : Points, k : Decisions] /\ tx \in [state : TxStates, reason : Reasons \cup {None}, patch : Decisions]
  BY DEF IInv, TypeOK
<1>2. at.k \in Attempts
  BY <1>1, Values
<1>3. main = "absent"
  BY BeforeMain, ClosedPoints
<1>4. tx.state = "WORKTREE_READY" /\ Begun(at.k) /\ (at.pc # "attempt" => Reserved(at.k))
  BY DEF IInv, PointInv
<1>5. head = 0 /\ tx.reason # "exhausted"
  BY <1>4 DEF IInv, TablesInv
<1> QED
  BY <1>1, <1>2, <1>3, <1>4, <1>5

\* Before a patch is taken only the worktree changes.
LEMMA TreeMoves ==
    ASSUME IInv, tx.state = "WORKTREE_READY", UNCHANGED <<files, rows, head, run, faults, routerVars>>,
           tree' \in {tree, Clean} \cup {Dirty(k) : k \in Attempts}, at' \in [pc : Points, k : Decisions], PointInv'
    PROVE  IInv'
<1>1. TypeOK'
  BY Values DEF IInv, TypeOK, files, rows, run, routerVars, Clean
<1>2. FilesInv' /\ RouterInv'
  BY RouterKept DEF IInv, FilesInv, Begun, Reserved, files, rows
<1>3. TablesInv'
  <2>1. head = 0
    BY DEF IInv, TablesInv
  <2> QED
    BY <2>1 DEF IInv, TablesInv, Spent, AllMirrored, RepairsMatchRejections, files, rows, run, Moved
<1> QED
  BY <1>1, <1>2, <1>3 DEF IInv

LEMMA BeginStep ==
    ASSUME IInv, BeginAttempt
    PROVE  IInv'
<1>1. at.pc = "attempt" /\ at.pc \in AttemptPoints /\ at.k # 0
  BY DEF BeginAttempt, At, IInv, PointInv, AttemptPoints, SlotPoints
<1>2. /\ at \in [pc : Points, k : Decisions] /\ at.k \in Attempts /\ main = "absent"
      /\ tx.state = "WORKTREE_READY" /\ head = 0 /\ tx.reason # "exhausted" /\ Begun(at.k)
  BY <1>1, InAttempt
<1>3. UNCHANGED <<files, recorded, filed, work, run, faults, routerVars>>
  BY DEF BeginAttempt
<1>4. CASE Raise("foreign") /\ repair' = repair
  BY <1>2, <1>3, <1>4, Raised, RouterKept DEF Reasons, IInv, TypeOK
<1>5. CASE ~(Raise("foreign") /\ repair' = repair)
  <2>1. /\ at' = [at EXCEPT !.pc = "decide"] /\ tx' = tx
        /\ repair' = [n \in DOMAIN repair |-> IF n = at.k - 1 /\ repair[n] = "none" THEN "open" ELSE repair[n]]
    BY <1>5 DEF BeginAttempt, Goto
  <2>2. at' \in [pc : Points, k : Decisions] /\ at'.pc = "decide" /\ at'.k = at.k
    BY <1>2, <2>1 DEF Points
  <2>3. /\ repair' \in [1..MaxRepairs -> {"none", "open", "done"}]
        /\ \A n \in 1..MaxRepairs : /\ repair[n] # "none" => repair'[n] = repair[n]
                                    /\ repair'[n] # "none" => repair[n] # "none" \/ n = at.k - 1
                                    /\ repair'[n] = "done" => repair[n] = "done"
        /\ at.k > 1 => repair'[at.k - 1] # "none"
    <3>1. repair \in [1..MaxRepairs -> {"none", "open", "done"}]
      BY DEF IInv, TypeOK
    <3>2. at.k > 1 => at.k - 1 \in 1..MaxRepairs
      BY <1>2, Values DEF Attempts
    <3> QED
      BY <2>1, <3>1, <3>2
  <2>4. TypeOK'
    BY <1>3, <2>1, <2>2, <2>3 DEF IInv, TypeOK, files, work, run, routerVars
  <2>5. FilesInv' /\ RouterInv'
    <3>1. ASSUME NEW k \in Attempts, Begun(k)
          PROVE  Begun(k)' /\ (Reserved(k) => Reserved(k)')
      <4>1. \A j \in 1..(k - 2) : j \in 1..MaxRepairs
        BY Values DEF Attempts
      <4>2. k > 1 => k - 1 \in 1..MaxRepairs
        BY Values DEF Attempts
      <4> QED
        BY <1>3, <2>3, <3>1, <4>1, <4>2 DEF Begun, Reserved, files
    <3> QED
      BY <1>3, <3>1, RouterKept DEF IInv, FilesInv, files
  <2>6. TablesInv'
    <3>1. ASSUME NEW n \in 1..MaxRepairs, n = at.k - 1
          PROVE  verdict[n] = "rejected"
      <4>1. n \in 1..(at.k - 1)
        BY <1>2, <3>1, Values
      <4> QED
        BY <1>2, <4>1 DEF Begun
    <3>2. RepairsMatchRejections'
      <4>1. ASSUME NEW n \in 1..MaxRepairs
            PROVE  /\ repair'[n] # "none" => verdict[n] = "rejected"
                   /\ repair'[n] = "done" => verdict[n + 1] # None
        BY <2>3, <3>1 DEF IInv, TablesInv, RepairsMatchRejections
      <4> QED
        BY <1>3, <4>1 DEF RepairsMatchRejections, files
    <3> QED
      BY <1>2, <1>3, <2>1, <3>2 DEF IInv, TablesInv, AllMirrored, files, work, run, Moved
  <2>7. Begun(at.k)' /\ Reserved(at.k)'
    <3>1. \A j \in 1..(at.k - 2) : j \in 1..MaxRepairs
      BY <1>2, Values DEF Attempts
    <3> QED
      BY <1>2, <1>3, <2>2, <2>3, <3>1 DEF Begun, Reserved, files
  <2>8. PointInv'
    <3>1. /\ at'.pc = "decide" /\ at'.k # 0 /\ tx'.state = "WORKTREE_READY" /\ main' = "absent"
      BY <1>2, <1>3, <2>1, <2>2, Values DEF run
    <3> QED
      BY <2>7, <3>1 DEF PointInv, AttemptPoints, SlotPoints, OpenPoints, EndPoints, MainPoints, ClosingPoints
  <2> QED
    BY <2>4, <2>5, <2>6, <2>8 DEF IInv
<1> QED
  BY <1>4, <1>5

LEMMA DecideStep ==
    ASSUME IInv, Decide
    PROVE  IInv'
<1>1. at.pc = "decide" /\ at.pc \in AttemptPoints /\ at.k # 0 /\ UNCHANGED <<files, rows, work, run, faults, ledger, billed>>
  BY DEF Decide, At, IInv, PointInv, AttemptPoints, SlotPoints
<1>2. /\ at \in [pc : Points, k : Decisions] /\ at.k \in Attempts /\ main = "absent"
      /\ tx.state = "WORKTREE_READY" /\ Begun(at.k) /\ Reserved(at.k)
  BY <1>1, InAttempt
<1>3. /\ at' \in [pc : Points, k : Decisions] /\ at'.k = at.k
      /\ \/ at'.pc = "record" /\ response[at.k] # None /\ call' = call
         \/ at'.pc = "keep" /\ response[at.k] = None /\ Ask
  BY <1>2 DEF Decide, Goto, Points
<1>4. RouterInv'
  BY <1>3, AskStarts DEF IInv, RouterInv
<1>5. PointInv'
  BY <1>1, <1>2, <1>3 DEF PointInv, Begun, Reserved, AttemptPoints, SlotPoints, OpenPoints, EndPoints, MainPoints,
     ClosingPoints, files, rows, run
<1> QED
  BY <1>1, <1>3, <1>4, <1>5, OnlyMoves DEF IInv, TypeOK

LEMMA KeepStep ==
    ASSUME IInv, NEW kind, NEW adds \in BOOLEAN, Keep(kind, adds)
    PROVE  IInv'
<1>1. /\ at.pc = "keep" /\ call.answered /\ (at.k # 0 => response[at.k] = None)
      /\ call' = NoCall /\ UNCHANGED <<gate, verdict, rows, work, run, faults, ledger, billed>>
  BY DEF Keep, At, Answered, IInv, PointInv
<1>2. /\ at \in [pc : Points, k : Decisions] /\ at.k \in Decisions /\ main = "absent"
      /\ at.k = 0 => tx.state = "none"
      /\ at.k # 0 => at.k \in Attempts /\ tx.state = "WORKTREE_READY" /\ Begun(at.k) /\ Reserved(at.k)
  BY <1>1, InAttempt, BeforeMain DEF AttemptPoints, SlotPoints, MainPoints, ClosingPoints, IInv, PointInv, TypeOK
<1>3. PICK answer \in Answers : /\ response' = [response EXCEPT ![at.k] = answer] /\ answer.kind = kind
  <2>1. Provider \in {Route[i] : i \in 1..Len(Route)} /\ call.attempts \in Nat
    BY <1>1 DEF IInv, RouterInv, Provider
  <2>2. kind \in Proposals \cup Patches
    BY DEF Keep
  <2>3. [kind |-> kind, adds |-> adds, provider |-> Provider, attempts |-> call.attempts] \in Answers
    BY <2>1, <2>2 DEF Answers
  <2> QED
    BY <2>3 DEF Keep
<1>4. /\ kind \in IF at.k = 0 THEN Proposals ELSE Patches
      /\ at' \in [pc : Points, k : Decisions] /\ at'.k = at.k
      /\ at'.pc = IF at.k = 0 THEN "create" ELSE "record"
  BY <1>2 DEF Keep, Goto, Points
<1>5. /\ response' \in [Decisions -> Answers \cup {None}]
      /\ \A d \in Decisions : response'[d] = IF d = at.k THEN answer ELSE response[d]
      /\ answer # None
  BY <1>2, <1>3, Values DEF IInv, TypeOK
<1>6. RouterInv'
  BY <1>1 DEF RouterInv, NoCall
<1>7. TypeOK'
  BY <1>1, <1>4, <1>5 DEF IInv, TypeOK, rows, work, run
<1>8. FilesInv'
  <2>1. \A k \in Attempts : response'[k] # None => response'[k].kind \in Patches /\ Begun(k) /\ Reserved(k)
    BY <1>2, <1>3, <1>4, <1>5, Values DEF IInv, FilesInv
  <2>2. \A k \in Attempts, g \in Gates : gate[k][g] # None => k # at.k
    BY <1>1, Values DEF IInv, FilesInv
  <2>3. \A k \in Attempts : verdict[k] # None => k # at.k
    BY <1>1, Values DEF IInv, FilesInv, TablesInv
  <2> QED
    BY <1>1, <1>5, <2>1, <2>2, <2>3, Values DEF IInv, FilesInv, Begun, Reserved, rows
<1>9. TablesInv'
  <2>1. /\ \A d \in recorded : response'[d] # None
        /\ tx.state # "none" => response'[0] # None
    BY <1>5, Values DEF IInv, TypeOK, TablesInv
  <2> QED
    BY <1>1, <1>2, <2>1 DEF IInv, TablesInv, Spent, RepairsMatchRejections, rows, work, run
<1>10. PointInv'
  <2>1. response'[at.k] # None
    BY <1>2, <1>5
  <2> QED
    BY <1>1, <1>2, <1>4, <2>1 DEF PointInv, Begun, Reserved, AttemptPoints, SlotPoints, OpenPoints, EndPoints, MainPoints,
       ClosingPoints, rows, run
<1> QED
  BY <1>6, <1>7, <1>8, <1>9, <1>10 DEF IInv

LEMMA NoAnswerStep ==
    ASSUME IInv, NoAnswer
    PROVE  IInv'
<1>1. /\ at.pc = "keep" /\ call' = NoCall
      /\ UNCHANGED <<files, recorded, filed, repair, work, run, faults, ledger, billed>>
  BY DEF NoAnswer, At
<1>2. RouterInv'
  BY <1>1 DEF RouterInv, NoCall
<1>3. CASE at.k = 0
  <2>1. at' = [at EXCEPT !.pc = "failed"] /\ tx' = tx
    BY <1>3 DEF NoAnswer, Goto
  <2>2. at' \in [pc : Points, k : Decisions] /\ at'.pc = "failed"
    BY <2>1 DEF IInv, TypeOK, Points
  <2>3. PointInv'
    BY <2>2 DEF PointInv, AttemptPoints, SlotPoints, OpenPoints, EndPoints, MainPoints, ClosingPoints
  <2> QED
    BY <1>1, <1>2, <2>1, <2>2, <2>3, OnlyMoves DEF IInv, TypeOK, rows
<1>4. CASE at.k # 0
  <2>1. Raise("provider") /\ head = 0
    BY <1>1, <1>4, InAttempt DEF NoAnswer, AttemptPoints, SlotPoints
  <2> QED
    BY <1>1, <1>2, <2>1, Raised DEF Reasons, IInv, TypeOK
<1> QED
  BY <1>3, <1>4

\* A step within an attempt stays in it.
LEMMA StaysInAttempt ==
    ASSUME IInv, at.pc \in AttemptPoints \ {"attempt"}, at.k # 0, UNCHANGED <<verdict, repair, tx, main>>,
           NEW point \in Points, at' = [at EXCEPT !.pc = point]
    PROVE  /\ at' \in [pc : Points, k : Decisions] /\ at'.pc = point /\ at'.k = at.k /\ at'.k # 0
           /\ tx'.state = "WORKTREE_READY" /\ main' = "absent" /\ Begun(at.k)' /\ Reserved(at.k)'
<1>1. at' \in [pc : Points, k : Decisions] /\ at'.pc = point /\ at'.k = at.k
  BY InAttempt
<1>2. Begun(at.k)' /\ Reserved(at.k)'
  BY <1>1, InAttempt DEF Begun, Reserved
<1> QED
  BY <1>1, <1>2, InAttempt

LEMMA JudgeStep ==
    ASSUME IInv, Judge
    PROVE  IInv'
<1>1. at.pc = "judge" /\ at.pc \in AttemptPoints /\ at.k # 0 /\ at.k \in recorded
  BY DEF Judge, At, IInv, PointInv, AttemptPoints, SlotPoints
<1>2. at.k \in Attempts /\ at \in [pc : Points, k : Decisions] /\ tx.state = "WORKTREE_READY" /\ head = 0
  BY <1>1, InAttempt
<1>3. UNCHANGED <<files, recorded, filed, repair, head, run, faults, routerVars>>
  BY DEF Judge
<1>4. CASE Raise("foreign") /\ tree' = tree
  BY <1>2, <1>3, <1>4, Raised, RouterKept DEF Reasons, IInv, TypeOK, work
<1>5. CASE ~(Raise("foreign") /\ tree' = tree)
  <2>1. /\ tx' = tx
        /\ \/ verdict[at.k] = None /\ tree' = tree /\ at' = [at EXCEPT !.pc = "apply"]
           \/ verdict[at.k] = "accepted" /\ tree' = Dirty(at.k) /\ at' = [at EXCEPT !.pc = "refile"]
           \/ verdict[at.k] = "rejected" /\ tree' = Clean /\ at' = [at EXCEPT !.pc = "refile"]
    BY <1>5 DEF Judge, Goto
  <2>2. PICK point \in {"apply", "refile"} : at' = [at EXCEPT !.pc = point]
    BY <2>1
  <2>3. point \in Points
    BY DEF Points
  <2>4. /\ at' \in [pc : Points, k : Decisions] /\ at'.pc = point /\ at'.k = at.k /\ at'.k # 0
        /\ tx'.state = "WORKTREE_READY" /\ main' = "absent" /\ Begun(at.k)' /\ Reserved(at.k)'
    BY <1>1, <1>3, <2>1, <2>2, <2>3, StaysInAttempt DEF files, run
  <2>5. /\ at'.pc = "apply" => verdict'[at'.k] = None
        /\ at'.pc = "refile" => verdict'[at'.k] # None /\ (verdict'[at'.k] = "accepted" => tree' = Dirty(at.k))
        /\ at'.k \in recorded'
    <3>1. at'.pc = "apply" <=> at' = [at EXCEPT !.pc = "apply"]
      BY <1>2, <2>2, <2>4
    <3> QED
      BY <1>1, <1>2, <1>3, <2>1, <2>4, <3>1, Values DEF files
  <2>6. PointInv'
    BY <2>4, <2>5 DEF PointInv, AttemptPoints, SlotPoints, OpenPoints, EndPoints, MainPoints, ClosingPoints, Dirty
  <2>7. tree' \in {tree, Clean} \cup {Dirty(k) : k \in Attempts}
    BY <1>2, <2>1
  <2> QED
    BY <1>2, <1>3, <2>1, <2>4, <2>6, <2>7, TreeMoves DEF rows
<1> QED
  BY <1>4, <1>5

LEMMA ApplyStep ==
    ASSUME IInv, Apply
    PROVE  IInv'
<1>1. at.pc = "apply" /\ at.pc \in AttemptPoints /\ at.k # 0 /\ at.k \in recorded /\ verdict[at.k] = None
  BY DEF Apply, At, IInv, PointInv, AttemptPoints, OpenPoints, SlotPoints
<1>2. at.k \in Attempts /\ at \in [pc : Points, k : Decisions] /\ tx.state = "WORKTREE_READY" /\ head = 0
  BY <1>1, InAttempt
<1>3. UNCHANGED <<files, recorded, filed, repair, head, run, faults, routerVars>>
  BY DEF Apply
<1>4. CASE Raise("foreign") /\ tree' = tree
  BY <1>2, <1>3, <1>4, Raised, RouterKept DEF Reasons, IInv, TypeOK, work
<1>5. CASE ~(Raise("foreign") /\ tree' = tree)
  <2>1. /\ tx' = tx
        /\ \/ tree' = tree /\ at' = [at EXCEPT !.pc = "reject"]
           \/ tree' = Dirty(at.k) /\ at' = [at EXCEPT !.pc = "audit"] /\ response[at.k].kind # "unappliable"
    BY <1>5 DEF Apply, Goto, Unappliable, Kind
  <2>2. PICK point \in {"reject", "audit"} : at' = [at EXCEPT !.pc = point]
    BY <2>1
  <2>3. point \in Points
    BY DEF Points
  <2>4. /\ at' \in [pc : Points, k : Decisions] /\ at'.pc = point /\ at'.k = at.k /\ at'.k # 0
        /\ tx'.state = "WORKTREE_READY" /\ main' = "absent" /\ Begun(at.k)' /\ Reserved(at.k)'
    BY <1>1, <1>3, <2>1, <2>2, <2>3, StaysInAttempt DEF files, run
  <2>5. /\ at'.pc = "audit" => tree' = Dirty(at.k) /\ response'[at'.k].kind # "unappliable"
        /\ at'.k \in recorded' /\ verdict'[at'.k] = None
    <3>1. at'.pc = "audit" <=> at' = [at EXCEPT !.pc = "audit"]
      BY <1>2, <2>2, <2>4
    <3> QED
      BY <1>1, <1>2, <1>3, <2>1, <2>4, <3>1 DEF files
  <2>6. PointInv'
    BY <2>4, <2>5 DEF PointInv, AttemptPoints, SlotPoints, OpenPoints, EndPoints, MainPoints, ClosingPoints, Dirty
  <2>7. tree' \in {tree, Clean} \cup {Dirty(k) : k \in Attempts}
    BY <1>2, <2>1
  <2> QED
    BY <1>2, <1>3, <2>1, <2>4, <2>6, <2>7, TreeMoves DEF rows
<1> QED
  BY <1>4, <1>5

LEMMA AuditStep ==
    ASSUME IInv, Audit
    PROVE  IInv'
<1>1. /\ at.pc = "audit" /\ at.pc \in AttemptPoints /\ at.k # 0 /\ at.k \in recorded /\ verdict[at.k] = None
      /\ tree = Dirty(at.k)
  BY DEF Audit, At, IInv, PointInv, AttemptPoints, OpenPoints, SlotPoints
<1>2. at.k \in Attempts /\ at \in [pc : Points, k : Decisions] /\ tx.state = "WORKTREE_READY" /\ head = 0
  BY <1>1, InAttempt
<1>3. UNCHANGED <<files, recorded, filed, repair, work, run, faults, routerVars>>
  BY DEF Audit
<1>4. CASE Raise("unsafe")
  BY <1>2, <1>3, <1>4, Raised, RouterKept DEF Reasons, IInv, TypeOK
<1>5. CASE ~Raise("unsafe")
  <2>1. /\ tx' = tx
        /\ \/ at' = [at EXCEPT !.pc = "restore"]
           \/ at' = [at EXCEPT !.pc = "gates"] /\ ~Unsafe /\ ~Unexecuted
    BY <1>5 DEF Audit, Goto
  <2>2. PICK point \in {"restore", "gates"} : at' = [at EXCEPT !.pc = point]
    BY <2>1
  <2>3. point \in Points
    BY DEF Points
  <2>4. /\ at' \in [pc : Points, k : Decisions] /\ at'.pc = point /\ at'.k = at.k /\ at'.k # 0
        /\ tx'.state = "WORKTREE_READY" /\ main' = "absent" /\ Begun(at.k)' /\ Reserved(at.k)'
    BY <1>1, <1>3, <2>1, <2>2, <2>3, StaysInAttempt DEF files, run
  <2>5. at'.pc = "gates" => response'[at'.k].kind \in Gated
    <3>1. response[at.k].kind \in Patches \ {"unappliable"}
      BY <1>1, <1>2 DEF IInv, PointInv, FilesInv, TablesInv
    <3>2. at'.pc = "gates" => ~Unsafe /\ ~Unexecuted
      BY <1>2, <2>1, <2>4
    <3> QED
      BY <1>3, <2>4, <3>1, <3>2 DEF Unsafe, Unexecuted, Kind, Patches, Gated, files
  <2>6. /\ at'.pc = "gates" => tree' = Dirty(at.k)
        /\ at'.k \in recorded' /\ verdict'[at'.k] = None
    BY <1>1, <1>3, <2>4 DEF files, work
  <2>7. PointInv'
    BY <2>4, <2>5, <2>6 DEF PointInv, AttemptPoints, SlotPoints, OpenPoints, EndPoints, MainPoints, ClosingPoints
  <2> QED
    BY <1>3, <2>1, <2>4, <2>7, Moves DEF rows
<1> QED
  BY <1>4, <1>5

LEMMA GateStep ==
    ASSUME IInv, NEW g \in Gates, RunGate(g)
    PROVE  IInv'
<1>1. /\ at.pc = "gates" /\ at.pc \in AttemptPoints /\ at.k # 0 /\ at.k \in recorded /\ verdict[at.k] = None
      /\ response[at.k].kind \in Gated /\ response[at.k] # None
  BY DEF RunGate, At, IInv, PointInv, TablesInv, AttemptPoints, OpenPoints, SlotPoints
<1>2. at.k \in Attempts
  BY <1>1, InAttempt
<1>3. /\ gate[at.k][g] = None /\ UNCHANGED <<at, response, verdict, rows, work, run, faults, routerVars>>
      /\ gate' = [gate EXCEPT ![at.k][g] = GateVerdict(g)]
  BY DEF RunGate
<1>4. gate \in [Attempts -> [Gates -> {"pass", "fail", None}]]
  BY DEF IInv, TypeOK
<1>5. GateVerdict(g) \in {"pass", "fail"} /\ (GateVerdict(g) = "pass" => response[at.k].kind # g)
  BY DEF GateVerdict, Kind
<1>6. \A k \in Attempts, h \in Gates : gate'[k][h] = IF k = at.k /\ h = g THEN GateVerdict(g) ELSE gate[k][h]
  BY <1>2, <1>3, <1>4
<1>7. gate' \in [Attempts -> [Gates -> {"pass", "fail", None}]]
  BY <1>2, <1>3, <1>4, <1>5
<1>8. TypeOK'
  BY <1>3, <1>7 DEF IInv, TypeOK, rows, work, run, routerVars
<1>9. FilesInv' /\ RouterInv'
  <2>1. \A k \in Attempts, h \in Gates : gate'[k][h] # None =>
          /\ response[k] # None /\ response[k].kind \in Gated
          /\ gate'[k][h] = "pass" => response[k].kind # h
    BY <1>1, <1>5, <1>6 DEF IInv, FilesInv
  <2>2. \A k \in Attempts : verdict[k] = "accepted" =>
          response[k].kind = "good" /\ \A h \in Gates : gate'[k][h] = "pass"
    <3>1. verdict[at.k] # "accepted"
      BY <1>1, Values
    <3> QED
      BY <1>6, <3>1 DEF IInv, FilesInv
  <2> QED
    BY <1>3, <2>1, <2>2, RouterKept DEF IInv, FilesInv, Begun, Reserved, rows
<1>10. TablesInv'
  BY <1>3 DEF IInv, TablesInv, Spent, AllMirrored, RepairsMatchRejections, rows, work, run
<1>11. PointInv'
  BY <1>1, <1>3 DEF IInv, PointInv, Begun, Reserved, AllMirrored, AttemptPoints, SlotPoints, OpenPoints, EndPoints,
     MainPoints, ClosingPoints, rows, work, run
<1> QED
  BY <1>8, <1>9, <1>10, <1>11 DEF IInv

LEMMA GateFailsStep ==
    ASSUME IInv, GateFails
    PROVE  IInv'
<1>1. at.pc = "gates" /\ at.pc \in AttemptPoints /\ at.k # 0
  BY DEF GateFails, At, IInv, PointInv, AttemptPoints, OpenPoints, SlotPoints
<1>2. faults' \in 0..MaxFaults
  BY Values DEF GateFails, IInv, TypeOK
<1>3. Raise("host") /\ UNCHANGED <<files, recorded, filed, repair, work, run, routerVars>>
  BY DEF GateFails
<1> QED
  BY <1>1, <1>2, <1>3, InAttempt, Raised, RouterKept DEF Reasons

LEMMA JudgeGatesStep ==
    ASSUME IInv, JudgeGates
    PROVE  IInv'
<1>1. /\ at.pc = "gates" /\ at.pc \in AttemptPoints /\ at.k # 0 /\ at.k \in recorded /\ verdict[at.k] = None
      /\ tree = Dirty(at.k) /\ response[at.k].kind \in Gated
  BY DEF JudgeGates, At, IInv, PointInv, AttemptPoints, OpenPoints, SlotPoints
<1>2. at.k \in Attempts /\ at \in [pc : Points, k : Decisions]
  BY <1>1, InAttempt
<1>3. UNCHANGED <<files, rows, work, run, faults, routerVars>>
  BY DEF JudgeGates
<1>4. \/ at' = [at EXCEPT !.pc = "restore"]
      \/ at' = [at EXCEPT !.pc = "accept"] /\ \A g \in Gates : gate[at.k][g] = "pass"
  BY DEF JudgeGates, Goto
<1>5. PICK point \in {"restore", "accept"} : at' = [at EXCEPT !.pc = point]
  BY <1>4
<1>6. point \in Points
  BY DEF Points
<1>7. /\ at' \in [pc : Points, k : Decisions] /\ at'.pc = point /\ at'.k = at.k /\ at'.k # 0
      /\ tx'.state = "WORKTREE_READY" /\ main' = "absent" /\ Begun(at.k)' /\ Reserved(at.k)'
  BY <1>1, <1>3, <1>5, <1>6, StaysInAttempt DEF files, rows, run
<1>8. /\ at'.pc = "accept" => \A g \in Gates : gate'[at'.k][g] = "pass"
      /\ tree' = Dirty(at.k) /\ at'.k \in recorded' /\ verdict'[at'.k] = None /\ response'[at'.k].kind \in Gated
  BY <1>1, <1>2, <1>3, <1>4, <1>7 DEF files, rows, work
<1>9. PointInv'
  BY <1>7, <1>8 DEF PointInv, AttemptPoints, SlotPoints, OpenPoints, EndPoints, MainPoints, ClosingPoints
<1> QED
  BY <1>3, <1>7, <1>9, Moves

LEMMA RestoreStep ==
    ASSUME IInv, Restore
    PROVE  IInv'
<1>1. /\ at.pc = "restore" /\ at.pc \in AttemptPoints /\ at.k # 0 /\ at.k \in recorded /\ verdict[at.k] = None
  BY DEF Restore, At, IInv, PointInv, AttemptPoints, OpenPoints, SlotPoints
<1>2. /\ at' = [at EXCEPT !.pc = "reject"] /\ tree' = Clean
      /\ UNCHANGED <<files, rows, head, run, faults, routerVars>> /\ "reject" \in Points
  BY DEF Restore, Goto, Points
<1>3. /\ at' \in [pc : Points, k : Decisions] /\ at'.pc = "reject" /\ at'.k = at.k /\ at'.k # 0
      /\ tx'.state = "WORKTREE_READY" /\ main' = "absent" /\ Begun(at.k)' /\ Reserved(at.k)'
  BY <1>1, <1>2, StaysInAttempt DEF files, rows, run
<1>4. at'.k \in recorded' /\ verdict'[at'.k] = None
  BY <1>1, <1>2, <1>3 DEF files, rows
<1>5. PointInv'
  BY <1>3, <1>4 DEF PointInv, AttemptPoints, SlotPoints, OpenPoints, EndPoints, MainPoints, ClosingPoints
<1> QED
  BY <1>1, <1>2, <1>3, <1>5, InAttempt, TreeMoves

LEMMA VerdictStep ==
    ASSUME IInv, NEW v \in {"accepted", "rejected"}, WriteVerdict(v)
    PROVE  IInv'
<1>1. /\ at.pc = IF v = "rejected" THEN "reject" ELSE "accept"
      /\ at.pc \in AttemptPoints /\ at.k # 0 /\ at.k \in recorded /\ verdict[at.k] = None
      /\ v = "accepted" => /\ tree = Dirty(at.k) /\ response[at.k].kind \in Gated
                           /\ \A g \in Gates : gate[at.k][g] = "pass"
  BY DEF WriteVerdict, At, IInv, PointInv, AttemptPoints, OpenPoints, SlotPoints
<1>2. /\ at \in [pc : Points, k : Decisions] /\ at.k \in Attempts /\ main = "absent" /\ head = 0
      /\ tx.state = "WORKTREE_READY" /\ Begun(at.k) /\ Reserved(at.k) /\ tx.reason # "exhausted"
  BY <1>1, InAttempt
<1>3. /\ verdict' = [verdict EXCEPT ![at.k] = v] /\ at' = [at EXCEPT !.pc = "file"]
      /\ UNCHANGED <<response, gate, rows, work, run, faults, routerVars>>
  BY DEF WriteVerdict, Goto
<1>4. verdict \in [Attempts -> {"accepted", "rejected", None}]
  BY DEF IInv, TypeOK
<1>5. /\ verdict' \in [Attempts -> {"accepted", "rejected", None}]
      /\ \A k \in Attempts : verdict'[k] = IF k = at.k THEN v ELSE verdict[k]
      /\ v # None
  BY <1>2, <1>3, <1>4, Values
<1>6. at' \in [pc : Points, k : Decisions] /\ at'.pc = "file" /\ at'.k = at.k
  BY <1>2, <1>3 DEF Points
<1>7. TypeOK'
  BY <1>3, <1>5, <1>6 DEF IInv, TypeOK, rows, work, run, routerVars
<1>8. \A k \in Attempts : verdict[k] # None => verdict'[k] = verdict[k]
  BY <1>1, <1>5
<1>9. ASSUME NEW k \in Attempts, Begun(k)
      PROVE  Begun(k)'
  <2>1. \A j \in 1..(k - 1) : j \in Attempts
    BY Values DEF Attempts
  <2>2. \A j \in 1..(k - 1) : verdict'[j] = "rejected"
    BY <1>8, <1>9, <2>1, Values DEF Begun
  <2> QED
    BY <1>3, <1>9, <2>2 DEF Begun, rows
<1>10. v = "accepted" => response[at.k].kind = "good"
  <2>1. ASSUME v = "accepted", NEW g \in Gates
        PROVE  response[at.k].kind # g
    <3>1. gate[at.k][g] = "pass" /\ "pass" # None
      BY <1>1, <2>1, Values
    <3> QED
      BY <1>2, <3>1 DEF IInv, FilesInv
  <2> QED
    BY <1>1, <2>1 DEF Gates, Gated
<1>11. FilesInv' /\ RouterInv'
  <2>1. \A k \in Attempts : response[k] # None => response[k].kind \in Patches /\ Begun(k)' /\ Reserved(k)'
    BY <1>3, <1>9 DEF IInv, FilesInv, Reserved, rows
  <2>2. \A k \in Attempts : verdict'[k] # None => k \in recorded
    BY <1>1, <1>5 DEF IInv, FilesInv
  <2>3. \A k \in Attempts : verdict'[k] = "accepted" =>
          response[k].kind = "good" /\ \A g \in Gates : gate[k][g] = "pass"
    BY <1>1, <1>5, <1>10 DEF IInv, FilesInv
  <2> QED
    BY <1>3, <2>1, <2>2, <2>3, RouterKept DEF IInv, FilesInv, rows
<1>12. TablesInv'
  <2>1. RepairsMatchRejections'
    <3>1. \A n \in 1..MaxRepairs : n \in Attempts /\ n + 1 \in Attempts
      BY Values DEF Attempts
    <3> QED
      BY <1>3, <1>8, <3>1, Values DEF IInv, TablesInv, RepairsMatchRejections, rows
  <2> QED
    BY <1>2, <1>3, <2>1 DEF IInv, TablesInv, AllMirrored, rows, work, run, Moved
<1>13. PointInv'
  <2>1. /\ at'.k # 0 /\ tx'.state = "WORKTREE_READY" /\ main' = "absent" /\ Begun(at.k)' /\ Reserved(at.k)'
    BY <1>2, <1>3, <1>6, <1>9, Values DEF Reserved, rows, run
  <2>2. verdict'[at'.k] # None /\ (verdict'[at'.k] = "accepted" => tree' = Dirty(at'.k))
    BY <1>1, <1>2, <1>3, <1>5, <1>6 DEF work
  <2> QED
    BY <1>6, <2>1, <2>2 DEF PointInv, AttemptPoints, SlotPoints, OpenPoints, EndPoints, MainPoints, ClosingPoints
<1> QED
  BY <1>7, <1>11, <1>12, <1>13 DEF IInv

LEMMA FileStep ==
    ASSUME IInv, FileVerdict
    PROVE  IInv'
<1>1. /\ at.pc \in {"file", "refile"} /\ at.pc \in AttemptPoints /\ at.k # 0 /\ verdict[at.k] # None
      /\ verdict[at.k] = "accepted" => tree = Dirty(at.k)
  BY DEF FileVerdict, At, IInv, PointInv, AttemptPoints, EndPoints, OpenPoints, SlotPoints
<1>2. at.k \in Attempts
  BY <1>1, InAttempt
<1>3. /\ at' = [at EXCEPT !.pc = "settle"] /\ filed' \in {filed, filed \cup {at.k}}
      /\ UNCHANGED <<files, tx, recorded, repair, work, run, faults, routerVars>> /\ "settle" \in Points
  BY DEF FileVerdict, Goto, Points
<1>4. /\ at' \in [pc : Points, k : Decisions] /\ at'.pc = "settle" /\ at'.k = at.k /\ at'.k # 0
      /\ tx'.state = "WORKTREE_READY" /\ main' = "absent" /\ Begun(at.k)' /\ Reserved(at.k)'
  BY <1>1, <1>3, StaysInAttempt DEF files, run
<1>5. TypeOK'
  BY <1>2, <1>3, <1>4 DEF IInv, TypeOK, files, work, run, routerVars
<1>6. FilesInv' /\ RouterInv'
  BY <1>3, RouterKept DEF IInv, FilesInv, Begun, Reserved, files
<1>7. TablesInv'
  BY <1>3 DEF IInv, TablesInv, Spent, AllMirrored, RepairsMatchRejections, files, work, run
<1>8. PointInv'
  BY <1>1, <1>3, <1>4 DEF PointInv, AttemptPoints, SlotPoints, OpenPoints, EndPoints, MainPoints, ClosingPoints, files, work
<1> QED
  BY <1>5, <1>6, <1>7, <1>8 DEF IInv

LEMMA SettleStep ==
    ASSUME IInv, Settle
    PROVE  IInv'
<1>1. /\ at.pc = "settle" /\ at.pc \in AttemptPoints /\ at.k # 0 /\ verdict[at.k] # None
      /\ verdict[at.k] = "accepted" => tree = Dirty(at.k)
  BY DEF Settle, At, IInv, PointInv, AttemptPoints, EndPoints, OpenPoints, SlotPoints
<1>2. /\ at \in [pc : Points, k : Decisions] /\ at.k \in Attempts /\ main = "absent" /\ head = 0
      /\ tx.state = "WORKTREE_READY" /\ Begun(at.k) /\ Reserved(at.k) /\ tx.reason # "exhausted"
      /\ tx \in [state : TxStates, reason : Reasons \cup {None}, patch : Decisions]
  BY <1>1, InAttempt
<1>3. UNCHANGED <<files, recorded, filed, work, run, faults, routerVars>>
  BY DEF Settle
<1>4. at.k \in 1..(MaxRepairs + 1) /\ MaxRepairs \in Nat
  BY <1>2, Values DEF Attempts
<1>5. /\ repair' \in [1..MaxRepairs -> {"none", "open", "done"}]
      /\ \A n \in 1..MaxRepairs : repair'[n] = IF n = at.k - 1 THEN "done" ELSE repair[n]
  BY DEF Settle, IInv, TypeOK
<1>6. /\ \A n \in 1..MaxRepairs : repair[n] = "done" => repair'[n] = "done"
      /\ \A n \in 1..MaxRepairs : repair[n] # "none" => repair'[n] # "none"
      /\ \A n \in 1..(at.k - 1) : repair'[n] = "done"
  <2>1. ASSUME NEW n \in 1..(at.k - 1)
        PROVE  repair'[n] = "done"
    <3>1. n \in 1..MaxRepairs /\ (n = at.k - 1 \/ n \in 1..(at.k - 2))
      BY <1>4
    <3> QED
      BY <1>2, <1>5, <3>1 DEF Begun
  <2> QED
    BY <1>5, <2>1
<1>7. ASSUME NEW k \in Attempts
      PROVE  (Begun(k) => Begun(k)') /\ (Reserved(k) => Reserved(k)')
  <2>1. \A j \in 1..(k - 2) : j \in 1..MaxRepairs
    BY Values DEF Attempts
  <2>2. k > 1 => k - 1 \in 1..MaxRepairs
    BY Values DEF Attempts
  <2> QED
    BY <1>3, <1>6, <2>1, <2>2 DEF Begun, Reserved, files
<1>8. FilesInv' /\ RouterInv'
  BY <1>3, <1>7, RouterKept DEF IInv, FilesInv, files
<1>9. RepairsMatchRejections'
  <2>1. ASSUME NEW n \in 1..MaxRepairs
        PROVE  /\ repair'[n] # "none" => verdict[n] = "rejected"
               /\ repair'[n] = "done" => verdict[n + 1] # None
    <3>1. CASE n = at.k - 1
      <4>1. n \in 1..(at.k - 1) /\ n + 1 = at.k
        BY <1>4, <3>1
      <4> QED
        BY <1>1, <1>2, <4>1 DEF Begun
    <3>2. CASE n # at.k - 1
      BY <1>5, <3>2 DEF IInv, TablesInv, RepairsMatchRejections
    <3> QED
      BY <3>1, <3>2
  <2> QED
    BY <1>3, <2>1 DEF RepairsMatchRejections, files
<1>10. CASE verdict[at.k] = "accepted"
  <2>1. at' = [at EXCEPT !.pc = "publish"] /\ tx' = tx
    BY <1>10 DEF Settle, Goto
  <2>2. at' \in [pc : Points, k : Decisions] /\ at'.pc = "publish" /\ at'.k = at.k
    BY <1>2, <2>1 DEF Points
  <2>3. TypeOK'
    BY <1>3, <1>5, <2>1, <2>2 DEF IInv, TypeOK, files, work, run, routerVars
  <2>4. TablesInv'
    BY <1>2, <1>3, <1>9, <2>1 DEF IInv, TablesInv, AllMirrored, files, work, run, Moved
  <2>5. /\ at'.k # 0 /\ tx'.state = "WORKTREE_READY" /\ main' = "absent" /\ Begun(at.k)' /\ Reserved(at.k)'
        /\ verdict'[at'.k] = "accepted" /\ tree' = Dirty(at'.k)
    BY <1>1, <1>2, <1>3, <1>7, <1>10, <2>1, <2>2 DEF files, run, work
  <2>6. PointInv'
    BY <2>2, <2>5 DEF PointInv, AttemptPoints, SlotPoints, OpenPoints, EndPoints, MainPoints, ClosingPoints
  <2> QED
    BY <1>8, <2>3, <2>4, <2>6 DEF IInv
<1>11. CASE verdict[at.k] # "accepted" /\ at.k \in 1..MaxRepairs
  <2>1. verdict[at.k] = "rejected"
    BY <1>1, <1>2, <1>11 DEF IInv, TypeOK
  <2>2. at' = [pc |-> "attempt", k |-> at.k + 1] /\ tx' = tx
    BY <1>11, <2>1 DEF Settle, GotoWith
  <2>3. at.k + 1 \in Decisions /\ at.k + 1 # 0
    BY <1>4, <1>11 DEF Decisions, Attempts
  <2>4. at' \in [pc : Points, k : Decisions] /\ at'.pc = "attempt" /\ at'.k = at.k + 1
    BY <2>2, <2>3 DEF Points
  <2>5. TypeOK'
    BY <1>3, <1>5, <2>2, <2>4 DEF IInv, TypeOK, files, work, run, routerVars
  <2>6. TablesInv'
    BY <1>2, <1>3, <1>9, <2>2 DEF IInv, TablesInv, AllMirrored, files, work, run, Moved
  <2>7. Begun(at.k)'
    <3>1. ASSUME NEW j \in 1..at.k
          PROVE  verdict[j] = "rejected"
      <4>1. j = at.k \/ j \in 1..(at.k - 1)
        BY <1>4
      <4> QED
        BY <1>2, <2>1, <4>1 DEF Begun
    <3>2. at'.k - 1 = at.k /\ at'.k - 2 = at.k - 1
      BY <1>4, <2>4
    <3> QED
      BY <1>3, <1>6, <3>1, <3>2 DEF Begun, files
  <2>8. PointInv'
    <3>1. at'.k # 0 /\ tx'.state = "WORKTREE_READY" /\ main' = "absent"
      BY <1>2, <1>3, <2>2, <2>3, <2>4 DEF run
    <3> QED
      BY <2>4, <2>7, <3>1 DEF PointInv, AttemptPoints, SlotPoints, OpenPoints, EndPoints, MainPoints, ClosingPoints
  <2> QED
    BY <1>8, <2>5, <2>6, <2>8 DEF IInv
<1>12. CASE verdict[at.k] # "accepted" /\ at.k \notin 1..MaxRepairs
  <2>1. verdict[at.k] = "rejected" /\ at.k = MaxRepairs + 1
    BY <1>1, <1>2, <1>4, <1>12 DEF IInv, TypeOK
  <2>2. tx' = [tx EXCEPT !.state = "FAILED_REPAIRABLE", !.reason = "exhausted"] /\ at' = [at EXCEPT !.pc = "final"]
    BY <1>2, <1>12 DEF Settle, Raise, Goto, Failing
  <2>3. at' \in [pc : Points, k : Decisions] /\ at'.pc = "final"
    BY <1>2, <2>2 DEF Points
  <2>4. /\ tx' \in [state : TxStates, reason : Reasons \cup {None}, patch : Decisions]
        /\ tx'.state = "FAILED_REPAIRABLE" /\ tx'.reason = "exhausted"
    BY <1>2, <2>2 DEF TxStates, Reasons
  <2>5. TypeOK'
    BY <1>3, <1>5, <2>3, <2>4 DEF IInv, TypeOK, files, work, run, routerVars
  <2>6. Spent'
    <3>1. ASSUME NEW j \in Attempts
          PROVE  verdict[j] = "rejected"
      <4>1. j = at.k \/ j \in 1..(at.k - 1)
        BY <1>4, <2>1 DEF Attempts
      <4> QED
        BY <1>2, <2>1, <4>1 DEF Begun
    <3>2. \A n \in 1..MaxRepairs : n \in 1..(at.k - 1)
      BY <1>4, <2>1
    <3> QED
      BY <1>2, <1>3, <1>6, <3>1, <3>2 DEF Spent, files, work
  <2>7. TablesInv'
    BY <1>2, <1>3, <1>9, <2>4, <2>6 DEF IInv, TablesInv, AllMirrored, files, work, run, Moved
  <2>8. PointInv'
    BY <1>2, <1>3, <2>3, <2>4 DEF PointInv, AttemptPoints, SlotPoints, OpenPoints, EndPoints, MainPoints, ClosingPoints, run
  <2> QED
    BY <1>8, <2>5, <2>7, <2>8 DEF IInv
<1> QED
  BY <1>10, <1>11, <1>12

LEMMA PublishStep ==
    ASSUME IInv, Publish
    PROVE  IInv'
<1>1. at.pc = "publish" /\ at.pc \in AttemptPoints /\ at.k # 0 /\ verdict[at.k] = "accepted" /\ tree = Dirty(at.k)
  BY DEF Publish, At, IInv, PointInv, AttemptPoints, EndPoints, OpenPoints, SlotPoints
<1>2. /\ at \in [pc : Points, k : Decisions] /\ at.k \in Attempts /\ at.k \in Decisions /\ main = "absent" /\ head = 0
      /\ tx.state = "WORKTREE_READY" /\ tx.reason # "exhausted"
      /\ tx \in [state : TxStates, reason : Reasons \cup {None}, patch : Decisions]
  BY <1>1, InAttempt
<1>3. /\ tx' = [tx EXCEPT !.state = "PATCHED", !.patch = at.k] /\ at' = [at EXCEPT !.pc = "dispatch"]
      /\ UNCHANGED <<files, recorded, filed, repair, work, run, faults, routerVars>>
  BY DEF Publish, Goto
<1>4. /\ tx' \in [state : TxStates, reason : Reasons \cup {None}, patch : Decisions]
      /\ tx'.state = "PATCHED" /\ tx'.patch = at.k /\ tx'.reason = tx.reason
  BY <1>2, <1>3 DEF TxStates
<1>5. at' \in [pc : Points, k : Decisions] /\ at'.pc = "dispatch"
  BY <1>2, <1>3 DEF Points
<1>6. TypeOK'
  BY <1>3, <1>4, <1>5 DEF IInv, TypeOK, files, work, run, routerVars
<1>7. FilesInv' /\ RouterInv'
  BY <1>3, RouterKept DEF IInv, FilesInv, Begun, Reserved, files
<1>8. 0 \in recorded
  BY <1>2 DEF IInv, TablesInv
<1>9. TablesInv'
  BY <1>1, <1>2, <1>3, <1>4, <1>8 DEF IInv, TablesInv, AllMirrored, RepairsMatchRejections, files, work, run, Moved
<1>10. PointInv'
  BY <1>2, <1>3, <1>4, <1>5, <1>8 DEF PointInv, AttemptPoints, SlotPoints, OpenPoints, EndPoints, MainPoints,
     ClosingPoints, run
<1> QED
  BY <1>6, <1>7, <1>9, <1>10 DEF IInv

-----------------------------------------------------------------------------
(* The commit, the run's own tables and the end of a spent transaction.    *)

\* All the decisions of a committed or a spent transaction have their rows.
LEMMA AllRecorded ==
    ASSUME IInv, head # 0 \/ tx.state = "FAILED_FINAL"
    PROVE  \A d \in Decisions : response[d] # None => d \in recorded
<1>1. 0 \in recorded
  BY DEF IInv, TablesInv
<1>2. ASSUME NEW k \in Attempts, response[k] # None
      PROVE  verdict[k] # None
  <2>1. CASE tx.state = "FAILED_FINAL"
    BY <2>1, Values DEF IInv, TablesInv, Spent
  <2>2. CASE head # 0
    <3>1. head \in Attempts /\ verdict[head] = "accepted"
      BY <2>2 DEF IInv, TablesInv, Moved
    <3>2. head \in recorded
      BY <3>1, Values DEF IInv, FilesInv
    <3>3. Begun(head) /\ Begun(k)
      BY <1>2, <3>1, <3>2 DEF IInv, FilesInv, TablesInv
    <3>4. head \notin 1..(k - 1)
      BY <3>1, <3>3 DEF Begun
    <3>5. k = head \/ k \in 1..(head - 1)
      BY <3>1, <3>4 DEF Attempts
    <3> QED
      BY <3>1, <3>3, <3>5, Values DEF Begun
  <2> QED
    BY <2>1, <2>2
<1> QED
  BY <1>1, <1>2, Values DEF IInv, FilesInv

LEMMA CommitStep ==
    ASSUME IInv, Commit
    PROVE  IInv'
<1>1. /\ at.pc = "commit" /\ tx.state = "FIXTURE_VALID" /\ main = "absent" /\ at \in [pc : Points, k : Decisions]
      /\ UNCHANGED <<files, recorded, filed, repair, run, faults, routerVars>>
  BY BeforeMain DEF Commit, At, IInv, PointInv, TypeOK, MainPoints, ClosingPoints
<1>2. CASE tree.patch # 0
  <2>1. tx.patch \in Attempts /\ tree.patch = tx.patch /\ tx.patch # 0
    BY <1>1, <1>2, Values DEF IInv, TablesInv, Moved, Absent, Gone, Clean, Dirty
  <2>2. head' = tx.patch /\ tree' = Clean /\ tx' = tx /\ at' = [at EXCEPT !.pc = "stamp"]
    BY <1>2, <2>1 DEF Commit, Goto
  <2>3. at' \in [pc : Points, k : Decisions] /\ at'.pc = "stamp"
    BY <1>1, <2>2 DEF Points
  <2>4. TypeOK'
    BY <1>1, <2>1, <2>2, <2>3, Values DEF IInv, TypeOK, files, run, routerVars, Clean
  <2>5. FilesInv' /\ RouterInv'
    BY <1>1, RouterKept DEF IInv, FilesInv, Begun, Reserved, files
  <2>6. TablesInv'
    BY <1>1, <2>1, <2>2 DEF IInv, TablesInv, AllMirrored, RepairsMatchRejections, files, run, Clean, Dirty
  <2>7. PointInv'
    BY <1>1, <2>1, <2>2, <2>3 DEF PointInv, AttemptPoints, SlotPoints, OpenPoints, EndPoints, MainPoints, ClosingPoints, run
  <2> QED
    BY <2>4, <2>5, <2>6, <2>7 DEF IInv
<1>3. CASE tree.patch = 0 /\ head # 0
  <2>1. UNCHANGED <<tx, work>> /\ at' = [at EXCEPT !.pc = "stamp"]
    BY <1>3 DEF Commit, Goto
  <2>2. at' \in [pc : Points, k : Decisions] /\ at'.pc = "stamp"
    BY <1>1, <2>1 DEF Points
  <2>3. PointInv'
    BY <1>1, <1>3, <2>1, <2>2 DEF PointInv, AttemptPoints, SlotPoints, OpenPoints, EndPoints, MainPoints, ClosingPoints,
       run, work
  <2> QED
    BY <1>1, <2>1, <2>2, <2>3, Moves DEF rows
<1>4. CASE tree.patch = 0 /\ head = 0
  <2>1. Raise("lost") /\ UNCHANGED work
    BY <1>4 DEF Commit
  <2> QED
    BY <1>1, <1>4, <2>1, Raised, RouterKept DEF Reasons, IInv, TypeOK
<1> QED
  BY <1>2, <1>3, <1>4

LEMMA StampStep ==
    ASSUME IInv, Stamp
    PROVE  IInv'
<1>1. /\ at.pc = "stamp" /\ head # 0 /\ main = "absent"
      /\ at' = [at EXCEPT !.pc = "mirror"] \/ at' = [at EXCEPT !.pc = "failed"]
      /\ UNCHANGED <<files, rows, work, run, faults, routerVars>>
  BY BeforeMain DEF Stamp, At, Goto, IInv, PointInv, MainPoints, ClosingPoints
<1>2. at' \in [pc : Points, k : Decisions] /\ at'.pc \in {"mirror", "failed"}
  BY <1>1 DEF IInv, TypeOK, Points
<1>3. PointInv'
  BY <1>1, <1>2 DEF PointInv, AttemptPoints, SlotPoints, OpenPoints, EndPoints, MainPoints, ClosingPoints, work, run
<1> QED
  BY <1>1, <1>2, <1>3, Moves

LEMMA MirrorStep ==
    ASSUME IInv, Mirror
    PROVE  IInv'
<1>1. /\ at.pc \in {"mirror", "evidence"} /\ mirrored' = mirrored \cup recorded
      /\ UNCHANGED <<files, rows, work, main, faults, routerVars>>
      /\ at' = [at EXCEPT !.pc = IF at.pc = "mirror" THEN "register" ELSE "abandon"]
  BY DEF Mirror, At, Goto
<1>2. /\ at.pc = "mirror" => head # 0 /\ main = "absent"
      /\ at.pc = "evidence" => tx.state = "FAILED_FINAL"
  BY <1>1, BeforeMain DEF IInv, PointInv, MainPoints, ClosingPoints
<1>3. /\ at' \in [pc : Points, k : Decisions]
      /\ at'.pc = IF at.pc = "mirror" THEN "register" ELSE "abandon"
  BY <1>1 DEF IInv, TypeOK, Points
<1>4. TypeOK'
  BY <1>1, <1>3 DEF IInv, TypeOK, files, rows, work, routerVars
<1>5. AllMirrored'
  BY <1>1, <1>2, AllRecorded DEF AllMirrored, files
<1>6. FilesInv' /\ RouterInv'
  BY <1>1, RouterKept DEF IInv, FilesInv, Begun, Reserved, files, rows
<1>7. TablesInv'
  BY <1>1, <1>5 DEF IInv, TablesInv, Spent, RepairsMatchRejections, files, rows, work
<1>8. PointInv'
  BY <1>1, <1>2, <1>3, <1>5 DEF PointInv, AttemptPoints, SlotPoints, OpenPoints, EndPoints, MainPoints, ClosingPoints,
     rows, work
<1> QED
  BY <1>4, <1>6, <1>7, <1>8 DEF IInv

\* The run's row is moved by the steps that follow the transaction.
LEMMA MainMoves ==
    ASSUME IInv, UNCHANGED <<files, rows, work, mirrored, faults, routerVars>>,
           main' \in {"absent", "PROPOSED", "PREPARED", "ABANDONED"},
           main' \in {"PROPOSED", "ABANDONED"} => tx.state = "FAILED_FINAL",
           main' = "PREPARED" => head # 0,
           main' \in {"PREPARED", "ABANDONED"} => AllMirrored,
           at' \in [pc : Points, k : Decisions], PointInv'
    PROVE  IInv'
<1>1. TypeOK'
  BY DEF IInv, TypeOK, files, rows, work, routerVars
<1>2. FilesInv' /\ RouterInv'
  BY RouterKept DEF IInv, FilesInv, Begun, Reserved, files, rows
<1>3. AllMirrored => AllMirrored'
  BY DEF AllMirrored, files
<1>4. TablesInv'
  BY <1>3 DEF IInv, TablesInv, Spent, RepairsMatchRejections, files, rows, work
<1> QED
  BY <1>1, <1>2, <1>4 DEF IInv

LEMMA RegisterStep ==
    ASSUME IInv, Register
    PROVE  IInv'
<1>1. /\ at.pc = "register" /\ head # 0 /\ AllMirrored
      /\ \/ main' = "PREPARED" /\ at' = [at EXCEPT !.pc = "done"]
         \/ main' = main /\ at' = [at EXCEPT !.pc = "failed"]
      /\ UNCHANGED <<files, rows, work, mirrored, faults, routerVars>>
  BY DEF Register, At, Goto, IInv, PointInv
<1>2. at' \in [pc : Points, k : Decisions] /\ at'.pc \in {"done", "failed"}
  BY <1>1 DEF IInv, TypeOK, Points
<1>3. PointInv'
  BY <1>1, <1>2 DEF PointInv, AttemptPoints, SlotPoints, OpenPoints, EndPoints, MainPoints, ClosingPoints
<1>4. /\ main \in {"absent", "PROPOSED", "PREPARED", "ABANDONED"}
      /\ main \in {"PROPOSED", "ABANDONED"} => tx.state = "FAILED_FINAL"
  BY DEF IInv, TypeOK, TablesInv
<1> QED
  BY <1>1, <1>2, <1>3, <1>4, MainMoves

LEMMA ResumeStep ==
    ASSUME IInv, ResumeCandidate
    PROVE  IInv'
<1>1. /\ at.pc = "register" /\ head # 0 /\ tx.state = "FIXTURE_VALID"
      /\ UNCHANGED <<files, rows, head, run, faults, routerVars>>
  BY DEF ResumeCandidate, At, IInv, PointInv, TablesInv
<1>2. /\ at' \in [pc : Points, k : Decisions] /\ at'.pc \in {"failed", "done"}
      /\ tree' \in {tree, Clean}
  BY DEF ResumeCandidate, Goto, IInv, TypeOK, Points
<1>3. TypeOK'
  BY <1>1, <1>2, Values DEF IInv, TypeOK, files, rows, run, routerVars, Clean
<1>4. FilesInv' /\ RouterInv'
  BY <1>1, RouterKept DEF IInv, FilesInv, Begun, Reserved, files, rows
<1>5. TablesInv'
  BY <1>1, <1>2 DEF IInv, TablesInv, Spent, AllMirrored, RepairsMatchRejections, files, rows, run, Clean, Dirty
<1>6. PointInv'
  BY <1>2 DEF PointInv, AttemptPoints, SlotPoints, OpenPoints, EndPoints, MainPoints, ClosingPoints
<1> QED
  BY <1>3, <1>4, <1>5, <1>6 DEF IInv

LEMMA CloseStep ==
    ASSUME IInv, CloseTransaction
    PROVE  IInv'
<1>1. /\ at.pc = "final" /\ at \in [pc : Points, k : Decisions]
      /\ tx \in [state : TxStates, reason : Reasons \cup {None}, patch : Decisions]
      /\ tx' = [tx EXCEPT !.state = "FAILED_FINAL"] /\ at' = [at EXCEPT !.pc = "mainrow"]
      /\ UNCHANGED <<files, recorded, filed, repair, work, run, faults, routerVars>>
  BY DEF CloseTransaction, At, Goto, IInv, TypeOK
<1>2. Spent /\ tx.state \in {"FAILED_REPAIRABLE", "FAILED_FINAL"}
  BY <1>1 DEF IInv, PointInv, TablesInv
<1>3. /\ tx' \in [state : TxStates, reason : Reasons \cup {None}, patch : Decisions]
      /\ tx'.state = "FAILED_FINAL" /\ tx'.reason = tx.reason /\ tx'.patch = tx.patch
  BY <1>1 DEF TxStates
<1>4. at' \in [pc : Points, k : Decisions] /\ at'.pc = "mainrow"
  BY <1>1 DEF Points
<1>5. TypeOK'
  BY <1>1, <1>3, <1>4 DEF IInv, TypeOK, files, work, run, routerVars
<1>6. FilesInv' /\ RouterInv'
  BY <1>1, RouterKept DEF IInv, FilesInv, Begun, Reserved, files
<1>7. TablesInv'
  BY <1>1, <1>2, <1>3 DEF IInv, TablesInv, Spent, AllMirrored, RepairsMatchRejections, files, work, run, Moved
<1>8. PointInv'
  BY <1>3, <1>4 DEF PointInv, AttemptPoints, SlotPoints, OpenPoints, EndPoints, MainPoints, ClosingPoints
<1> QED
  BY <1>5, <1>6, <1>7, <1>8 DEF IInv

LEMMA MainRowStep ==
    ASSUME IInv, EnsureMainRow
    PROVE  IInv'
<1>1. /\ at.pc = "mainrow" /\ tx.state = "FAILED_FINAL" /\ at' = [at EXCEPT !.pc = "evidence"]
      /\ main' = IF main = "absent" THEN "PROPOSED" ELSE main
      /\ UNCHANGED <<files, rows, work, mirrored, faults, routerVars>>
  BY DEF EnsureMainRow, At, Goto, IInv, PointInv, ClosingPoints
<1>2. at' \in [pc : Points, k : Decisions] /\ at'.pc = "evidence"
  BY <1>1 DEF IInv, TypeOK, Points
<1>3. PointInv'
  BY <1>1, <1>2 DEF PointInv, AttemptPoints, SlotPoints, OpenPoints, EndPoints, MainPoints, ClosingPoints, rows
<1> QED
  BY <1>1, <1>2, <1>3, MainMoves DEF IInv, TypeOK, TablesInv

LEMMA AbandonStep ==
    ASSUME IInv, AbandonExperiment
    PROVE  IInv'
<1>1. /\ at.pc = "abandon" /\ tx.state = "FAILED_FINAL" /\ AllMirrored /\ at' = [at EXCEPT !.pc = "done"]
      /\ main' = IF main = "PROPOSED" THEN "ABANDONED" ELSE main
      /\ UNCHANGED <<files, rows, work, mirrored, faults, routerVars>>
  BY DEF AbandonExperiment, At, Goto, IInv, PointInv, ClosingPoints
<1>2. at' \in [pc : Points, k : Decisions] /\ at'.pc = "done"
  BY <1>1 DEF IInv, TypeOK, Points
<1>3. PointInv'
  BY <1>1, <1>2 DEF PointInv, AttemptPoints, SlotPoints, OpenPoints, EndPoints, MainPoints, ClosingPoints
<1> QED
  BY <1>1, <1>2, <1>3, MainMoves DEF IInv, TypeOK, TablesInv

\* The worktree's directory is lost, or its record is.
LEMMA LossStep ==
    ASSUME IInv, LoseWorktree \/ PruneWorktree
    PROVE  IInv'
<1>1. /\ UNCHANGED <<at, files, rows, head, run, routerVars>> /\ tree' \in {Gone, Absent} /\ faults' \in 0..MaxFaults
      /\ at.pc = "away" \/ tree = Gone
  BY Values DEF LoseWorktree, PruneWorktree, At, IInv, TypeOK
<1>2. TypeOK'
  BY <1>1 DEF IInv, TypeOK, files, rows, run, routerVars
<1>3. FilesInv' /\ RouterInv'
  BY <1>1, RouterKept DEF IInv, FilesInv, Begun, Reserved, files, rows
<1>4. TablesInv'
  BY <1>1 DEF IInv, TablesInv, Spent, AllMirrored, RepairsMatchRejections, files, rows, run, Gone, Absent
<1>5. /\ Begun(at.k) = Begun(at.k)' /\ Reserved(at.k) = Reserved(at.k)' /\ AllMirrored = AllMirrored'
      /\ Misfiled = Misfiled'
  BY <1>1 DEF Begun, Reserved, AllMirrored, Misfiled, Foreign, files, rows, run
<1>6. \A k : Gone # Dirty(k)
  BY DEF Gone, Dirty
<1>7. PointInv'
  BY <1>1, <1>5, <1>6 DEF IInv, PointInv, AttemptPoints, SlotPoints, OpenPoints, EndPoints, MainPoints, ClosingPoints,
     files, rows, run
<1> QED
  BY <1>2, <1>3, <1>4, <1>7 DEF IInv

-----------------------------------------------------------------------------
(* The invariant, and what it gives.                                       *)

LEMMA Starts == Init => IInv
<1> SUFFICES ASSUME Init PROVE IInv
  OBVIOUS
<1>1. TypeOK
  <2>1. /\ at = [pc |-> "away", k |-> 0] /\ "away" \in Points /\ 0 \in Decisions
        /\ tx = [state |-> "none", reason |-> None, patch |-> 0] /\ "none" \in TxStates
        /\ ledger = [calls |-> 0, spent |-> FALSE] /\ billed = 0 /\ 0 \in 0..MaxCalls /\ 0 \in 0..MaxFaults
    BY Values DEF Init, RouterInit, FreshLedger, Points, TxStates
  <2>2. at \in [pc : Points, k : Decisions] /\ tx \in [state : TxStates, reason : Reasons \cup {None}, patch : Decisions]
    BY <2>1
  <2>3. ledger \in [calls : 0..MaxCalls, spent : BOOLEAN] /\ billed \in Nat
    BY <2>1
  <2> QED
    BY <2>1, <2>2, <2>3 DEF Init, TypeOK
<1>2. RouterInv
  BY DEF Init, RouterInit, RouterInv, NoCall
<1>3. FilesInv
  BY Values DEF Init, FilesInv
<1>4. TablesInv
  BY Values DEF Init, TablesInv, RepairsMatchRejections, Moved, Reasons
<1>5. PointInv
  BY DEF Init, PointInv, AttemptPoints, SlotPoints, OpenPoints, EndPoints, MainPoints, ClosingPoints
<1> QED
  BY <1>1, <1>2, <1>3, <1>4, <1>5 DEF IInv

LEMMA Stays == IInv /\ UNCHANGED patchVars => IInv'
BY OnlyMoves, Values DEF patchVars, routerVars, IInv, TypeOK, RouterInv, PointInv, Begun, Reserved, AllMirrored,
   Misfiled, Foreign, files, rows, work, run

LEMMA NextKeeps == IInv /\ [Next]_patchVars => IInv'
<1> SUFFICES ASSUME IInv, [Next]_patchVars PROVE IInv'
  OBVIOUS
<1>1. CASE Step
  BY <1>1, EnterStep, ProposeStep, CreateStep, RecordStep, WorkspaceStep, DispatchStep, BeginStep, DecideStep,
     NoAnswerStep, KeepStep, JudgeStep, ApplyStep, AuditStep, JudgeGatesStep, RestoreStep, FileStep, SettleStep,
     PublishStep, GateStep, VerdictStep, CommitStep, StampStep, MirrorStep, RegisterStep, ResumeStep, ReportStep,
     CloseStep, MainRowStep, AbandonStep DEF Step
<1>2. CASE UNCHANGED patchVars
  BY <1>2, Stays
<1> QED
  BY <1>1, <1>2, RouterSteps, GateFailsStep, KillStep, LossStep DEF Next

\* Wherever a process is killed, and however often, files, tables and point agree.
LEMMA Invariant == Spec => []IInv
BY Starts, NextKeeps, PTL DEF Spec, Safety

\* What an accepted patch was put through, read back from the commit.
LEMMA CommitIsBacked == IInv => CommittedPatchPassed
<1> SUFFICES ASSUME IInv, head # 0 PROVE CommittedPatchPassed
  BY DEF CommittedPatchPassed
<1>1. tx.patch = head /\ head \in Attempts /\ verdict[head] = "accepted"
  BY DEF IInv, TablesInv, Moved
<1>2. response[head].kind = "good" /\ \A g \in Gates : gate[head][g] = "pass"
  BY <1>1 DEF IInv, FilesInv
<1> QED
  BY <1>1, <1>2 DEF CommittedPatchPassed

\* A commit never holds a patch that was not accepted, nor one whose gates did
\* not both pass, though _commit_or_recover commits whatever is in the worktree.
THEOREM CommitsPassed == Spec => []CommittedPatchPassed
BY Invariant, CommitIsBacked, PTL

\* The slots of the repairs, the verdicts on file, the reason of an abandoned
\* candidate and the run's table of model calls agree after every step.
THEOREM BooksAlwaysBalance == Spec => []BooksBalance
<1>1. IInv => BooksBalance
  BY DEF IInv, TablesInv, BooksBalance, AbandonedForAReason, NoDecisionUnaccounted, Spent, AllMirrored
<1> QED
  BY <1>1, Invariant, PTL

-----------------------------------------------------------------------------
(* Steps: what is on file is final, and the promise is implemented.        *)

LEMMA KeepWrites ==
    ASSUME IInv, NEW kind, NEW adds \in BOOLEAN, Keep(kind, adds)
    PROVE  /\ at.k \in Decisions /\ response'[at.k] # None /\ main = "absent"
           /\ response[at.k] = None \/ (at.k = 0 /\ Misfiled)
           /\ \A d \in Decisions : d # at.k => response'[d] = response[d]
           /\ UNCHANGED <<gate, verdict, main>>
<1>1. at.pc = "keep" /\ UNCHANGED <<gate, verdict, main>>
  BY DEF Keep, At, run
<1>2. /\ at.k \in Decisions /\ main = "absent"
      /\ response[at.k] = None \/ (at.k = 0 /\ Misfiled)
  BY <1>1, BeforeMain DEF IInv, TypeOK, PointInv, MainPoints, ClosingPoints
<1>3. response \in [Decisions -> Answers \cup {None}] /\ response' \in [Decisions -> Answers \cup {None}]
  BY KeepStep DEF IInv, TypeOK
<1>4. response'[at.k] # None
  <2>1. Provider \in {Route[i] : i \in 1..Len(Route)} /\ call.attempts \in Nat
    BY DEF Keep, Answered, IInv, RouterInv, Provider
  <2>2. [kind |-> kind, adds |-> adds, provider |-> Provider, attempts |-> call.attempts] \in Answers
    BY <2>1 DEF Keep, Answers
  <2> QED
    BY <1>2, <1>3, <2>2, Values DEF Keep
<1>5. \A d \in Decisions : d # at.k => response'[d] = response[d]
  BY <1>2, <1>3 DEF Keep
<1> QED
  BY <1>1, <1>2, <1>4, <1>5

\* Only the answer of a model, a gate and a verdict write a file.
LEMMA OnlyThreeWrite ==
    ASSUME [Next]_patchVars
    PROVE  \/ \E kind \in Proposals \cup Patches, adds \in BOOLEAN : Keep(kind, adds)
           \/ \E g \in Gates : RunGate(g)
           \/ \E v \in {"accepted", "rejected"} : WriteVerdict(v)
           \/ UNCHANGED files
<1>1. Enter \/ Propose \/ CreateExperiment \/ RecordDecision \/ EnsureWorkspace \/ Dispatch \/ BeginAttempt \/ Decide
        \/ NoAnswer \/ Judge => UNCHANGED files
  BY DEF Enter, Propose, CreateExperiment, RecordDecision, EnsureWorkspace, Dispatch, BeginAttempt, Decide, NoAnswer, Judge
<1>2. Apply \/ Audit \/ JudgeGates \/ Restore \/ FileVerdict \/ Settle \/ Publish \/ Commit \/ Stamp \/ Mirror => UNCHANGED files
  BY DEF Apply, Audit, JudgeGates, Restore, FileVerdict, Settle, Publish, Commit, Stamp, Mirror
<1>3. Register \/ ResumeCandidate \/ ReportFailure \/ CloseTransaction \/ EnsureMainRow \/ AbandonExperiment \/ RouterStep
        \/ GateFails \/ Kill \/ LoseWorktree \/ PruneWorktree \/ UNCHANGED patchVars => UNCHANGED files
  BY DEF Register, ResumeCandidate, ReportFailure, CloseTransaction, EnsureMainRow, AbandonExperiment, RouterStep,
     GateFails, Kill, LoseWorktree, PruneWorktree, patchVars
<1> QED
  BY <1>1, <1>2, <1>3 DEF Next, Step

\* No step replaces an answer of a model, a verdict or the result of a gate.
LEMMA NothingIsReplaced ==
    IInv /\ [Next]_patchVars =>
       /\ \A d \in Decisions : response[d] # None /\ ~(d = 0 /\ Misfiled) => response'[d] = response[d]
       /\ \A k \in Attempts : verdict[k] # None => verdict'[k] = verdict[k]
       /\ \A k \in Attempts, g \in Gates : gate[k][g] # None => gate'[k][g] = gate[k][g]
<1> SUFFICES ASSUME IInv, [Next]_patchVars
             PROVE  /\ \A d \in Decisions : response[d] # None /\ ~(d = 0 /\ Misfiled) => response'[d] = response[d]
                    /\ \A k \in Attempts : verdict[k] # None => verdict'[k] = verdict[k]
                    /\ \A k \in Attempts, g \in Gates : gate[k][g] # None => gate'[k][g] = gate[k][g]
  OBVIOUS
<1>1. ASSUME NEW kind, NEW adds \in BOOLEAN, Keep(kind, adds)
      PROVE  /\ \A d \in Decisions : response[d] # None /\ ~(d = 0 /\ Misfiled) => response'[d] = response[d]
             /\ verdict' = verdict /\ gate' = gate
  BY <1>1, KeepWrites
<1>2. ASSUME NEW h \in Gates, RunGate(h)
      PROVE  /\ response' = response /\ verdict' = verdict
             /\ \A k \in Attempts, g \in Gates : gate[k][g] # None => gate'[k][g] = gate[k][g]
  <2>1. gate \in [Attempts -> [Gates -> {"pass", "fail", None}]]
    BY DEF IInv, TypeOK
  <2> QED
    BY <1>2, <2>1 DEF RunGate
<1>3. ASSUME NEW v \in {"accepted", "rejected"}, WriteVerdict(v)
      PROVE  /\ response' = response /\ gate' = gate
             /\ \A k \in Attempts : verdict[k] # None => verdict'[k] = verdict[k]
  <2>1. verdict[at.k] = None /\ verdict \in [Attempts -> {"accepted", "rejected", None}]
    BY <1>3 DEF WriteVerdict, At, IInv, TypeOK, PointInv, OpenPoints
  <2> QED
    BY <1>3, <2>1 DEF WriteVerdict
<1> QED
  BY <1>1, <1>2, <1>3, OnlyThreeWrite DEF files

\* A resume never asks, judges or runs a gate again: what is on file is final, but
\* for a proposal under another id that no row leads to.
THEOREM FilesAreFinal == Spec => DecisionsAreFinal
BY Invariant, NothingIsReplaced, PTL DEF Spec, Safety, DecisionsAreFinal

-----------------------------------------------------------------------------
(* The promise.                                                            *)

AskedFor == {k \in Attempts : response[k] # None}

LEMMA Counting ==
    /\ IsFiniteSet(Attempts) /\ IsFiniteSet(AskedFor) /\ Cardinality(AskedFor) \in Nat /\ Cardinality(Attempts) \in Nat
    /\ AskedFor \subseteq Attempts
<1>1. IsFiniteSet(Attempts) /\ AskedFor \subseteq Attempts
  BY Values, FS_Interval DEF Attempts, AskedFor
<1> QED
  BY <1>1, FS_Subset, FS_CardinalityType

LEMMA KeepIsAsked ==
    ASSUME IInv, NEW kind, NEW adds \in BOOLEAN, Keep(kind, adds)
    PROVE  /\ main = "absent" /\ main' = main
           /\ \/ Cardinality(AskedFor') = Cardinality(AskedFor)
              \/ /\ Cardinality(AskedFor) < Cardinality(Attempts)
                 /\ Cardinality(AskedFor') = Cardinality(AskedFor) + 1
<1>1. /\ at.k \in Decisions /\ response'[at.k] # None /\ main = "absent" /\ main' = main
      /\ at.k # 0 => response[at.k] = None
      /\ \A d \in Decisions : d # at.k => response'[d] = response[d]
  BY KeepWrites
<1>2. CASE at.k = 0
  <2>1. AskedFor' = AskedFor
    BY <1>1, <1>2, Values DEF AskedFor
  <2> QED
    BY <1>1, <2>1
<1>3. CASE at.k # 0
  <2>1. at.k \in Attempts /\ at.k \notin AskedFor /\ AskedFor' = AskedFor \cup {at.k}
    BY <1>1, <1>3, Values DEF AskedFor
  <2>2. Cardinality(AskedFor \cup {at.k}) = Cardinality(AskedFor) + 1
    BY <2>1, Counting, FS_AddElement
  <2>3. AskedFor \cup {at.k} \subseteq Attempts
    BY <2>1, Counting
  <2>4. Cardinality(AskedFor \cup {at.k}) <= Cardinality(Attempts)
    BY <2>3, Counting, FS_Subset
  <2>5. Cardinality(AskedFor) < Cardinality(Attempts)
    BY <2>2, <2>4, Counting
  <2> QED
    BY <1>1, <2>1, <2>2, <2>5
<1> QED
  BY <1>2, <1>3

\* A patch is asked for, the candidate is registered or given up, or nothing
\* that was promised changes.
LEMMA PromisedSteps ==
    ASSUME [Next]_patchVars
    PROVE  \/ \E kind \in Proposals \cup Patches, adds \in BOOLEAN : Keep(kind, adds)
           \/ Register \/ AbandonExperiment \/ EnsureMainRow
           \/ UNCHANGED <<response, main>>
<1>1. Enter \/ Propose \/ CreateExperiment \/ RecordDecision \/ EnsureWorkspace \/ Dispatch \/ BeginAttempt \/ Decide
        \/ NoAnswer \/ Judge => UNCHANGED <<response, main>>
  BY DEF Enter, Propose, CreateExperiment, RecordDecision, EnsureWorkspace, Dispatch, BeginAttempt, Decide, NoAnswer,
     Judge, files, run
<1>2. Apply \/ Audit \/ JudgeGates \/ Restore \/ FileVerdict \/ Settle \/ Publish \/ Commit \/ Stamp \/ Mirror
        => UNCHANGED <<response, main>>
  BY DEF Apply, Audit, JudgeGates, Restore, FileVerdict, Settle, Publish, Commit, Stamp, Mirror, files, run
<1>3. ResumeCandidate \/ ReportFailure \/ CloseTransaction \/ RouterStep \/ GateFails \/ Kill \/ LoseWorktree
        \/ PruneWorktree \/ UNCHANGED patchVars => UNCHANGED <<response, main>>
  BY DEF ResumeCandidate, ReportFailure, CloseTransaction, RouterStep, GateFails, Kill, LoseWorktree, PruneWorktree,
     patchVars, files, run
<1>4. (\E g \in Gates : RunGate(g)) \/ (\E v \in {"accepted", "rejected"} : WriteVerdict(v)) => UNCHANGED <<response, main>>
  BY DEF RunGate, WriteVerdict, run
<1> QED
  BY <1>1, <1>2, <1>3, <1>4 DEF Next, Step

LEMMA RegisterIsPrepared ==
    ASSUME IInv, Register
    PROVE  /\ main \in {"absent", "PROPOSED"} /\ main' \in {main, "PREPARED"}
           /\ AskedFor' = AskedFor /\ Cardinality(AskedFor) > 0
<1>1. head # 0 /\ main' \in {main, "PREPARED"} /\ response' = response /\ main # "PREPARED"
  BY DEF Register, At, IInv, PointInv, files
<1>2. tx.state = "FIXTURE_VALID" /\ main # "ABANDONED"
  BY <1>1 DEF IInv, TablesInv
<1>3. main \in {"absent", "PROPOSED"}
  BY <1>1, <1>2 DEF IInv, TypeOK
<1>4. head \in AskedFor
  <2>1. head \in Attempts /\ verdict[head] = "accepted"
    BY <1>1, <1>2 DEF IInv, TablesInv, Moved
  <2> QED
    BY <2>1, Values DEF IInv, FilesInv, TablesInv, AskedFor
<1>5. Cardinality(AskedFor) # 0
  BY <1>4, Counting, FS_EmptySet
<1> QED
  BY <1>1, <1>3, <1>5, Counting DEF AskedFor

LEMMA AbandonIsSpent ==
    ASSUME IInv, AbandonExperiment
    PROVE  /\ AskedFor' = AskedFor /\ (main' # main => main = "PROPOSED" /\ main' = "ABANDONED")
           /\ Cardinality(AskedFor) = Cardinality(Attempts)
<1>1. tx.state = "FAILED_FINAL" /\ response' = response /\ (main' # main => main = "PROPOSED" /\ main' = "ABANDONED")
  BY DEF AbandonExperiment, At, IInv, PointInv, ClosingPoints, files
<1>2. \A k \in Attempts : verdict[k] # None
  BY <1>1, Values DEF IInv, TablesInv, Spent
<1>3. AskedFor = Attempts
  BY <1>2, Values DEF IInv, FilesInv, TablesInv, AskedFor
<1> QED
  BY <1>1, <1>3 DEF AskedFor

\* The supervisor sees what it was promised: patches asked for one at a time
\* and within their number, a candidate prepared on the last of them, or
\* abandoned when all of them were asked for.
THEOREM PreparationsImplementPromise == Spec => ImplementsPromise
<1>1. Init => Promised!PromiseInit
  <2> SUFFICES ASSUME Init PROVE Promised!PromiseInit
    OBVIOUS
  <2>1. AskedFor = {}
    BY Values DEF Init, AskedFor
  <2>2. Cardinality(AskedFor) = 0
    BY <2>1, FS_EmptySet
  <2> QED
    BY <2>2 DEF Init, Promised!PromiseInit, AskedFor
<1>2. IInv /\ [Next]_patchVars => [Promised!PromiseNext]_(Promised!promiseVars)
  <2> SUFFICES ASSUME IInv, [Next]_patchVars PROVE [Promised!PromiseNext]_(Promised!promiseVars)
    OBVIOUS
  <2>1. ASSUME NEW kind, NEW adds \in BOOLEAN, Keep(kind, adds)
        PROVE  Promised!AskPatch \/ UNCHANGED (Promised!promiseVars)
    BY <2>1, KeepIsAsked DEF Promised!AskPatch, Promised!promiseVars, AskedFor
  <2>2. CASE Register
    BY <2>2, RegisterIsPrepared DEF Promised!PromiseNext, Promised!Prepared, Promised!promiseVars, AskedFor
  <2>3. CASE AbandonExperiment
    BY <2>3, AbandonIsSpent DEF Promised!PromiseNext, Promised!Abandoned, Promised!promiseVars, AskedFor
  <2>4. CASE EnsureMainRow
    BY <2>4 DEF EnsureMainRow, Promised!promiseVars, files
  <2>5. CASE UNCHANGED <<response, main>>
    BY <2>5 DEF Promised!promiseVars
  <2> QED
    BY <2>1, <2>2, <2>3, <2>4, <2>5, PromisedSteps DEF Promised!PromiseNext
<1> QED
  BY <1>1, <1>2, Invariant, PTL DEF Spec, Safety, ImplementsPromise, Promised!Promise

=============================================================================
