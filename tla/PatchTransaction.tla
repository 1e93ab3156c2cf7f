---------------------------- MODULE PatchTransaction ----------------------------
(***************************************************************************)
(* The preparation of one live candidate: PatchTransactionCoordinator of   *)
(* rex/agents/coordinator.py, driven by _live_candidate and what follows   *)
(* it in rex/control/scientific_hooks.py.                                  *)
(*                                                                         *)
(* A proposal and a bounded number of patches are asked of the models.     *)
(* Each patch is applied to a worktree of its own, audited and put through *)
(* two gates; the first that passes is committed, the others are recorded  *)
(* and reverted.  The transaction has a database and files of its own, so  *)
(* that a process that is killed can be followed by another one.  What a   *)
(* patch says is reduced to how far it gets and whether it adds a file.    *)
(***************************************************************************)
EXTENDS ProviderRouter, FiniteSets

CONSTANTS
    None,
    MaxRepairs,  \* patches asked for after a rejected one
    MaxFaults    \* bound on kills, failures of providers and of the host

Attempts == 1..(MaxRepairs + 1)
Decisions == {0} \cup Attempts

\* What a proposal says that matters here: nothing amiss, files outside its card,
\* another experiment's id, or another parent.  One with another id and files
\* outside the card is dropped like no answer, and is not told from that.
Proposals == {"allowed", "outside", "foreign", "redirected"}
Patches == {"unappliable", "audited", "unsafe", "static", "fixture", "good"}
Reasons == {"exhausted", "provider", "unsafe", "host", "foreign", "lost"}

\* A decision on file: what it says, whether it adds a file, and the provider
\* that gave it after how many requests.
Answers == [kind : Proposals \cup Patches, adds : BOOLEAN,
            provider : {Route[i] : i \in 1..Len(Route)}, attempts : Nat]

ASSUME PatchAssumption ==
    /\ MaxRepairs \in Nat /\ MaxFaults \in Nat
    /\ None \notin Answers /\ None \notin {"pass", "fail", "accepted", "rejected"} \cup Reasons

VARIABLES
    at,        \* where the process is: its point and the attempt it works on
    tx,        \* the transaction's experiment row: state, why it failed, the patch it took
    response,  \* the decisions on file: 0 is the proposal, k > 0 the k-th patch
    recorded,  \* decisions with a row in the transaction's llm_calls
    gate,      \* results of the gates on file, per attempt
    verdict,   \* *-rejection.json and *-accepted.json, per attempt
    filed,     \* attempts whose verdict is registered as an artifact
    repair,    \* experiment_repairs of the transaction
    tree,      \* the worktree: not made, deleted, the branch's files, or with a patch applied
    head,      \* the branch's commit: 0 is the parent, k the k-th patch
    main,      \* the experiment in the run's own database
    mirrored,  \* decisions copied into the run's llm_calls
    faults

files == <<response, gate, verdict>>
rows == <<tx, recorded, filed, repair>>
work == <<tree, head>>
run == <<main, mirrored>>
patchVars == <<at, files, rows, work, run, faults, routerVars>>

Gates == {"static", "fixture"}
TxStates == {"none", "PROPOSED", "WORKTREE_READY", "PATCHED", "STATIC_VALID",
             "FIXTURE_VALID", "FAILED_REPAIRABLE", "FAILED_FINAL"}
Points == {"away", "enter", "propose", "create", "record", "worktree", "dispatch",
           "attempt", "decide", "keep", "judge", "apply", "audit", "gates", "restore",
           "reject", "accept", "file", "refile", "settle", "publish", "commit", "stamp", "failed",
           "final", "mainrow", "evidence", "abandon", "mirror", "register", "done"}

\* The worktree's directory: never made, deleted, or there with a patch in it.
Absent == [dir |-> "absent", patch |-> 0]
Gone == [dir |-> "gone", patch |-> 0]
Dirty(k) == [dir |-> "made", patch |-> k]
Clean == Dirty(0)

TypeOK ==
    /\ at \in [pc : Points, k : Decisions]
    /\ tx \in [state : TxStates, reason : Reasons \cup {None}, patch : Decisions]
    /\ response \in [Decisions -> Answers \cup {None}]
    /\ recorded \subseteq Decisions /\ mirrored \subseteq Decisions
    /\ gate \in [Attempts -> [Gates -> {"pass", "fail", None}]]
    /\ verdict \in [Attempts -> {"accepted", "rejected", None}]
    /\ filed \subseteq Attempts
    /\ repair \in [1..MaxRepairs -> {"none", "open", "done"}]
    /\ tree \in {Absent, Gone} \cup {Dirty(k) : k \in Decisions}
    /\ head \in Decisions
    /\ main \in {"absent", "PROPOSED", "PREPARED", "ABANDONED"}
    /\ faults \in 0..MaxFaults
    /\ billed \in Nat /\ ledger \in [calls : 0..MaxCalls, spent : BOOLEAN]

Init ==
    /\ at = [pc |-> "away", k |-> 0]
    /\ tx = [state |-> "none", reason |-> None, patch |-> 0]
    /\ response = [d \in Decisions |-> None]
    /\ recorded = {} /\ mirrored = {} /\ filed = {}
    /\ gate = [k \in Attempts |-> [g \in Gates |-> None]]
    /\ verdict = [k \in Attempts |-> None]
    /\ repair = [n \in 1..MaxRepairs |-> "none"]
    /\ tree = Absent /\ head = 0
    /\ main = "absent"
    /\ faults = 0
    /\ RouterInit

At(point) == at.pc = point
Goto(point) == at' = [at EXCEPT !.pc = point]
GotoWith(point, k) == at' = [pc |-> point, k |-> k]

\* An exception inside prepare: the transaction is marked, the call fails.
Failing == {"WORKTREE_READY", "PATCHED", "STATIC_VALID", "FIXTURE_VALID"}
Raise(why) ==
    /\ tx' = IF tx.state \in Failing
             THEN [tx EXCEPT !.state = "FAILED_REPAIRABLE", !.reason = why] ELSE tx
    /\ Goto(IF why = "exhausted" THEN "final" ELSE "failed")

-------------------------------------------------------------------------------
(* Entry: what an earlier process left decides where this one begins.      *)

\* A slip: only a closed transaction is exhausted.
ClosedOnly == tx.state = "FAILED_FINAL"

\* _exhausted_preparation.
Exhausted ==
    tx.state = "FAILED_FINAL" \/ (tx.state = "FAILED_REPAIRABLE" /\ tx.reason = "exhausted")

\* A new process counts the paid calls that reached the run's database.
PaidRequests == UNION {{d} \X (1..response[d].attempts) : d \in {e \in mirrored : response[e].provider = Paid}}
Rehydrated == Cardinality(PaidRequests)

Enter ==
    /\ At("away") /\ main # "ABANDONED"
    /\ ledger' = [FreshLedger EXCEPT !.calls = IF Rehydrated < MaxCalls THEN Rehydrated ELSE MaxCalls]
    /\ Goto(IF Exhausted THEN "final"
            ELSE IF main = "PREPARED" THEN "register" ELSE "propose")
    /\ UNCHANGED <<files, rows, work, run, faults, call, billed>>

\* A proposal with another id is filed under that id: before the transaction has
\* its row nobody finds it again, and afterwards the row is in the way of the
\* experiment the next process comes for.
Foreign == response[0] # None /\ response[0].kind = "foreign"
Misfiled == Foreign /\ tx.state = "none"

\* The proposal on file is used; otherwise one is asked for.
Propose ==
    /\ At("propose")
    /\ IF response[0] = None \/ Misfiled
       THEN Ask /\ GotoWith("keep", 0)
       ELSE /\ GotoWith(IF Foreign THEN "failed"
                        ELSE IF tx.state = "none" THEN "create" ELSE "record", 0)
            /\ UNCHANGED call
    /\ UNCHANGED <<files, rows, work, run, faults, ledger, billed>>

\* create_experiment, unless the proposal names files outside its card.
CreateExperiment ==
    /\ At("create")
    /\ IF response[0].kind = "outside"
       THEN Goto("failed") /\ UNCHANGED tx
       ELSE Goto("record") /\ tx' = [tx EXCEPT !.state = "PROPOSED"]
    /\ UNCHANGED <<files, recorded, filed, repair, work, run, faults, routerVars>>

RecordDecision ==
    /\ At("record")
    /\ recorded' = recorded \cup {at.k}
    /\ Goto(IF at.k = 0 THEN "worktree" ELSE "judge")
    /\ UNCHANGED <<files, tx, filed, repair, work, run, faults, routerVars>>

\* A worktree is made on its branch; git refuses to while it still lists one
\* whose directory was deleted.
EnsureWorkspace ==
    /\ At("worktree")
    /\ IF tree = Gone
       THEN Goto("failed") /\ UNCHANGED tree
       ELSE Goto("dispatch") /\ tree' = IF tree = Absent THEN Clean ELSE tree
    /\ UNCHANGED <<files, rows, head, run, faults, routerVars>>

Dispatch ==
    /\ At("dispatch")
    /\ CASE tx.state = "PROPOSED" -> tx' = [tx EXCEPT !.state = "WORKTREE_READY"] /\ UNCHANGED at
         [] tx.state = "WORKTREE_READY" -> GotoWith("attempt", 1) /\ UNCHANGED tx
         [] tx.state = "PATCHED" -> tx' = [tx EXCEPT !.state = "STATIC_VALID"] /\ UNCHANGED at
         [] tx.state = "STATIC_VALID" -> tx' = [tx EXCEPT !.state = "FIXTURE_VALID"] /\ UNCHANGED at
         [] tx.state = "FIXTURE_VALID" -> Goto("commit") /\ UNCHANGED tx
         [] OTHER -> Goto("failed") /\ UNCHANGED tx
    /\ UNCHANGED <<files, recorded, filed, repair, work, run, faults, routerVars>>

-------------------------------------------------------------------------------
(* One attempt.                                                            *)

\* A slip: the attempt takes the slot after its own.
BeginAttemptAhead ==
    /\ At("attempt")
    /\ IF at.k > 1 /\ (tree # Clean \/ head # 0)
       THEN Raise("foreign") /\ UNCHANGED repair
       ELSE /\ repair' = [n \in DOMAIN repair |->
                            IF n = at.k /\ repair[n] = "none" THEN "open" ELSE repair[n]]
            /\ Goto("decide") /\ UNCHANGED tx
    /\ UNCHANGED <<files, recorded, filed, work, run, faults, routerVars>>

\* A repair starts from the parent's files and reserves a slot.
BeginAttempt ==
    /\ At("attempt")
    /\ IF at.k > 1 /\ (tree # Clean \/ head # 0)
       THEN Raise("foreign") /\ UNCHANGED repair
       ELSE /\ repair' = [n \in DOMAIN repair |->
                            IF n = at.k - 1 /\ repair[n] = "none" THEN "open" ELSE repair[n]]
            /\ Goto("decide") /\ UNCHANGED tx
    /\ UNCHANGED <<files, recorded, filed, work, run, faults, routerVars>>

\* A slip: the patch is asked for though there is one on file.
DecideAgain ==
    /\ At("decide")
    /\ Ask /\ Goto("keep")
    /\ UNCHANGED <<files, rows, work, run, faults, ledger, billed>>

Decide ==
    /\ At("decide")
    /\ IF response[at.k] # None THEN Goto("record") /\ UNCHANGED call
       ELSE Ask /\ Goto("keep")
    /\ UNCHANGED <<files, rows, work, run, faults, ledger, billed>>

\* The answer of the models is written before anything else is done with it.
Keep(kind, adds) ==
    /\ At("keep") /\ Answered
    /\ kind \in (IF at.k = 0 THEN Proposals ELSE Patches)
    /\ adds => kind \in Patches \ {"unappliable"}
    /\ response' = [response EXCEPT ![at.k] = [kind |-> kind, adds |-> adds,
                      provider |-> Provider, attempts |-> call.attempts]]
    /\ call' = NoCall
    /\ Goto(IF at.k = 0 THEN "create" ELSE "record")
    /\ UNCHANGED <<gate, verdict, rows, work, run, faults, ledger, billed>>

\* No provider answers.  For a patch the transaction fails with it.
NoAnswer ==
    /\ At("keep") /\ AllFailed
    /\ call' = NoCall
    /\ IF at.k = 0 THEN Goto("failed") /\ UNCHANGED tx ELSE Raise("provider")
    /\ UNCHANGED <<files, recorded, filed, repair, work, run, faults, ledger, billed>>

Kind == response[at.k].kind

\* How far a patch gets: git or the patch policy refuses it, it changes nothing
\* that is run or does not parse, it uses what candidates may not, a gate fails.
Unappliable == Kind = "unappliable"
Unexecuted == Kind = "audited"
Unsafe == Kind = "unsafe"
GateVerdict(g) == IF Kind = g THEN "fail" ELSE "pass"

\* The worktree is clean, or dirty with nothing but this patch: a file that the
\* patch added counts as somebody else's.
Mine == tree = Clean \/ (tree = Dirty(at.k) /\ ~response[at.k].adds)

\* A verdict on file is carried out again: the accepted patch is applied or
\* found applied, the rejected one is found reverted or reverted.
Judge ==
    /\ At("judge")
    /\ CASE verdict[at.k] = None -> Goto("apply") /\ UNCHANGED <<tx, tree>>
         [] verdict[at.k] = "accepted" /\ Mine -> tree' = Dirty(at.k) /\ Goto("refile") /\ UNCHANGED tx
         [] verdict[at.k] = "rejected" /\ tree \in {Clean, Dirty(at.k)}
              -> tree' = Clean /\ Goto("refile") /\ UNCHANGED tx
         [] OTHER -> Raise("foreign") /\ UNCHANGED tree
    /\ UNCHANGED <<files, recorded, filed, repair, head, run, faults, routerVars>>

\* _apply_or_verify_patch.
Apply ==
    /\ At("apply")
    /\ CASE ~Mine -> Raise("foreign") /\ UNCHANGED tree
         [] Mine /\ Unappliable -> Goto("reject") /\ UNCHANGED <<tx, tree>>
         [] OTHER -> tree' = Dirty(at.k) /\ Goto("audit") /\ UNCHANGED tx
    /\ UNCHANGED <<files, recorded, filed, repair, head, run, faults, routerVars>>

\* The executed-change contract and the static audit; an unsafe construct is
\* not a matter for another attempt.
Audit ==
    /\ At("audit")
    /\ CASE Unsafe -> Raise("unsafe")
         [] Unexecuted -> Goto("restore") /\ UNCHANGED tx
         [] OTHER -> Goto("gates") /\ UNCHANGED tx
    /\ UNCHANGED <<files, recorded, filed, repair, work, run, faults, routerVars>>

\* A gate runs once per attempt: its result is on file.
RunGate(g) ==
    /\ At("gates")
    /\ g = "fixture" => gate[at.k]["static"] = "pass"
    /\ gate[at.k][g] = None
    /\ gate' = [gate EXCEPT ![at.k][g] = GateVerdict(g)]
    /\ UNCHANGED <<at, response, verdict, rows, work, run, faults, routerVars>>

\* The sandbox of a gate fails, which says nothing of the patch.
GateFails ==
    /\ At("gates") /\ faults < MaxFaults
    /\ faults' = faults + 1
    /\ Raise("host")
    /\ UNCHANGED <<files, recorded, filed, repair, work, run, routerVars>>

\* A slip: a patch is accepted as soon as a gate has passed.
JudgeFirstGate ==
    /\ At("gates")
    /\ \/ \E g \in Gates : gate[at.k][g] = "fail" /\ Goto("restore")
       \/ \E g \in Gates : gate[at.k][g] = "pass" /\ Goto("accept")
    /\ UNCHANGED <<files, rows, work, run, faults, routerVars>>

JudgeGates ==
    /\ At("gates")
    /\ \/ \E g \in Gates : gate[at.k][g] = "fail" /\ Goto("restore")
       \/ (\A g \in Gates : gate[at.k][g] = "pass") /\ Goto("accept")
    /\ UNCHANGED <<files, rows, work, run, faults, routerVars>>

\* _restore_rejected_patch, before the rejection is written.
Restore ==
    /\ At("restore")
    /\ tree' = Clean
    /\ Goto("reject")
    /\ UNCHANGED <<files, rows, head, run, faults, routerVars>>

WriteVerdict(v) ==
    /\ At(IF v = "rejected" THEN "reject" ELSE "accept")
    /\ verdict' = [verdict EXCEPT ![at.k] = v]
    /\ Goto("file")
    /\ UNCHANGED <<response, gate, rows, work, run, faults, routerVars>>

Repair(k) == IF k = 1 THEN "none" ELSE repair[k - 1]

\* register_artifact: always, but for a rejection read again, which is
\* registered with the repair it belongs to.
FileVerdict ==
    /\ At("file") \/ At("refile")
    /\ filed' = IF At("file") \/ verdict[at.k] = "accepted" \/ Repair(at.k) = "open"
                THEN filed \cup {at.k} ELSE filed
    /\ Goto("settle")
    /\ UNCHANGED <<files, tx, recorded, repair, work, run, faults, routerVars>>

\* A slip: the loop ends an attempt early.
SettleEarly ==
    /\ At("settle")
    /\ repair' = [n \in DOMAIN repair |-> IF n = at.k - 1 THEN "done" ELSE repair[n]]
    /\ CASE verdict[at.k] = "accepted" -> Goto("publish") /\ UNCHANGED tx
         [] verdict[at.k] = "rejected" /\ at.k < MaxRepairs -> GotoWith("attempt", at.k + 1) /\ UNCHANGED tx
         [] OTHER -> Raise("exhausted")
    /\ UNCHANGED <<files, recorded, filed, work, run, faults, routerVars>>

\* complete_experiment_repair, and what the verdict means for the loop.
Settle ==
    /\ At("settle")
    /\ repair' = [n \in DOMAIN repair |-> IF n = at.k - 1 THEN "done" ELSE repair[n]]
    /\ CASE verdict[at.k] = "accepted" -> Goto("publish") /\ UNCHANGED tx
         [] verdict[at.k] = "rejected" /\ at.k \in 1..MaxRepairs -> GotoWith("attempt", at.k + 1) /\ UNCHANGED tx
         [] OTHER -> Raise("exhausted")
    /\ UNCHANGED <<files, recorded, filed, work, run, faults, routerVars>>

\* patch.diff is written and registered, then the state moves.
Publish ==
    /\ At("publish")
    /\ tx' = [tx EXCEPT !.state = "PATCHED", !.patch = at.k]
    /\ Goto("dispatch")
    /\ UNCHANGED <<files, recorded, filed, repair, work, run, faults, routerVars>>

-------------------------------------------------------------------------------
(* The commit, and the way back to the run's own database.                 *)

\* _commit_or_recover: a clean worktree must already be ahead of its parent.
Commit ==
    /\ At("commit")
    /\ IF tree.patch # 0 THEN head' = tree.patch /\ tree' = Clean /\ Goto("stamp") /\ UNCHANGED tx
       ELSE IF head # 0 THEN Goto("stamp") /\ UNCHANGED <<tx, work>>
       ELSE Raise("lost") /\ UNCHANGED work
    /\ UNCHANGED <<files, recorded, filed, repair, run, faults, routerVars>>

\* record_experiment_workspace with the commit; prepare returns, and only then
\* is the id of the proposal compared with the one that was assigned.
Stamp ==
    /\ At("stamp")
    /\ Goto(IF Foreign THEN "failed" ELSE "mirror")
    /\ UNCHANGED <<files, rows, work, run, faults, routerVars>>

\* _mirror_preparation_llm_calls.
Mirror ==
    /\ At("mirror") \/ At("evidence")
    /\ mirrored' = mirrored \cup recorded
    /\ Goto(IF At("mirror") THEN "register" ELSE "abandon")
    /\ UNCHANGED <<files, rows, work, main, faults, routerVars>>

\* The supervisor's create_experiment, unless the proposal changed the parent.
Register ==
    /\ At("register") /\ main # "PREPARED"
    /\ IF response[0].kind = "redirected"
       THEN Goto("failed") /\ UNCHANGED main
       ELSE Goto("done") /\ main' = "PREPARED"
    /\ UNCHANGED <<files, rows, work, mirrored, faults, routerVars>>

\* _resume_live_candidate: the worktree of a registered candidate is rebuilt,
\* unless git still lists a deleted one.
ResumeCandidate ==
    /\ At("register") /\ main = "PREPARED"
    /\ IF tree = Gone
       THEN Goto("failed") /\ UNCHANGED tree
       ELSE Goto("done") /\ tree' = Clean
    /\ UNCHANGED <<files, rows, head, run, faults, routerVars>>

\* _record_preparation_failure, and the call ends with the exception.
ReportFailure ==
    /\ At("failed")
    /\ GotoWith("away", 0)
    /\ UNCHANGED <<files, rows, work, run, faults, routerVars>>

-------------------------------------------------------------------------------
(* _abandon_exhausted_preparation.                                         *)

CloseTransaction ==
    /\ At("final")
    /\ tx' = [tx EXCEPT !.state = "FAILED_FINAL"]
    /\ Goto("mainrow")
    /\ UNCHANGED <<files, recorded, filed, repair, work, run, faults, routerVars>>

EnsureMainRow ==
    /\ At("mainrow")
    /\ main' = IF main = "absent" THEN "PROPOSED" ELSE main
    /\ Goto("evidence")
    /\ UNCHANGED <<files, rows, work, mirrored, faults, routerVars>>

AbandonExperiment ==
    /\ At("abandon")
    /\ main' = IF main = "PROPOSED" THEN "ABANDONED" ELSE main
    /\ Goto("done")
    /\ UNCHANGED <<files, rows, work, mirrored, faults, routerVars>>

-------------------------------------------------------------------------------
(* The models and the faults.                                              *)

\* Failures of providers are counted with the other faults.
RouterStep ==
    /\ At("keep")
    /\ \/ RefuseCall /\ UNCHANGED faults
       \/ Request("answer") /\ UNCHANGED faults
       \/ \E outcome \in PaidOutcomes \ {"answer"} :
            /\ faults < MaxFaults /\ faults' = faults + 1
            /\ Request(outcome)
    /\ UNCHANGED <<at, files, rows, work, run>>

Kill ==
    /\ ~At("away") /\ faults < MaxFaults
    /\ faults' = faults + 1
    /\ GotoWith("away", 0)
    /\ call' = NoCall
    /\ UNCHANGED <<files, rows, work, run, ledger, billed>>

LoseWorktree ==
    /\ At("away") /\ tree \notin {Absent, Gone} /\ faults < MaxFaults
    /\ faults' = faults + 1
    /\ tree' = Gone
    /\ UNCHANGED <<at, files, rows, head, run, routerVars>>

\* git worktree prune: the operator's, or git's own after some months.
PruneWorktree ==
    /\ tree = Gone
    /\ tree' = Absent
    /\ UNCHANGED <<at, files, rows, head, run, faults, routerVars>>

Step ==
    \/ Enter \/ Propose \/ CreateExperiment \/ RecordDecision \/ EnsureWorkspace
    \/ Dispatch \/ BeginAttempt \/ Decide \/ NoAnswer
    \/ \E kind \in Proposals \cup Patches, adds \in BOOLEAN : Keep(kind, adds)
    \/ Judge \/ Apply \/ Audit \/ JudgeGates \/ Restore \/ FileVerdict \/ Settle \/ Publish
    \/ \E g \in Gates : RunGate(g)
    \/ \E v \in {"accepted", "rejected"} : WriteVerdict(v)
    \/ Commit \/ Stamp \/ Mirror \/ Register \/ ResumeCandidate \/ ReportFailure
    \/ CloseTransaction \/ EnsureMainRow \/ AbandonExperiment

Next == Step \/ RouterStep \/ GateFails \/ Kill \/ LoseWorktree \/ PruneWorktree

Safety == Init /\ [][Next]_patchVars

\* The process takes its steps and is started again after every end.
Spec == Safety /\ WF_patchVars(Step) /\ WF_patchVars(RouterStep)

===============================================================================
