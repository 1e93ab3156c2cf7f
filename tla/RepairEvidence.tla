------------------------------ MODULE RepairEvidence ------------------------------
(***************************************************************************)
(* The repair of a failed rung: _handle_failure, _resume_repair and        *)
(* _execute_repair of rex/control/production_supervisor.py, and            *)
(* repair_candidate of rex/control/scientific_hooks.py with its replay.    *)
(*                                                                         *)
(* A repair leaves files one by one, for a live patch also a change and a  *)
(* commit in the worktree, and is finished by two transactions, the        *)
(* revision and the completion.  The process may die between any two, and  *)
(* what a later one finds decides how it goes on.                          *)
(***************************************************************************)
EXTENDS RungExecution

VARIABLES
    live,       \* whether a model is asked for patches, or the mode is "fixed"
    state,      \* the experiment's state
    failure,    \* the status in the last transition to FAILED_REPAIRABLE
    cause,      \* the failure each repair was reserved for
    begun,      \* repairs whose "repairing" transition is in the journal
    resumed,    \* repairs whose "completed" transition is in the journal
    revision,   \* the commit each repair made effective
    recorded,   \* the kinds of evidence each repair was completed with
    files,      \* what each repair has left in the run directory
    proof,      \* the evidence the supervisor holds
    head,       \* the worktree's commit, by the repair that made it
    dirty,      \* whether the worktree has an uncommitted change
    commit,     \* the experiment's commit_sha
    asked,      \* how often the provider was asked for each repair
    calls       \* repairs with a row in llm_calls

Repairs == 1..MaxRepairs
Kinds == {"torn", "config", "bare", "marked", "diff", "gates", "exchange", "update", "override"}
Finished == {"COMPLETE", "FAILED_FINAL"}

ledger == <<cause, begun, resumed, revision, recorded>>
worktree == <<head, dirty, commit>>
provider == <<asked, calls>>
repairVars == <<live, state, failure, ledger, files, proof, worktree, provider>>
vars == <<rungVars, repairVars>>

RepairJobs ==
    {"plan", "resume", "begin", "mend", "hook", "tear", "write", "shelve", "mark", "manifest",
     "live", "patch", "diff", "gates", "commit", "config", "exchange", "update", "override", "call",
     "apply", "complete", "mended"}

RepairTypeOK ==
    /\ job \in {"away", "rung", "pool", "passed"} \cup Statuses \cup RepairJobs
    /\ live \in BOOLEAN
    /\ state \in {"RUNNING", "FAILED_REPAIRABLE", "REPAIRING"} \cup Finished
    /\ failure \in Statuses \cup {None} /\ cause \in [Repairs -> Statuses \cup {None}]
    /\ begun \subseteq Repairs /\ resumed \subseteq Repairs
    /\ revision \in [Repairs -> Numbers \cup {None}]
    /\ recorded \in [Repairs -> SUBSET Kinds]
    /\ files \in [Repairs -> SUBSET Kinds] /\ proof \subseteq Kinds
    /\ head \in Numbers /\ dirty \in BOOLEAN /\ commit \in Numbers
    /\ asked \in [Repairs -> Nat] /\ calls \subseteq Repairs

RepairInit ==
    /\ live \in BOOLEAN /\ state = "RUNNING" /\ failure = None
    /\ cause = [n \in Repairs |-> None] /\ begun = {} /\ resumed = {}
    /\ revision = [n \in Repairs |-> None] /\ recorded = [n \in Repairs |-> {}]
    /\ files = [n \in Repairs |-> {}] /\ proof = {}
    /\ head = 0 /\ dirty = FALSE /\ commit = 0
    /\ asked = [n \in Repairs |-> 0] /\ calls = {}

Init == RungInit /\ RepairInit

Goto(point) == job' = point
Keep == UNCHANGED <<rung, used, attempts, threads, evidence, cache, faults>>
KeepRung == UNCHANGED <<rung, attempts, threads, evidence, cache, faults>>

-------------------------------------------------------------------------------
(* The supervisor enters the experiment, and leaves a rung.                *)

Enter ==
    /\ job = "away" /\ state \notin Finished
    /\ Goto(IF state = "RUNNING" THEN "rung" ELSE "resume")
    /\ UNCHANGED <<repairVars>> /\ Keep

\* The observations are recorded and the result becomes a durable artifact.
CompleteRung ==
    /\ job = "passed" /\ state' = "COMPLETE" /\ Goto("away")
    /\ UNCHANGED <<live, failure, ledger, files, proof, worktree, provider>> /\ Keep

\* _handle_failure: a worker that was interrupted is to be resumed, and the
\* failure is raised again before anything is recorded; the process ends.  The
\* next one replays the durable result that says so.
RaiseInterrupted ==
    /\ job = "INTERRUPTED" /\ Goto("away")
    /\ UNCHANGED repairVars /\ Keep

\* Any other failure is on record before its repair is reserved.
HandleFailure ==
    /\ job \in Statuses \ {"INTERRUPTED"}
    /\ state' = "FAILED_REPAIRABLE" /\ failure' = job /\ Goto("plan")
    /\ UNCHANGED <<live, ledger, files, proof, worktree, provider>> /\ Keep

\* plan_repair: of the other failures only a crash is never repaired.
Repairable == Statuses \ {"CRASH", "INTERRUPTED"}

\* A slip: a repair more than allowed.
OneMore == used <= MaxRepairs

AllowanceLeft == used < MaxRepairs

\* A failure without a repair is final; else one repair is reserved for it.
Plan ==
    /\ job = "plan" \/ (job = "resume" /\ used = 0)
    /\ IF failure \in Repairable /\ AllowanceLeft
       THEN /\ used' = used + 1 /\ cause' = [cause EXCEPT ![used + 1] = failure]
            /\ Goto("begin") /\ UNCHANGED state
       ELSE state' = "FAILED_FINAL" /\ Goto("away") /\ UNCHANGED <<used, cause>>
    /\ UNCHANGED <<live, failure, begun, resumed, revision, recorded, files, proof, worktree, provider>>
    /\ KeepRung

\* _resume_repair takes the latest reservation, complete or not.
ResumeRepair ==
    /\ job = "resume" /\ used > 0
    /\ Goto(IF state = "FAILED_REPAIRABLE" THEN "begin" ELSE "mend")
    /\ UNCHANGED repairVars /\ Keep

\* A transition that is in the journal already changes nothing.
BeginRepair ==
    /\ job = "begin" /\ begun' = begun \cup {used}
    /\ IF used \in begun THEN UNCHANGED state ELSE state' = "REPAIRING"
    /\ Goto("mend")
    /\ UNCHANGED <<live, failure, cause, resumed, revision, recorded, files, proof, worktree, provider>>
    /\ Keep

-------------------------------------------------------------------------------
(* The evidence a repair finds.                                            *)

Has(kind) == kind \in files[used]
Leave(kinds) == files' = [files EXCEPT ![used] = @ \cup kinds]

\* An exception of the repair is a final failure, if the state is what the
\* transition expects; the process ends otherwise.
FailRepair ==
    /\ state' = IF state = "REPAIRING" THEN "FAILED_FINAL" ELSE state
    /\ Goto("away")

KeepLedger == UNCHANGED <<live, failure, ledger>>

\* _recover_pending_repair_evidence: the candidate update or the override is
\* taken with the config it names, and the hook is not called.
FindEvidence ==
    /\ job = "mend"
    /\ IF Has("update") THEN proof' = {"config", "update"} /\ Goto("apply")
       ELSE IF Has("override") THEN proof' = {"override"} \cup (files[used] \cap {"config"}) /\ Goto("apply")
       ELSE Goto("hook") /\ UNCHANGED proof
    /\ UNCHANGED <<state, files, worktree, provider>> /\ KeepLedger /\ Keep

Reduces == cause[used] \in {"TIMEOUT", "OOM"} \/ (cause[used] = "NAN" /\ ~live)
Shelves == cause[used] = "INVALID_ARTIFACT"
Patches == live /\ ~Reduces /\ ~Shelves

\* _recover_partial_repair_evidence: a marked quarantine and a whole config get
\* their manifest; a config in a live mode was copied after the commit.
Recoverable ==
    IF Has("config") THEN Patches => head # commit /\ ~dirty /\ Has("diff")
                     ELSE ~Has("torn") /\ (Has("bare") => Has("marked"))

StartHook ==
    /\ job = "hook"
    /\ IF ~Recoverable \/ ~(Reduces \/ Shelves \/ Patches)
       THEN FailRepair
       ELSE /\ UNCHANGED state
            /\ Goto(IF Has("config") \/ Has("marked") THEN (IF Patches THEN "exchange" ELSE "manifest")
                    ELSE IF Reduces THEN "tear" ELSE IF Shelves THEN "shelve" ELSE "live")
    /\ UNCHANGED <<files, proof, worktree, provider>> /\ KeepLedger /\ Keep

-------------------------------------------------------------------------------
(* The fixed repairs: a config, or a quarantine.                           *)

\* write_text opens the file before it writes it.
TearConfig ==
    /\ job = "tear" /\ Leave({"torn"}) /\ Goto("write")
    /\ UNCHANGED <<state, proof, worktree, provider>> /\ KeepLedger /\ Keep

WriteConfig ==
    /\ job = "write" /\ files' = [files EXCEPT ![used] = {"config"}] /\ Goto("manifest")
    /\ UNCHANGED <<state, proof, worktree, provider>> /\ KeepLedger /\ Keep

\* _quarantine_failed_attempt: the directory written to last, if there is one.
Shelve ==
    /\ job = "shelve"
    /\ IF touched = None THEN Goto("manifest") /\ UNCHANGED files
       ELSE Leave({"bare"}) /\ Goto("mark")
    /\ UNCHANGED <<live, failure, ledger, state, proof, worktree, provider>> /\ Keep

Mark ==
    /\ job = "mark" /\ Leave({"marked"}) /\ Goto("manifest")
    /\ UNCHANGED <<state, proof, worktree, provider>> /\ KeepLedger /\ Keep

\* _write_fixed_repair_manifest.
WriteManifest ==
    /\ job = "manifest" /\ Leave({"override"}) /\ Goto("apply")
    /\ proof' = {"override"} \cup (files[used] \cap {"config", "marked"})
    /\ UNCHANGED <<state, worktree, provider>> /\ KeepLedger /\ Keep

-------------------------------------------------------------------------------
(* _live_patch_repair.                                                     *)

\* A slip: any worktree will do.
AnyTree == TRUE

\* The worktree is at the durable commit, and clean.
Fresh == head = commit /\ ~dirty

AskProvider ==
    /\ job = "live"
    /\ IF Fresh THEN /\ asked' = [asked EXCEPT ![used] = @ + 1] /\ Goto("patch") /\ UNCHANGED state
                ELSE FailRepair /\ UNCHANGED asked
    /\ UNCHANGED <<files, proof, worktree, calls>> /\ KeepLedger /\ Keep

ApplyPatch ==
    /\ job = "patch" /\ dirty' = TRUE /\ Goto("diff")
    /\ UNCHANGED <<state, files, proof, head, commit, provider>> /\ KeepLedger /\ Keep

KeepDiff ==
    /\ job = "diff" /\ Leave({"diff"}) /\ Goto("gates")
    /\ UNCHANGED <<state, proof, worktree, provider>> /\ KeepLedger /\ Keep

RunGates ==
    /\ job = "gates" /\ Leave({"gates"}) /\ Goto("commit")
    /\ UNCHANGED <<state, proof, worktree, provider>> /\ KeepLedger /\ Keep

CommitPatch ==
    /\ job = "commit" /\ head' = used /\ dirty' = FALSE /\ Goto("config")
    /\ UNCHANGED <<state, files, proof, commit, provider>> /\ KeepLedger /\ Keep

CopyConfig ==
    /\ job = "config" /\ Leave({"config"}) /\ Goto("exchange")
    /\ UNCHANGED <<state, proof, worktree, provider>> /\ KeepLedger /\ Keep

\* The request and the response; after a kill they are reconstructed.
KeepExchange ==
    /\ job = "exchange" /\ Leave({"exchange"}) /\ Goto("update")
    /\ UNCHANGED <<state, proof, worktree, provider>> /\ KeepLedger /\ Keep

WriteUpdate ==
    /\ job = "update" /\ Leave({"update"}) /\ Goto("override")
    /\ UNCHANGED <<state, proof, worktree, provider>> /\ KeepLedger /\ Keep

WriteOverride ==
    /\ job = "override" /\ Leave({"override"}) /\ Goto("call")
    /\ UNCHANGED <<state, proof, worktree, provider>> /\ KeepLedger /\ Keep

RecordCall ==
    /\ job = "call" /\ calls' = calls \cup {used} /\ proof' = files[used] /\ Goto("apply")
    /\ UNCHANGED <<state, files, worktree, asked>> /\ KeepLedger /\ Keep

-------------------------------------------------------------------------------
(* The revision, the completion and the way back to the rung.              *)

\* A slip: the experiment keeps its commit.
OldCommit == commit

\* A live update names the worktree's commit, which must still be there.
NewCommit == IF "update" \in proof THEN used ELSE commit

ApplyRevision ==
    /\ job = "apply"
    /\ IF "config" \notin proof THEN Goto("complete") /\ UNCHANGED <<state, revision, commit>>
       ELSE IF \/ "update" \in proof /\ (head # used \/ dirty)
               \/ revision[used] = None /\ state # "REPAIRING"
               \/ revision[used] # None /\ commit # NewCommit
       THEN FailRepair /\ UNCHANGED <<revision, commit>>
       ELSE /\ revision' = [revision EXCEPT ![used] = NewCommit] /\ commit' = NewCommit
            /\ Goto("complete") /\ UNCHANGED state
    /\ UNCHANGED <<live, failure, cause, begun, resumed, recorded, files, proof, head, dirty, provider>>
    /\ Keep

\* A completion is repeated with the same evidence, or refused.
CompleteRepair ==
    /\ job = "complete"
    /\ IF recorded[used] \in {{}, proof}
       THEN recorded' = [recorded EXCEPT ![used] = proof] /\ Goto("mended") /\ UNCHANGED state
       ELSE FailRepair /\ UNCHANGED recorded
    /\ UNCHANGED <<live, failure, cause, begun, resumed, revision, files, proof, worktree, provider>>
    /\ Keep

ResumeRung ==
    /\ job = "mended" /\ resumed' = resumed \cup {used}
    /\ state' = IF used \in resumed THEN state ELSE "RUNNING"
    /\ Goto(IF state' = "RUNNING" THEN "rung" ELSE "resume")
    /\ UNCHANGED <<live, failure, cause, begun, revision, recorded, files, proof, worktree, provider>>
    /\ Keep

-------------------------------------------------------------------------------
(* Faults, and the whole.                                                  *)

\* The process dies: its threads with it, the files and the tables stay.
Kill ==
    /\ job # "away" /\ Fault /\ Goto("away")
    /\ side' = [f \in Folds |-> [s \in Sides |-> Idle]]
    /\ fold' = [f \in Folds |-> "waiting"] /\ error' = [f \in Folds |-> None]
    /\ next' = 1 /\ stop' = FALSE /\ proof' = {}
    /\ UNCHANGED <<live, state, failure, ledger, files, worktree, provider>>
    /\ UNCHANGED <<rung, used, attempts, evidence, cache>>

HookPoints ==
    {"tear", "write", "shelve", "mark", "manifest", "live", "patch", "diff", "gates", "commit",
     "config", "exchange", "update", "override"}

\* The provider gives no usable patch, a gate refuses it, or the disk an action.
HookFails ==
    /\ job \in HookPoints
    /\ Fault /\ FailRepair
    /\ UNCHANGED <<live, failure, ledger, files, proof, worktree, provider>>
    /\ UNCHANGED <<rung, used, attempts, threads, evidence, cache>>

RepairStep ==
    \/ Enter \/ CompleteRung \/ RaiseInterrupted \/ HandleFailure \/ Plan \/ ResumeRepair \/ BeginRepair
    \/ FindEvidence \/ StartHook \/ TearConfig \/ WriteConfig \/ Shelve \/ Mark \/ WriteManifest
    \/ AskProvider \/ ApplyPatch \/ KeepDiff \/ RunGates \/ CommitPatch \/ CopyConfig
    \/ KeepExchange \/ WriteUpdate \/ WriteOverride \/ RecordCall
    \/ ApplyRevision \/ CompleteRepair \/ ResumeRung

Step == RepairStep \/ (RungStep /\ UNCHANGED repairVars)

Next == Step \/ Kill \/ HookFails

\* A process that ended is started again, and its threads go on.
Spec == Init /\ [][Next]_vars /\ WF_vars(Step)

===============================================================================
