------------------------- MODULE SubmissionCoordinator -------------------------
(***************************************************************************)
(* The commands that drive a submission job: FinalSubmissionCoordinator    *)
(* of rex/submission/coordinator.py with FilesystemHandoff, the staging of *)
(* rex/reporting/finalizer.py and the durable replay of the prediction     *)
(* worker.  Each coordinator is a process that runs finalize-submission or *)
(* handoff-submission, possibly at the same time as another; nothing but   *)
(* the worker's attempt lock keeps them apart.  A process may stop         *)
(* anywhere, killed or by an exception, and the command is run again.      *)
(*                                                                         *)
(* Its program counter is the state advance() read, or the name of a point *)
(* inside that state's handler.  The generated CSV, the checks' answers    *)
(* and the copied files are functions of what they are made from.          *)
(***************************************************************************)
EXTENDS SubmissionStore

CONSTANT MaxFaults  \* bound on stops and worker failures, for model checking

ASSUME FaultAssumption == MaxFaults \in Nat

VARIABLES
    ctl,        \* the local state of each coordinator
    lock,       \* the holder of the attempt's worker lock
    attempt,    \* the prediction attempt's directory: request and result
    staging,    \* the tree final.staging
    sealed,     \* the tree sealed
    temporary,  \* per target, the state of its .handoff-tmp directory
    delivered,  \* the targets that hold a bundle
    faults      \* stops and worker failures so far

fileVars == <<lock, attempt, staging, sealed, temporary, delivered>>
subVars == <<jobVars, ctl, fileVars, faults>>

\* What the stager copies, and what sealing requires.
Staged == {"winner", "csv"}
Required == Staged \cup {"second", "summary"}

\* A directory: its files, the scratch files of atomic writes under way, and
\* the inventory its manifest lists.
NoTree == [files |-> {}, scratch |-> {}, manifest |-> None]
Scratch == Coordinators \X (0..MaxFaults)
Inventories == [files : SUBSET Required, scratch : SUBSET Scratch]
Inventory(tree) == [files |-> tree.files, scratch |-> tree.scratch]

\* A slip: the inventory is not compared with the files.
ManifestPresent(tree) == tree.manifest # None

\* _validate_sealed and _validate_tree.
Intact(tree) == tree.manifest # None /\ tree.manifest = Inventory(tree)

Idle == [pc |-> "idle", request |-> None, todo |-> {}, inventory |-> None,
         target |-> None, life |-> 0]

Points == {"working", "predicted", "checked", "stage", "staged", "summary",
           "inventory", "manifest", "rename", "validate", "record", "authorize",
           "claim", "enter", "entered", "capability", "transport", "copying",
           "install", "copied", "close"}

Controls == [pc : JobStates \cup Points \cup {"idle", "loop"},
             request : Coordinators \cup {None}, todo : SUBSET Staged,
             inventory : Inventories \cup {None},
             target : Targets \cup {None}, life : 0..MaxFaults]
Trees == [files : SUBSET Required, scratch : SUBSET Scratch,
          manifest : Inventories \cup {None}]
Attempts == [request : Coordinators \cup {None}, result : {None, "success", "failure"}]

SubTypeOK ==
    /\ job \in JobStates \cup {None}
    /\ request \in Coordinators \cup {None}
    /\ seal \in Inventories \cup {None}
    /\ checked \subseteq {1, 2}
    /\ handoff \in Capabilities \cup {None}
    /\ ctl \in [Coordinators -> Controls]
    /\ lock \in Coordinators \cup {None}
    /\ attempt \in Attempts
    /\ staging \in Trees /\ sealed \in Trees
    /\ temporary \in [Targets -> {None, "partial", "whole"}]
    /\ delivered \subseteq Targets
    /\ faults \in 0..MaxFaults

SubInit ==
    /\ JobInit
    /\ ctl = [c \in Coordinators |-> Idle]
    /\ lock = None
    /\ attempt = [request |-> None, result |-> None]
    /\ staging = NoTree /\ sealed = NoTree
    /\ temporary = [t \in Targets |-> None]
    /\ delivered = {}
    /\ faults = 0

At(c, point) == ctl[c].pc = point
Goto(c, point) == ctl' = [ctl EXCEPT ![c].pc = point]
\* The command ends, by returning or by raising.
Leave(c) == ctl' = [ctl EXCEPT ![c] = Idle]
Token(c) == <<c, ctl[c].life>>

\* The last statement of a handler: transition(), which may raise.
MoveOn(c, point, from, to) ==
    /\ At(c, point)
    /\ \/ Transition(from, to) /\ Goto(c, "loop")
       \/ Refused(from, to) /\ Leave(c) /\ UNCHANGED job
    /\ UNCHANGED <<request, seal, checked, handoff, fileVars, faults>>

-------------------------------------------------------------------------------
(* finalize-submission: run_until_ready and the handlers of advance.       *)

Finalize(c) ==
    /\ At(c, "idle")
    /\ job \notin From("READY_FOR_HANDOFF") \cup Closed
    /\ CreateJob
    /\ ctl' = [ctl EXCEPT ![c].pc = "loop", ![c].life = faults]
    /\ UNCHANGED <<fileVars, faults>>

\* run_until_ready reads the job and dispatches on its state.
Advance(c) ==
    /\ At(c, "loop")
    /\ IF job \in From("READY_FOR_HANDOFF") \cup Closed
       THEN Leave(c)
       ELSE ctl' = [ctl EXCEPT ![c].pc = job, ![c].request = request]
    /\ UNCHANGED <<jobVars, fileVars, faults>>

VerifySource(c) == MoveOn(c, "CREATED", "CREATED", "SOURCE_VERIFIED")
PrepareWorktree(c) == MoveOn(c, "SOURCE_VERIFIED", "SOURCE_VERIFIED", "WORKTREE_READY")

\* _predict on a fresh job: build a request and persist it with the state.
\* A coordinator that finds the state already there goes on with its own.
PersistRequest(c) ==
    /\ At(c, "WORKTREE_READY")
    /\ \/ /\ Transition("WORKTREE_READY", "PREDICTING")
          /\ request' = Updates("WORKTREE_READY", request, c)
          /\ ctl' = [ctl EXCEPT ![c].pc = "PREDICTING", ![c].request = c]
       \/ Refused("WORKTREE_READY", "PREDICTING") /\ Leave(c) /\ UNCHANGED <<job, request>>
    /\ UNCHANGED <<seal, checked, handoff, fileVars, faults>>

\* A slip: the result of an earlier coordinator is not looked for.
StartWorkerAgain(c) ==
    /\ At(c, "PREDICTING")
    /\ lock = None
    /\ attempt.request \in {None, ctl[c].request}
    /\ lock' = c
    /\ attempt' = [request |-> ctl[c].request, result |-> None]
    /\ Goto(c, "working")
    /\ UNCHANGED <<jobVars, staging, sealed, temporary, delivered, faults>>

\* The worker: the attempt directory belongs to the first request it sees,
\* and a result in it is returned again, whether it is a success or not.
StartWorker(c) ==
    /\ At(c, "PREDICTING")
    /\ lock = None
    /\ attempt.request \in {None, ctl[c].request} /\ attempt.result = None
    /\ lock' = c
    /\ attempt' = [attempt EXCEPT !.request = ctl[c].request]
    /\ Goto(c, "working")
    /\ UNCHANGED <<jobVars, staging, sealed, temporary, delivered, faults>>

WorkerEnds(c) ==
    /\ At(c, "working")
    /\ lock' = None
    /\ \/ /\ attempt' = [attempt EXCEPT !.result = "success"]
          /\ Goto(c, "predicted") /\ UNCHANGED faults
       \/ /\ faults < MaxFaults
          /\ attempt' = [attempt EXCEPT !.result = "failure"]
          /\ Leave(c) /\ faults' = faults + 1
    /\ UNCHANGED <<jobVars, staging, sealed, temporary, delivered>>

ReplayWorker(c) ==
    /\ At(c, "PREDICTING")
    /\ lock = None /\ attempt.request = ctl[c].request /\ attempt.result # None
    /\ IF attempt.result = "success" THEN Goto(c, "predicted") ELSE Leave(c)
    /\ UNCHANGED <<jobVars, fileVars, faults>>

WorkerConflict(c) ==
    /\ At(c, "PREDICTING")
    /\ lock # None \/ attempt.request \notin {None, ctl[c].request}
    /\ Leave(c)
    /\ UNCHANGED <<jobVars, fileVars, faults>>

RecordPrediction(c) == MoveOn(c, "predicted", "PREDICTING", "PREDICTED")
BuildCsv(c) == MoveOn(c, "PREDICTED", "PREDICTED", "CSV_BUILT")

FirstCheck(c) ==
    /\ At(c, "CSV_BUILT")
    /\ RecordCheck(1)
    /\ Goto(c, "checked")
    /\ UNCHANGED <<fileVars, faults>>

PassFirstCheck(c) == MoveOn(c, "checked", "CSV_BUILT", "FIRST_CHECK_VALID")

BeginStaging(c) ==
    /\ At(c, "FIRST_CHECK_VALID")
    /\ \/ Transition("FIRST_CHECK_VALID", "STAGING") /\ Goto(c, "STAGING")
       \/ Refused("FIRST_CHECK_VALID", "STAGING") /\ Leave(c) /\ UNCHANGED job
    /\ UNCHANGED <<request, seal, checked, handoff, fileVars, faults>>

\* The stager looks for files that do not belong there.
ScanStaging(c) ==
    /\ At(c, "STAGING")
    /\ IF staging.files \subseteq Staged /\ staging.scratch = {} /\ staging.manifest = None
       THEN ctl' = [ctl EXCEPT ![c].pc = "stage", ![c].todo = Staged]
       ELSE Leave(c)
    /\ UNCHANGED <<jobVars, fileVars, faults>>

\* It copies what is not there, one file after the other.
StageFile(c) ==
    /\ At(c, "stage")
    /\ \E f \in ctl[c].todo :
         /\ staging' = [staging EXCEPT !.files = @ \cup {f}]
         /\ ctl' = [ctl EXCEPT ![c].todo = @ \ {f}]
    /\ UNCHANGED <<jobVars, lock, attempt, sealed, temporary, delivered, faults>>

\* It verifies the copies, and the checker runs on the copied CSV.
SecondCheck(c) ==
    /\ At(c, "stage") /\ ctl[c].todo = {}
    /\ IF Staged \subseteq staging.files
       THEN RecordCheck(2) /\ Goto(c, "staged")
       ELSE Leave(c) /\ UNCHANGED jobVars
    /\ UNCHANGED <<fileVars, faults>>

PassSecondCheck(c) == MoveOn(c, "staged", "STAGING", "SECOND_CHECK_VALID")

-------------------------------------------------------------------------------
(* _seal.                                                                  *)

\* A slip: sealing always starts from the staging tree.
BeginSealAfresh(c) ==
    /\ At(c, "SECOND_CHECK_VALID")
    /\ IF Staged \subseteq staging.files
       THEN /\ staging' = [staging EXCEPT !.files = @ \cup {"second"},
                                          !.scratch = @ \cup {Token(c)}]
            /\ Goto(c, "summary")
       ELSE Leave(c) /\ UNCHANGED staging
    /\ UNCHANGED <<jobVars, lock, attempt, sealed, temporary, delivered, faults>>

\* The second transcript is copied and the summary's atomic write begins.
BeginSeal(c) ==
    /\ At(c, "SECOND_CHECK_VALID")
    /\ IF sealed # NoTree THEN Goto(c, "validate") /\ UNCHANGED staging
       ELSE IF Staged \subseteq staging.files
       THEN /\ staging' = [staging EXCEPT !.files = @ \cup {"second"},
                                          !.scratch = @ \cup {Token(c)}]
            /\ Goto(c, "summary")
       ELSE Leave(c) /\ UNCHANGED staging
    /\ UNCHANGED <<jobVars, lock, attempt, sealed, temporary, delivered, faults>>

\* os.replace of the scratch file, which fails when the tree was moved away.
PublishSummary(c) ==
    /\ At(c, "summary")
    /\ IF Token(c) \in staging.scratch
       THEN /\ staging' = [staging EXCEPT !.files = @ \cup {"summary"},
                                          !.scratch = @ \ {Token(c)}]
            /\ Goto(c, "inventory")
       ELSE Leave(c) /\ UNCHANGED staging
    /\ UNCHANGED <<jobVars, lock, attempt, sealed, temporary, delivered, faults>>

\* Every file is listed; then the manifest's atomic write begins.
TakeInventory(c) ==
    /\ At(c, "inventory")
    /\ IF Required \subseteq staging.files
       THEN /\ ctl' = [ctl EXCEPT ![c].pc = "manifest", ![c].inventory = Inventory(staging)]
            /\ staging' = [staging EXCEPT !.scratch = @ \cup {Token(c)}]
       ELSE Leave(c) /\ UNCHANGED staging
    /\ UNCHANGED <<jobVars, lock, attempt, sealed, temporary, delivered, faults>>

PublishManifest(c) ==
    /\ At(c, "manifest")
    /\ IF Token(c) \in staging.scratch
       THEN /\ staging' = [staging EXCEPT !.manifest = ctl[c].inventory,
                                          !.scratch = @ \ {Token(c)}]
            /\ ctl' = [ctl EXCEPT ![c].pc = "rename", ![c].inventory = None]
       ELSE Leave(c) /\ UNCHANGED staging
    /\ UNCHANGED <<jobVars, lock, attempt, sealed, temporary, delivered, faults>>

\* os.replace(staging, sealed), which does not replace a tree that is there.
RenameStaging(c) ==
    /\ At(c, "rename")
    /\ IF staging # NoTree /\ sealed = NoTree
       THEN sealed' = staging /\ staging' = NoTree /\ Goto(c, "validate")
       ELSE Leave(c) /\ UNCHANGED <<staging, sealed>>
    /\ UNCHANGED <<jobVars, lock, attempt, temporary, delivered, faults>>

ValidateSealed(c) ==
    /\ At(c, "validate")
    /\ IF Intact(sealed) THEN Goto(c, "record") ELSE Leave(c)
    /\ UNCHANGED <<jobVars, fileVars, faults>>

RecordSeal(c) ==
    /\ At(c, "record")
    /\ \/ /\ Transition("SECOND_CHECK_VALID", "SEALED") /\ Goto(c, "loop")
          /\ seal' = Updates("SECOND_CHECK_VALID", seal, sealed.manifest)
       \/ Refused("SECOND_CHECK_VALID", "SEALED") /\ Leave(c) /\ UNCHANGED <<job, seal>>
    /\ UNCHANGED <<request, checked, handoff, fileVars, faults>>

BecomeReady(c) == MoveOn(c, "SEALED", "SEALED", "READY_FOR_HANDOFF")

-------------------------------------------------------------------------------
(* handoff-submission: handoff, authorize_handoff, the copy and            *)
(* complete_handoff.  The operator gives the seal the job recorded.        *)

Handoff(c, t) ==
    /\ At(c, "idle")
    /\ job \in {"READY_FOR_HANDOFF", "HANDOFF_IN_PROGRESS"}
    /\ ctl' = [ctl EXCEPT ![c].pc = IF job = "READY_FOR_HANDOFF"
                                    THEN "authorize" ELSE "capability",
                          ![c].target = t, ![c].life = faults]
    /\ UNCHANGED <<jobVars, fileVars, faults>>

\* authorize_handoff reads the state again before it writes the row.
ReadyToAuthorize(c) ==
    /\ At(c, "authorize")
    /\ CASE job = "READY_FOR_HANDOFF"   -> Goto(c, "claim")
         [] job = "HANDOFF_IN_PROGRESS" -> Goto(c, "entered")
         [] OTHER                       -> Leave(c)
    /\ UNCHANGED <<jobVars, fileVars, faults>>

ClaimHandoff(c) ==
    /\ At(c, "claim")
    /\ \/ Authorize(ctl[c].target) /\ Goto(c, "enter")
       \/ ~Entitled(ctl[c].target) /\ Leave(c) /\ UNCHANGED jobVars
    /\ UNCHANGED <<fileVars, faults>>

\* Its second transaction, which an operator's verdict can forestall.
EnterHandoff(c) ==
    /\ At(c, "enter")
    /\ \/ Transition("READY_FOR_HANDOFF", "HANDOFF_IN_PROGRESS") /\ Goto(c, "entered")
       \/ Refused("READY_FOR_HANDOFF", "HANDOFF_IN_PROGRESS") /\ Leave(c) /\ UNCHANGED job
    /\ UNCHANGED <<request, seal, checked, handoff, fileVars, faults>>

\* handoff() reads the job it has just authorized.
RereadJob(c) ==
    /\ At(c, "entered")
    /\ IF job = "HANDOFF_IN_PROGRESS" THEN Goto(c, "capability") ELSE Leave(c)
    /\ UNCHANGED <<jobVars, fileVars, faults>>

CheckCapability(c) ==
    /\ At(c, "capability")
    /\ IF handoff.target = ctl[c].target THEN Goto(c, "transport") ELSE Leave(c)
    /\ UNCHANGED <<jobVars, fileVars, faults>>

\* FilesystemHandoff: a target that is there must be the bundle; so must a
\* temporary tree that is there, which a stopped copy is not.
Transport(c) ==
    /\ At(c, "transport")
    /\ LET t == ctl[c].target
       IN  CASE ~Intact(sealed) \/ sealed.manifest # seal -> Leave(c) /\ UNCHANGED temporary
             [] t \in delivered -> Goto(c, "copied") /\ UNCHANGED temporary
             [] temporary[t] = "whole" -> Goto(c, "install") /\ UNCHANGED temporary
             [] temporary[t] = "partial" -> Leave(c) /\ UNCHANGED temporary
             [] OTHER -> /\ temporary' = [temporary EXCEPT ![t] = "partial"]
                         /\ Goto(c, "copying")
    /\ UNCHANGED <<jobVars, lock, attempt, staging, sealed, delivered, faults>>

FinishCopy(c) ==
    /\ At(c, "copying")
    /\ temporary' = [temporary EXCEPT ![ctl[c].target] = "whole"]
    /\ Goto(c, "install")
    /\ UNCHANGED <<jobVars, lock, attempt, staging, sealed, delivered, faults>>

\* os.replace(temporary, target): the other of two copiers finds it gone.
Install(c) ==
    /\ At(c, "install")
    /\ LET t == ctl[c].target
       IN  IF temporary[t] = "whole" /\ t \notin delivered
           THEN /\ delivered' = delivered \cup {t}
                /\ temporary' = [temporary EXCEPT ![t] = None]
                /\ Goto(c, "copied")
           ELSE Leave(c) /\ UNCHANGED <<temporary, delivered>>
    /\ UNCHANGED <<jobVars, lock, attempt, staging, sealed, faults>>

CompleteHandoff(c) ==
    /\ At(c, "copied")
    /\ MarkComplete
    /\ Goto(c, "close")
    /\ UNCHANGED <<fileVars, faults>>

\* The second transaction of complete_handoff, or the discovery that an
\* operator closed the job while it was being delivered.
CloseHandoff(c) ==
    /\ At(c, "close")
    /\ \/ Transition("HANDOFF_IN_PROGRESS", "HANDED_OFF")
       \/ Refused("HANDOFF_IN_PROGRESS", "HANDED_OFF") /\ UNCHANGED job
    /\ Leave(c)
    /\ UNCHANGED <<request, seal, checked, handoff, fileVars, faults>>

-------------------------------------------------------------------------------
\* An operator closes the job.
Close(verdict) == Terminate(verdict) /\ UNCHANGED <<ctl, fileVars, faults>>

\* A process is killed, or raises for a reason of its environment; the
\* operating system releases its lock and its files stay as they are.
Stop(c) ==
    /\ ~At(c, "idle") /\ faults < MaxFaults
    /\ Leave(c)
    /\ faults' = faults + 1
    /\ lock' = IF lock = c THEN None ELSE lock
    /\ UNCHANGED <<jobVars, attempt, staging, sealed, temporary, delivered>>

Predicting(c) ==
    \/ Finalize(c) \/ Advance(c) \/ VerifySource(c) \/ PrepareWorktree(c)
    \/ PersistRequest(c) \/ StartWorker(c) \/ WorkerEnds(c) \/ ReplayWorker(c)
    \/ WorkerConflict(c) \/ RecordPrediction(c)

Bundling(c) ==
    \/ BuildCsv(c) \/ FirstCheck(c) \/ PassFirstCheck(c) \/ BeginStaging(c)
    \/ ScanStaging(c) \/ StageFile(c) \/ SecondCheck(c) \/ PassSecondCheck(c)
    \/ BeginSeal(c) \/ PublishSummary(c) \/ TakeInventory(c) \/ PublishManifest(c)
    \/ RenameStaging(c) \/ ValidateSealed(c) \/ RecordSeal(c) \/ BecomeReady(c)

HandingOff(c) ==
    \/ \E t \in Targets : Handoff(c, t)
    \/ ReadyToAuthorize(c) \/ ClaimHandoff(c) \/ EnterHandoff(c) \/ RereadJob(c)
    \/ CheckCapability(c) \/ Transport(c) \/ FinishCopy(c) \/ Install(c)
    \/ CompleteHandoff(c) \/ CloseHandoff(c)

Work(c) == Predicting(c) \/ Bundling(c) \/ HandingOff(c)

SubNext ==
    \/ \E c \in Coordinators : Work(c) \/ Stop(c)
    \/ \E verdict \in Closed : Close(verdict)

SubSafety == SubInit /\ [][SubNext]_subVars

\* The operator repeats a handoff with the target that was authorized.
HandoffAgain(c) == handoff # None /\ Handoff(c, handoff.target)

\* A command that can take a step takes one, and is run again until the job is
\* handed over, not with a wrong target for ever; stops and verdicts are never
\* forced.
SubSpec ==
    SubSafety /\ \A c \in Coordinators : WF_subVars(Work(c)) /\ SF_subVars(HandoffAgain(c))

===============================================================================
