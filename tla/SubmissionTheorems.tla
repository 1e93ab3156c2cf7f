--------------------------- MODULE SubmissionTheorems ---------------------------
(***************************************************************************)
(* A submission job for any number of concurrent commands, targets and     *)
(* stops.  The invariant describes what a command in the middle of a       *)
(* handler may rely on, although the state it read may be old.  For the    *)
(* bundle it says what a command at each point knows, and what no other    *)
(* command and no operator can undo: the bundle is delivered once, where   *)
(* the capability says, and the seal attests what is in it.                *)
(***************************************************************************)
EXTENDS SubmissionProperties, TLAPS

-----------------------------------------------------------------------------
(* The ladder of states.                                                     *)

LEMMA FollowsType ==
    ASSUME NEW from, NEW to, Follows(from, to)
    PROVE  from \in JobStates \ (Closed \cup {"HANDED_OFF"}) /\ to \in JobStates \ Closed
BY SMT DEF Follows, JobStates, Ladder, Closed

LEMMA StateNames ==
    JobStates = {"CREATED", "SOURCE_VERIFIED", "WORKTREE_READY", "PREDICTING",
                 "PREDICTED", "CSV_BUILT", "FIRST_CHECK_VALID", "STAGING",
                 "SECOND_CHECK_VALID", "SEALED", "READY_FOR_HANDOFF",
                 "HANDOFF_IN_PROGRESS", "HANDED_OFF", "REJECTED", "FAILED"}
BY SMT DEF JobStates, Ladder, Closed

-----------------------------------------------------------------------------
(* Type correctness, with what it needs: a command runs on a job that        *)
(* exists, and one that hands over has a target.                             *)

HandoffPoints == {"authorize", "claim", "enter", "entered", "capability",
                  "transport", "copying", "install", "copied", "close"}

Started == \A c \in Coordinators : ~At(c, "idle") => job # None
Aimed == \A c \in Coordinators : ctl[c].pc \in HandoffPoints => ctl[c].target \in Targets
Sound == SubTypeOK /\ Started /\ Aimed

LEMMA ControlType ==
    ASSUME SubTypeOK, NEW c \in Coordinators
    PROVE  /\ ctl[c] \in Controls
           /\ ctl[c].request \in Coordinators \cup {None}
           /\ ctl[c].todo \subseteq Staged
           /\ ctl[c].inventory \in Inventories \cup {None}
           /\ ctl[c].target \in Targets \cup {None}
           /\ ctl[c].life \in 0..MaxFaults
BY DEF SubTypeOK, Controls

\* A step of one command that leaves it with a proper record.
LEMMA ControlStep ==
    ASSUME Sound, NEW c \in Coordinators, NEW r \in Controls,
           ctl' = [ctl EXCEPT ![c] = r], job' # None,
           r.pc \in HandoffPoints => r.target \in Targets
    PROVE  ctl' \in [Coordinators -> Controls] /\ Started' /\ Aimed'
BY DEF Sound, SubTypeOK, Started, Aimed, At

\* The ways an action sets a command's record.
LEMMA GotoStep ==
    ASSUME Sound, NEW c \in Coordinators,
           NEW point \in JobStates \cup Points \cup {"loop"},
           Goto(c, point), job' # None,
           point \in HandoffPoints => ctl[c].pc \in HandoffPoints
    PROVE  ctl' \in [Coordinators -> Controls] /\ Started' /\ Aimed'
<1> DEFINE r == [ctl[c] EXCEPT !.pc = point]
<1>1. r \in Controls /\ r.pc = point /\ r.target = ctl[c].target
  BY DEF Sound, SubTypeOK, Controls
<1>2. ctl' = [ctl EXCEPT ![c] = r]
  BY DEF Goto
<1>3. r.pc \in HandoffPoints => r.target \in Targets
  BY <1>1 DEF Sound, Aimed
<1> QED
  BY <1>1, <1>2, <1>3, ControlStep

LEMMA LeaveStep ==
    ASSUME Sound, NEW c \in Coordinators, Leave(c), job' # None \/ job' = job
    PROVE  ctl' \in [Coordinators -> Controls] /\ Started' /\ Aimed'
<1>1. Idle \in Controls /\ Idle.pc = "idle"
  BY FaultAssumption DEF Idle, Controls
<1>2. ctl' \in [Coordinators -> Controls]
  BY <1>1 DEF Sound, SubTypeOK, Leave
<1>3. \A d \in Coordinators : ctl'[d] = IF d = c THEN Idle ELSE ctl[d]
  BY DEF Sound, SubTypeOK, Leave
<1> QED
  BY <1>1, <1>2, <1>3 DEF Sound, Started, Aimed, At, HandoffPoints

LEMMA MoveOnSound ==
    ASSUME Sound, NEW c \in Coordinators, NEW point, NEW from, NEW to,
           MoveOn(c, point, from, to), point \notin HandoffPoints
    PROVE  Sound'
<1>1. CASE Transition(from, to) /\ Goto(c, "loop")
  <2>1. job' \in JobStates /\ job' # None
    BY <1>1, FollowsType, StateNames, SubmissionAssumption DEF Transition
  <2>2. ctl' \in [Coordinators -> Controls] /\ Started' /\ Aimed'
    BY <1>1, <2>1, GotoStep DEF HandoffPoints
  <2> QED
    BY <2>1, <2>2 DEF MoveOn, Sound, SubTypeOK, fileVars
<1>2. CASE Leave(c) /\ UNCHANGED job
  BY <1>2, LeaveStep DEF MoveOn, Sound, SubTypeOK, fileVars
<1> QED
  BY <1>1, <1>2 DEF MoveOn

LEMMA PredictingSound ==
    ASSUME Sound, NEW c \in Coordinators, Predicting(c)
    PROVE  Sound'
<1> USE DEF Sound
<1>1. ASSUME Finalize(c) PROVE Sound'
  <2> DEFINE r == [ctl[c] EXCEPT !.pc = "loop", !.life = faults]
  <2>1. r \in Controls /\ r.pc = "loop"
    BY ControlType DEF Controls, SubTypeOK
  <2>2. ctl' = [ctl EXCEPT ![c] = r]
    BY <1>1 DEF Finalize
  <2>3. job' \in JobStates /\ job' # None
    BY <1>1, StateNames, SubmissionAssumption DEF Finalize, CreateJob, SubTypeOK
  <2>4. ctl' \in [Coordinators -> Controls] /\ Started' /\ Aimed'
    BY <2>1, <2>2, <2>3, ControlStep DEF HandoffPoints
  <2> QED
    BY <1>1, <2>3, <2>4 DEF Finalize, CreateJob, SubTypeOK, fileVars
<1>2. ASSUME Advance(c) PROVE Sound'
  <2>1. job \in JobStates
    BY <1>2 DEF Advance, Started, At, SubTypeOK
  <2>2. job' # None
    BY <1>2, <2>1, SubmissionAssumption DEF Advance, jobVars
  <2>3. CASE Leave(c)
    BY <1>2, <2>3, LeaveStep DEF Advance, SubTypeOK, jobVars, fileVars
  <2>4. CASE ctl' = [ctl EXCEPT ![c].pc = job, ![c].request = request]
    <3> DEFINE r == [ctl[c] EXCEPT !.pc = job, !.request = request]
    <3>1. r \in Controls /\ r.pc = job
      BY <2>1, ControlType DEF Controls, SubTypeOK
    <3>2. ctl' = [ctl EXCEPT ![c] = r]
      BY <2>4
    <3>3. job \notin HandoffPoints
      BY <2>1, StateNames DEF HandoffPoints
    <3>4. ctl' \in [Coordinators -> Controls] /\ Started' /\ Aimed'
      BY <2>2, <3>1, <3>2, <3>3, ControlStep
    <3> QED
      BY <1>2, <3>4 DEF Advance, SubTypeOK, jobVars, fileVars
  <2> QED
    BY <1>2, <2>3, <2>4 DEF Advance
<1>3. ASSUME PersistRequest(c) PROVE Sound'
  <2>1. CASE Leave(c) /\ UNCHANGED <<job, request>>
    BY <1>3, <2>1, LeaveStep DEF PersistRequest, SubTypeOK, fileVars
  <2>2. CASE /\ Transition("WORKTREE_READY", "PREDICTING")
             /\ request' = Updates("WORKTREE_READY", request, c)
             /\ ctl' = [ctl EXCEPT ![c].pc = "PREDICTING", ![c].request = c]
    <3> DEFINE r == [ctl[c] EXCEPT !.pc = "PREDICTING", !.request = c]
    <3>1. r \in Controls /\ r.pc = "PREDICTING"
      BY ControlType, StateNames DEF Controls, SubTypeOK
    <3>2. ctl' = [ctl EXCEPT ![c] = r]
      BY <2>2
    <3>3. job' \in JobStates /\ job' # None
      BY <2>2, FollowsType, SubmissionAssumption DEF Transition
    <3>4. ctl' \in [Coordinators -> Controls] /\ Started' /\ Aimed'
      BY <3>1, <3>2, <3>3, ControlStep DEF HandoffPoints
    <3>5. request' \in Coordinators \cup {None}
      BY <2>2 DEF Updates, SubTypeOK
    <3> QED
      BY <1>3, <3>3, <3>4, <3>5 DEF PersistRequest, SubTypeOK, fileVars
  <2> QED
    BY <1>3, <2>1, <2>2 DEF PersistRequest
<1>4. ASSUME StartWorker(c) PROVE Sound'
  <2>1. job' # None
    BY <1>4, StateNames DEF StartWorker, jobVars, Started, At
  <2>2. ctl' \in [Coordinators -> Controls] /\ Started' /\ Aimed'
    BY <1>4, <2>1, GotoStep DEF StartWorker, Points, HandoffPoints
  <2>3. attempt' \in Attempts
    BY <1>4, ControlType DEF StartWorker, SubTypeOK, Attempts
  <2> QED
    BY <1>4, <2>2, <2>3 DEF StartWorker, SubTypeOK, jobVars
<1>5. ASSUME WorkerEnds(c) PROVE Sound'
  <2>1. job' # None /\ job' = job
    BY <1>5 DEF WorkerEnds, jobVars, Started, At
  <2>2. ctl' \in [Coordinators -> Controls] /\ Started' /\ Aimed'
    BY <1>5, <2>1, GotoStep, LeaveStep DEF WorkerEnds, Points, HandoffPoints
  <2>3. attempt' \in Attempts
    BY <1>5 DEF WorkerEnds, SubTypeOK, Attempts
  <2>4. faults' \in 0..MaxFaults
    BY <1>5, FaultAssumption DEF WorkerEnds, SubTypeOK
  <2> QED
    BY <1>5, <2>2, <2>3, <2>4 DEF WorkerEnds, SubTypeOK, jobVars
<1>6. ASSUME ReplayWorker(c) \/ WorkerConflict(c) PROVE Sound'
  <2>1. job' # None /\ job' = job
    BY <1>6 DEF ReplayWorker, WorkerConflict, jobVars, Started, At
  <2>2. ctl' \in [Coordinators -> Controls] /\ Started' /\ Aimed'
    BY <1>6, <2>1, GotoStep, LeaveStep
       DEF ReplayWorker, WorkerConflict, Points, HandoffPoints
  <2> QED
    BY <1>6, <2>2 DEF ReplayWorker, WorkerConflict, SubTypeOK, jobVars, fileVars
<1>7. ASSUME VerifySource(c) \/ PrepareWorktree(c) \/ RecordPrediction(c) PROVE Sound'
  BY <1>7, MoveOnSound DEF VerifySource, PrepareWorktree, RecordPrediction, HandoffPoints
<1> QED
  BY <1>1, <1>2, <1>3, <1>4, <1>5, <1>6, <1>7 DEF Predicting

\* Scratch files and inventories are what their types say.
LEMMA TreeType ==
    ASSUME SubTypeOK, NEW c \in Coordinators
    PROVE  /\ Token(c) \in Scratch
           /\ Inventory(staging) \in Inventories
           /\ NoTree \in Trees
           /\ sealed.manifest \in Inventories \cup {None}
           /\ [staging EXCEPT !.files = @ \cup {"second"},
                              !.scratch = @ \cup {Token(c)}] \in Trees
           /\ [staging EXCEPT !.files = @ \cup {"summary"},
                              !.scratch = @ \ {Token(c)}] \in Trees
           /\ [staging EXCEPT !.scratch = @ \cup {Token(c)}] \in Trees
           /\ [staging EXCEPT !.manifest = ctl[c].inventory,
                              !.scratch = @ \ {Token(c)}] \in Trees
<1>1. Token(c) \in Scratch
  BY ControlType DEF Token, Scratch
<1>2. Inventory(staging) \in Inventories /\ NoTree \in Trees
  BY DEF SubTypeOK, Trees, Inventory, Inventories, NoTree
<1>3. sealed.manifest \in Inventories \cup {None}
  BY DEF SubTypeOK, Trees
<1>4. {"second", "summary"} \subseteq Required
  BY DEF Required
<1> QED
  BY <1>1, <1>2, <1>3, <1>4, ControlType DEF SubTypeOK, Trees

LEMMA BundlingSound ==
    ASSUME Sound, NEW c \in Coordinators, Bundling(c)
    PROVE  Sound'
<1> USE DEF Sound
<1>1. ASSUME BuildCsv(c) \/ PassFirstCheck(c) \/ PassSecondCheck(c) \/ BecomeReady(c)
      PROVE Sound'
  BY <1>1, MoveOnSound
     DEF BuildCsv, PassFirstCheck, PassSecondCheck, BecomeReady, HandoffPoints
<1>2. ASSUME FirstCheck(c) \/ SecondCheck(c) PROVE Sound'
  <2>1. job' # None /\ job' = job
    BY <1>2 DEF FirstCheck, SecondCheck, RecordCheck, jobVars, Started, At
  <2>2. ctl' \in [Coordinators -> Controls] /\ Started' /\ Aimed'
    BY <1>2, <2>1, GotoStep, LeaveStep DEF FirstCheck, SecondCheck, Points, HandoffPoints
  <2> QED
    BY <1>2, <2>2 DEF FirstCheck, SecondCheck, RecordCheck, SubTypeOK, jobVars, fileVars
<1>3. ASSUME BeginStaging(c) PROVE Sound'
  <2>1. CASE Transition("FIRST_CHECK_VALID", "STAGING") /\ Goto(c, "STAGING")
    <3>1. job' \in JobStates /\ job' # None
      BY <2>1, FollowsType, SubmissionAssumption DEF Transition
    <3>2. ctl' \in [Coordinators -> Controls] /\ Started' /\ Aimed'
      BY <2>1, <3>1, GotoStep, StateNames DEF HandoffPoints
    <3> QED
      BY <1>3, <3>1, <3>2 DEF BeginStaging, SubTypeOK, fileVars
  <2>2. CASE Leave(c) /\ UNCHANGED job
    BY <1>3, <2>2, LeaveStep DEF BeginStaging, SubTypeOK, fileVars
  <2> QED
    BY <1>3, <2>1, <2>2 DEF BeginStaging
<1>4. ASSUME ScanStaging(c) PROVE Sound'
  <2>1. job' # None /\ job' = job
    BY <1>4 DEF ScanStaging, jobVars, Started, At
  <2>2. ctl' \in [Coordinators -> Controls] /\ Started' /\ Aimed'
    <3> DEFINE r == [ctl[c] EXCEPT !.pc = "stage", !.todo = Staged]
    <3>1. r \in Controls /\ r.pc = "stage"
      BY ControlType DEF Controls, Points
    <3>2. ctl' = [ctl EXCEPT ![c] = r] \/ Leave(c)
      BY <1>4 DEF ScanStaging
    <3> QED
      BY <2>1, <3>1, <3>2, ControlStep, LeaveStep DEF HandoffPoints
  <2> QED
    BY <1>4, <2>2 DEF ScanStaging, SubTypeOK, jobVars, fileVars
<1>5. ASSUME StageFile(c) PROVE Sound'
  <2>1. PICK f \in ctl[c].todo :
           /\ staging' = [staging EXCEPT !.files = @ \cup {f}]
           /\ ctl' = [ctl EXCEPT ![c].todo = @ \ {f}]
    BY <1>5 DEF StageFile
  <2>2. job' # None /\ job' = job
    BY <1>5 DEF StageFile, jobVars, Started, At
  <2>3. ctl' \in [Coordinators -> Controls] /\ Started' /\ Aimed'
    <3> DEFINE r == [ctl[c] EXCEPT !.todo = @ \ {f}]
    <3>1. r \in Controls /\ r.pc = "stage"
      BY <1>5, ControlType DEF Controls, StageFile, At
    <3>2. ctl' = [ctl EXCEPT ![c] = r]
      BY <2>1
    <3> QED
      BY <2>2, <3>1, <3>2, ControlStep DEF HandoffPoints
  <2>4. f \in Required
    BY ControlType DEF Required
  <2>5. staging' \in Trees
    BY <2>1, <2>4 DEF SubTypeOK, Trees
  <2> QED
    BY <1>5, <2>3, <2>5 DEF StageFile, SubTypeOK, jobVars
<1>6. ASSUME BeginSeal(c) \/ PublishSummary(c) PROVE Sound'
  <2>1. job' # None /\ job' = job
    BY <1>6 DEF BeginSeal, PublishSummary, jobVars, Started, At
  <2>2. ctl' \in [Coordinators -> Controls] /\ Started' /\ Aimed'
    BY <1>6, <2>1, GotoStep, LeaveStep DEF BeginSeal, PublishSummary, Points, HandoffPoints
  <2>3. staging' \in Trees
    BY <1>6, TreeType DEF BeginSeal, PublishSummary, SubTypeOK
  <2> QED
    BY <1>6, <2>2, <2>3 DEF BeginSeal, PublishSummary, SubTypeOK, jobVars
<1>7. ASSUME TakeInventory(c) \/ PublishManifest(c) PROVE Sound'
  <2>1. job' # None /\ job' = job
    BY <1>7 DEF TakeInventory, PublishManifest, jobVars, Started, At
  <2>2. ctl' \in [Coordinators -> Controls] /\ Started' /\ Aimed'
    <3> DEFINE taken == [ctl[c] EXCEPT !.pc = "manifest", !.inventory = Inventory(staging)]
               written == [ctl[c] EXCEPT !.pc = "rename", !.inventory = None]
    <3>1. taken \in Controls /\ taken.pc = "manifest"
      BY ControlType, TreeType DEF Controls, Points
    <3>2. written \in Controls /\ written.pc = "rename"
      BY ControlType DEF Controls, Points
    <3>3. \/ ctl' = [ctl EXCEPT ![c] = taken]
          \/ ctl' = [ctl EXCEPT ![c] = written]
          \/ Leave(c)
      BY <1>7 DEF TakeInventory, PublishManifest
    <3> QED
      BY <2>1, <3>1, <3>2, <3>3, ControlStep, LeaveStep DEF HandoffPoints
  <2>3. staging' \in Trees
    BY <1>7, TreeType DEF TakeInventory, PublishManifest, SubTypeOK
  <2> QED
    BY <1>7, <2>2, <2>3 DEF TakeInventory, PublishManifest, SubTypeOK, jobVars
<1>8. ASSUME RenameStaging(c) \/ ValidateSealed(c) PROVE Sound'
  <2>1. job' # None /\ job' = job
    BY <1>8 DEF RenameStaging, ValidateSealed, jobVars, Started, At
  <2>2. ctl' \in [Coordinators -> Controls] /\ Started' /\ Aimed'
    BY <1>8, <2>1, GotoStep, LeaveStep
       DEF RenameStaging, ValidateSealed, Points, HandoffPoints
  <2>3. staging' \in Trees /\ sealed' \in Trees
    BY <1>8, TreeType DEF RenameStaging, ValidateSealed, SubTypeOK, fileVars
  <2> QED
    BY <1>8, <2>2, <2>3 DEF RenameStaging, ValidateSealed, SubTypeOK, jobVars, fileVars
<1>9. ASSUME RecordSeal(c) PROVE Sound'
  <2>1. CASE Leave(c) /\ UNCHANGED <<job, seal>>
    BY <1>9, <2>1, LeaveStep DEF RecordSeal, SubTypeOK, fileVars
  <2>2. CASE /\ Transition("SECOND_CHECK_VALID", "SEALED") /\ Goto(c, "loop")
             /\ seal' = Updates("SECOND_CHECK_VALID", seal, sealed.manifest)
    <3>1. job' \in JobStates /\ job' # None
      BY <2>2, FollowsType, SubmissionAssumption DEF Transition
    <3>2. ctl' \in [Coordinators -> Controls] /\ Started' /\ Aimed'
      BY <2>2, <3>1, GotoStep DEF HandoffPoints
    <3>3. seal' \in Inventories \cup {None}
      BY <2>2, TreeType DEF Updates, SubTypeOK
    <3> QED
      BY <1>9, <3>1, <3>2, <3>3 DEF RecordSeal, SubTypeOK, fileVars
  <2> QED
    BY <1>9, <2>1, <2>2 DEF RecordSeal
<1> QED
  BY <1>1, <1>2, <1>3, <1>4, <1>5, <1>6, <1>7, <1>8, <1>9 DEF Bundling

LEMMA HandingOffSound ==
    ASSUME Sound, NEW c \in Coordinators, HandingOff(c)
    PROVE  Sound'
<1> USE DEF Sound
<1>1. ASSUME NEW t \in Targets, Handoff(c, t) PROVE Sound'
  <2>1. job' # None /\ job' = job
    BY <1>1, StateNames, SubmissionAssumption DEF Handoff, jobVars
  <2> DEFINE point == IF job = "READY_FOR_HANDOFF" THEN "authorize" ELSE "capability"
             r == [ctl[c] EXCEPT !.pc = point, !.target = t, !.life = faults]
  <2>2. r \in Controls /\ r.target \in Targets
    <3>1. point \in Points
      BY DEF Points
    <3> HIDE DEF point
    <3> QED
      BY <3>1, ControlType DEF Controls, SubTypeOK
  <2>3. ctl' = [ctl EXCEPT ![c] = r]
    BY <1>1 DEF Handoff
  <2>4. ctl' \in [Coordinators -> Controls] /\ Started' /\ Aimed'
    BY <2>1, <2>2, <2>3, ControlStep
  <2> QED
    BY <1>1, <2>4 DEF Handoff, SubTypeOK, jobVars, fileVars
<1>2. ASSUME ReadyToAuthorize(c) \/ RereadJob(c) \/ CheckCapability(c) PROVE Sound'
  <2>1. job' # None /\ job' = job
    BY <1>2 DEF ReadyToAuthorize, RereadJob, CheckCapability, jobVars, Started, At
  <2>2. ctl' \in [Coordinators -> Controls] /\ Started' /\ Aimed'
    BY <1>2, <2>1, GotoStep, LeaveStep
       DEF ReadyToAuthorize, RereadJob, CheckCapability, At, Points, HandoffPoints
  <2> QED
    BY <1>2, <2>2
       DEF ReadyToAuthorize, RereadJob, CheckCapability, SubTypeOK, jobVars, fileVars
<1>3. ASSUME ClaimHandoff(c) PROVE Sound'
  <2>1. job' # None /\ job' = job
    BY <1>3 DEF ClaimHandoff, Authorize, jobVars, Started, At
  <2>2. ctl' \in [Coordinators -> Controls] /\ Started' /\ Aimed'
    BY <1>3, <2>1, GotoStep, LeaveStep DEF ClaimHandoff, At, Points, HandoffPoints
  <2>3. ctl[c].target \in Targets
    BY <1>3 DEF Aimed, ClaimHandoff, At, HandoffPoints
  <2>4. handoff' \in Capabilities \cup {None}
    BY <1>3, <2>3 DEF ClaimHandoff, Authorize, Capabilities, SubTypeOK, jobVars
  <2> QED
    BY <1>3, <2>2, <2>4 DEF ClaimHandoff, Authorize, SubTypeOK, jobVars, fileVars
<1>4. ASSUME EnterHandoff(c) PROVE Sound'
  <2>1. CASE /\ Transition("READY_FOR_HANDOFF", "HANDOFF_IN_PROGRESS")
             /\ Goto(c, "entered")
    <3>1. job' \in JobStates /\ job' # None
      BY <2>1, FollowsType, SubmissionAssumption DEF Transition
    <3>2. ctl' \in [Coordinators -> Controls] /\ Started' /\ Aimed'
      BY <1>4, <2>1, <3>1, GotoStep DEF EnterHandoff, At, Points, HandoffPoints
    <3> QED
      BY <1>4, <3>1, <3>2 DEF EnterHandoff, SubTypeOK, fileVars
  <2>2. CASE Leave(c) /\ UNCHANGED job
    BY <1>4, <2>2, LeaveStep DEF EnterHandoff, SubTypeOK, fileVars
  <2> QED
    BY <1>4, <2>1, <2>2 DEF EnterHandoff
<1>5. ASSUME Transport(c) \/ FinishCopy(c) \/ Install(c) PROVE Sound'
  <2>1. job' # None /\ job' = job
    BY <1>5 DEF Transport, FinishCopy, Install, jobVars, Started, At
  <2>2. Goto(c, "copied") \/ Goto(c, "install") \/ Goto(c, "copying") \/ Leave(c)
    BY <1>5 DEF Transport, FinishCopy, Install
  <2>3. ctl[c].pc \in HandoffPoints
    BY <1>5 DEF Transport, FinishCopy, Install, At, HandoffPoints
  <2>4. ctl' \in [Coordinators -> Controls] /\ Started' /\ Aimed'
    BY <2>1, <2>2, <2>3, GotoStep, LeaveStep DEF Points
  <2>5. ctl[c].target \in Targets
    BY <2>3 DEF Aimed
  <2>6. temporary' \in [Targets -> {None, "partial", "whole"}]
    BY <1>5 DEF Transport, FinishCopy, Install, SubTypeOK
  <2>7. delivered' \subseteq Targets
    BY <1>5, <2>5 DEF Transport, FinishCopy, Install, SubTypeOK
  <2> QED
    BY <1>5, <2>4, <2>6, <2>7 DEF Transport, FinishCopy, Install, SubTypeOK, jobVars
<1>6. ASSUME CompleteHandoff(c) PROVE Sound'
  <2>1. job' # None /\ job' = job
    BY <1>6 DEF CompleteHandoff, MarkComplete, Started, At
  <2>2. ctl' \in [Coordinators -> Controls] /\ Started' /\ Aimed'
    BY <1>6, <2>1, GotoStep DEF CompleteHandoff, At, Points, HandoffPoints
  <2>3. handoff' \in Capabilities
    BY <1>6 DEF CompleteHandoff, MarkComplete, Capabilities, SubTypeOK
  <2> QED
    BY <1>6, <2>2, <2>3 DEF CompleteHandoff, MarkComplete, SubTypeOK, fileVars
<1>7. ASSUME CloseHandoff(c) PROVE Sound'
  <2>1. job' \in JobStates \/ job' = job
    BY <1>7, FollowsType DEF CloseHandoff, Transition
  <2>2. ctl' \in [Coordinators -> Controls] /\ Started' /\ Aimed'
    BY <1>7, <2>1, LeaveStep, SubmissionAssumption DEF CloseHandoff
  <2> QED
    BY <1>7, <2>1, <2>2 DEF CloseHandoff, SubTypeOK, fileVars
<1> QED
  BY <1>1, <1>2, <1>3, <1>4, <1>5, <1>6, <1>7 DEF HandingOff

LEMMA SoundInit == SubInit => Sound
<1> SUFFICES ASSUME SubInit PROVE Sound
  OBVIOUS
<1>1. Idle \in Controls
  BY FaultAssumption DEF Idle, Controls
<1>2. SubTypeOK
  BY <1>1, FaultAssumption DEF SubInit, JobInit, SubTypeOK, NoTree, Trees, Attempts
<1> QED
  BY <1>2 DEF SubInit, Sound, Started, Aimed, At, Idle, HandoffPoints

LEMMA SoundStep == Sound /\ [SubNext]_subVars => Sound'
<1> SUFFICES ASSUME Sound, [SubNext]_subVars PROVE Sound'
  OBVIOUS
<1>1. CASE UNCHANGED subVars
  BY <1>1 DEF Sound, SubTypeOK, Started, Aimed, At, subVars, jobVars, fileVars
<1>2. ASSUME NEW c \in Coordinators, Work(c) PROVE Sound'
  BY <1>2, PredictingSound, BundlingSound, HandingOffSound DEF Work
<1>3. ASSUME NEW c \in Coordinators, Stop(c) PROVE Sound'
  <2>1. ctl' \in [Coordinators -> Controls] /\ Started' /\ Aimed'
    BY <1>3, LeaveStep DEF Stop, jobVars
  <2>2. faults' \in 0..MaxFaults
    BY <1>3, FaultAssumption DEF Stop, Sound, SubTypeOK
  <2> QED
    BY <1>3, <2>1, <2>2 DEF Stop, Sound, SubTypeOK, jobVars
<1>4. ASSUME NEW verdict \in Closed, Close(verdict) PROVE Sound'
  <2>1. job' \in JobStates /\ job' # None
    BY <1>4, SubmissionAssumption DEF Close, Terminate, JobStates
  <2> QED
    BY <1>4, <2>1 DEF Close, Terminate, Sound, SubTypeOK, Started, Aimed, At, fileVars
<1> QED
  BY <1>1, <1>2, <1>3, <1>4 DEF SubNext

(* Every file, row and local value keeps its type, however many commands run *)
(* at once and wherever they stop.                                           *)
THEOREM SubTypeCorrect == SubSafety => []SubTypeOK
<1>1. Sound => SubTypeOK
  BY DEF Sound
<1> QED
  BY <1>1, SoundInit, SoundStep, PTL DEF SubSafety

-----------------------------------------------------------------------------
(* Transitions.                                                              *)

\* What a statement that ends with a transition may do to the job.
Moves == \/ job' = job
         \/ \E from, to : Follows(from, to) /\ job \in {from, to} /\ job' = to

LEMMA WorkMoves ==
    ASSUME NEW c \in Coordinators, Work(c)
    PROVE  Moves \/ job = None
<1>1. CASE Predicting(c)
  BY <1>1 DEF Predicting, Finalize, CreateJob, Advance, VerifySource, PrepareWorktree,
     MoveOn, PersistRequest, StartWorker, WorkerEnds, ReplayWorker, WorkerConflict,
     RecordPrediction, Transition, Moves, jobVars
<1>2. CASE Bundling(c)
  BY <1>2 DEF Bundling, BuildCsv, FirstCheck, RecordCheck, PassFirstCheck, BeginStaging,
     ScanStaging, StageFile, SecondCheck, PassSecondCheck, BeginSeal, PublishSummary,
     TakeInventory, PublishManifest, RenameStaging, ValidateSealed, RecordSeal,
     BecomeReady, MoveOn, Transition, Moves, jobVars
<1>3. CASE HandingOff(c)
  BY <1>3 DEF HandingOff, Handoff, ReadyToAuthorize, ClaimHandoff, Authorize,
     EnterHandoff, RereadJob, CheckCapability, Transport, FinishCopy, Install,
     CompleteHandoff, MarkComplete, CloseHandoff, Transition, Moves, jobVars
<1> QED
  BY <1>1, <1>2, <1>3 DEF Work

(* No command, however old the state it acts on, moves the job back, past a  *)
(* state or out of a verdict: the compare-and-set of transition() is enough. *)
THEOREM TransitionsInOrder == SubSafety => NoStaleTransition
<1>1. [SubNext]_subVars =>
        [job # None /\ job' # job =>
           \/ Follows(job, job')
           \/ job \notin Closed \cup {"HANDED_OFF"} /\ job' \in Closed]_subVars
  <2> SUFFICES ASSUME [SubNext]_subVars, job # None, job' # job
               PROVE  \/ Follows(job, job')
                      \/ job \notin Closed \cup {"HANDED_OFF"} /\ job' \in Closed
    OBVIOUS
  <2>1. ASSUME NEW c \in Coordinators, Work(c) PROVE Follows(job, job')
    BY <2>1, WorkMoves DEF Moves
  <2>2. ASSUME NEW c \in Coordinators, Stop(c) PROVE FALSE
    BY <2>2 DEF Stop, jobVars
  <2>3. ASSUME NEW verdict \in Closed, Close(verdict)
        PROVE  job \notin Closed \cup {"HANDED_OFF"} /\ job' \in Closed
    BY <2>3 DEF Close, Terminate
  <2> QED
    BY <2>1, <2>2, <2>3 DEF SubNext, subVars, jobVars
<1> QED
  BY <1>1, PTL DEF SubSafety, NoStaleTransition

-----------------------------------------------------------------------------
(* The prediction.                                                           *)

\* The attempt lock is held by the one command whose worker runs, and its
\* attempt has no result yet.
WorkInv == \A c \in Coordinators : At(c, "working") => lock = c /\ attempt.result = None

\* Everything a command does but to start and to end its worker.
OffWork(c) ==
    /\ UNCHANGED <<lock, attempt>>
    /\ \A d \in Coordinators : At(d, "working")' => At(d, "working")

LEMMA LeavesWork ==
    ASSUME Sound, NEW c \in Coordinators, NEW point,
           Goto(c, point) \/ Leave(c), point # "working"
    PROVE  \A d \in Coordinators : At(d, "working")' => d # c /\ At(d, "working")
BY DEF Goto, Leave, At, Idle, Sound, SubTypeOK, Controls

LEMMA OtherWork ==
    ASSUME Sound, NEW c \in Coordinators, Work(c), ~StartWorker(c), ~WorkerEnds(c)
    PROVE  OffWork(c)
<1>1. ctl \in [Coordinators -> Controls] /\ ctl[c] \in Controls
  BY DEF Sound, SubTypeOK
<1>2. CASE Finalize(c)
  BY <1>1, <1>2 DEF Finalize, OffWork, At, Controls, fileVars
<1>3. CASE Advance(c)
  <2>1. job # "working"
    BY <1>3, StateNames, SubmissionAssumption
       DEF Advance, Sound, SubTypeOK, Started, At
  <2> QED
    BY <1>1, <1>3, <2>1, LeavesWork DEF Advance, OffWork, At, Controls, fileVars
<1>4. CASE PersistRequest(c)
  BY <1>1, <1>4, LeavesWork DEF PersistRequest, OffWork, At, Controls, fileVars
<1>5. CASE VerifySource(c) \/ PrepareWorktree(c) \/ RecordPrediction(c)
  BY <1>5, LeavesWork
     DEF VerifySource, PrepareWorktree, RecordPrediction, MoveOn, OffWork, fileVars
<1>6. CASE ReplayWorker(c) \/ WorkerConflict(c)
  BY <1>6, LeavesWork DEF ReplayWorker, WorkerConflict, OffWork, fileVars
<1>7. CASE \/ BuildCsv(c) \/ FirstCheck(c) \/ PassFirstCheck(c) \/ BeginStaging(c)
           \/ SecondCheck(c) \/ PassSecondCheck(c) \/ RecordSeal(c) \/ BecomeReady(c)
  BY <1>7, LeavesWork
     DEF BuildCsv, FirstCheck, PassFirstCheck, BeginStaging, SecondCheck, PassSecondCheck,
         RecordSeal, BecomeReady, MoveOn, OffWork, fileVars
<1>8. CASE ScanStaging(c) \/ StageFile(c)
  BY <1>1, <1>8, LeavesWork DEF ScanStaging, StageFile, OffWork, At, Controls, fileVars
<1>9. CASE TakeInventory(c) \/ PublishManifest(c)
  BY <1>1, <1>9, LeavesWork DEF TakeInventory, PublishManifest, OffWork, At, Controls
<1>10. CASE \/ BeginSeal(c) \/ PublishSummary(c) \/ RenameStaging(c) \/ ValidateSealed(c)
  BY <1>10, LeavesWork
     DEF BeginSeal, PublishSummary, RenameStaging, ValidateSealed, OffWork, fileVars
<1>11. ASSUME NEW t \in Targets, Handoff(c, t) PROVE OffWork(c)
  BY <1>1, <1>11 DEF Handoff, OffWork, At, Controls, fileVars
<1>12. CASE \/ ReadyToAuthorize(c) \/ ClaimHandoff(c) \/ EnterHandoff(c) \/ RereadJob(c)
            \/ CheckCapability(c) \/ CompleteHandoff(c) \/ CloseHandoff(c)
  BY <1>12, LeavesWork
     DEF ReadyToAuthorize, ClaimHandoff, EnterHandoff, RereadJob, CheckCapability,
         CompleteHandoff, CloseHandoff, OffWork, fileVars
<1>13. CASE Transport(c) \/ FinishCopy(c) \/ Install(c)
  BY <1>13, LeavesWork DEF Transport, FinishCopy, Install, OffWork
<1> QED
  BY <1>2, <1>3, <1>4, <1>5, <1>6, <1>7, <1>8, <1>9, <1>10, <1>11, <1>12, <1>13
     DEF Work, Predicting, Bundling, HandingOff

LEMMA WorkInvStep == Sound /\ WorkInv /\ [SubNext]_subVars => WorkInv'
<1> SUFFICES ASSUME Sound, WorkInv, [SubNext]_subVars PROVE WorkInv'
  OBVIOUS
<1>1. CASE UNCHANGED subVars
  BY <1>1 DEF WorkInv, At, subVars, fileVars
<1>2. ASSUME NEW c \in Coordinators, StartWorker(c) PROVE WorkInv'
  <2>1. \A d \in Coordinators : d # c => At(d, "working")' = At(d, "working")
    BY <1>2 DEF StartWorker, Goto, At, Sound, SubTypeOK
  <2>2. lock' = c /\ attempt'.result = None
    BY <1>2 DEF StartWorker, Sound, SubTypeOK, Attempts
  <2>3. \A d \in Coordinators : d # c => ~At(d, "working")
    BY <1>2, SubmissionAssumption DEF StartWorker, WorkInv
  <2> QED
    BY <2>1, <2>2, <2>3 DEF WorkInv
<1>3. ASSUME NEW c \in Coordinators, WorkerEnds(c) PROVE WorkInv'
  <2>1. \A d \in Coordinators : At(d, "working")' => d # c /\ At(d, "working")
    BY <1>3, LeavesWork DEF WorkerEnds
  <2> QED
    BY <1>3, <2>1 DEF WorkInv, WorkerEnds
<1>4. ASSUME NEW c \in Coordinators, Work(c), ~StartWorker(c), ~WorkerEnds(c)
      PROVE  WorkInv'
  BY <1>4, OtherWork DEF OffWork, WorkInv
<1>5. ASSUME NEW c \in Coordinators, Stop(c) PROVE WorkInv'
  <2>1. \A d \in Coordinators : At(d, "working")' => d # c /\ At(d, "working")
    BY <1>5, LeavesWork DEF Stop
  <2> QED
    BY <1>5, <2>1 DEF WorkInv, Stop
<1>6. ASSUME NEW verdict \in Closed, Close(verdict) PROVE WorkInv'
  BY <1>6 DEF Close, WorkInv, At, fileVars
<1> QED
  BY <1>1, <1>2, <1>3, <1>4, <1>5, <1>6 DEF SubNext

(* The test split is predicted once: a result in the attempt directory is    *)
(* never replaced, by a resumed command or by a concurrent one.              *)
THEOREM PredictedOnce == SubSafety => OnePrediction
<1>1. SubInit => WorkInv
  BY DEF SubInit, WorkInv, At, Idle
<1>2. WorkInv /\ Sound /\ [SubNext]_subVars =>
        [attempt.result # None => attempt' = attempt]_subVars
  <2> SUFFICES ASSUME WorkInv, Sound, [SubNext]_subVars, attempt.result # None
               PROVE  attempt' = attempt
    OBVIOUS
  <2>1. ASSUME NEW c \in Coordinators, Work(c) PROVE attempt' = attempt
    <3>1. ~StartWorker(c) /\ ~WorkerEnds(c)
      BY DEF StartWorker, WorkerEnds, WorkInv
    <3> QED
      BY <2>1, <3>1, OtherWork DEF OffWork
  <2> QED
    BY <2>1 DEF SubNext, Stop, Close, subVars, fileVars
<1> QED
  BY <1>1, <1>2, SoundInit, SoundStep, WorkInvStep, PTL DEF SubSafety, OnePrediction

-------------------------------------------------------------------------------
(* The bundle and its delivery.                                            *)

\* What a command at each point of sealing and handing over relies on.
Knows(c) ==
    /\ ctl[c].pc \in {"enter", "transport", "copying", "install", "copied", "close"} =>
         handoff # None /\ handoff.target = ctl[c].target
    /\ ctl[c].pc \in {"entered", "capability"} => handoff # None
    /\ ctl[c].pc \in {"copied", "close"} => ctl[c].target \in delivered
    /\ ctl[c].pc = "close" => handoff.status = "COMPLETE"
    /\ ctl[c].pc = "record" => sealed.manifest # None
    /\ ctl[c].pc = "claim" => seal # None

LateStates == {"SEALED", "READY_FOR_HANDOFF", "HANDOFF_IN_PROGRESS", "HANDED_OFF"}

\* The job's row, the capability and the destination agree.
RowsAgree ==
    /\ job \in LateStates => seal # None
    /\ job \in {"HANDOFF_IN_PROGRESS", "HANDED_OFF"} => handoff # None
    /\ job = "HANDED_OFF" => handoff.status = "COMPLETE"
    /\ handoff # None => /\ seal # None
                         /\ delivered \subseteq {handoff.target}
                         /\ handoff.status = "COMPLETE" => handoff.target \in delivered
    /\ handoff = None => delivered = {}

HandoffInv == Sound /\ RowsAgree /\ \A c \in Coordinators : Knows(c)

-----------------------------------------------------------------------------
\* What no step undoes.
Kept ==
    /\ handoff # None => /\ handoff' # None /\ handoff'.target = handoff.target
                         /\ handoff.status = "COMPLETE" => handoff'.status = "COMPLETE"
    /\ delivered \subseteq delivered'
    /\ seal # None => seal' # None
    /\ sealed.manifest # None => sealed'.manifest # None

LEMMA OthersKnow ==
    ASSUME HandoffInv, Kept, NEW d \in Coordinators, ctl'[d] = ctl[d]
    PROVE  Knows(d)'
BY DEF HandoffInv, Knows, Kept

\* A command at a point that no clause of Knows mentions.
KnowingPoints == {"enter", "transport", "copying", "install", "copied", "close",
                  "entered", "capability", "record", "claim"}

LEMMA NothingToKnow ==
    ASSUME NEW c \in Coordinators, ctl'[c].pc \notin KnowingPoints
    PROVE  Knows(c)'
BY DEF Knows, KnowingPoints

\* The record of the command that moves, and those of the others.
LEMMA AfterGoto ==
    ASSUME Sound, NEW c \in Coordinators, NEW point, Goto(c, point)
    PROVE  /\ ctl'[c].pc = point /\ ctl'[c].target = ctl[c].target
           /\ \A d \in Coordinators : d # c => ctl'[d] = ctl[d]
BY DEF Goto, Sound, SubTypeOK, Controls

LEMMA AfterLeave ==
    ASSUME Sound, NEW c \in Coordinators, Leave(c)
    PROVE  /\ ctl'[c].pc \notin KnowingPoints
           /\ \A d \in Coordinators : d # c => ctl'[d] = ctl[d]
BY DEF Leave, Idle, Sound, SubTypeOK, Controls, KnowingPoints

LEMMA JobNotKnowing ==
    ASSUME NEW state \in JobStates
    PROVE  state \notin KnowingPoints
BY StateNames DEF KnowingPoints

\* A transition before the seal is recorded leaves the late states alone.
LEMMA EarlyMove ==
    ASSUME HandoffInv, NEW c \in Coordinators, NEW point, NEW from, NEW to,
           MoveOn(c, point, from, to), to \notin LateStates \/ from = "SEALED",
           to \notin {"HANDOFF_IN_PROGRESS", "HANDED_OFF"}
    PROVE  RowsAgree' /\ \A d \in Coordinators : Knows(d)'
<1>1. Kept
  BY DEF MoveOn, fileVars, Kept
<1>2. ctl'[c].pc \notin KnowingPoints /\ \A d \in Coordinators : d # c => ctl'[d] = ctl[d]
  <2>1. CASE Goto(c, "loop")
    BY <2>1, AfterGoto DEF HandoffInv, KnowingPoints
  <2>2. CASE Leave(c)
    BY <2>2, AfterLeave DEF HandoffInv
  <2> QED
    BY <2>1, <2>2 DEF MoveOn
<1>3. job' = job \/ (job' = to /\ (job' \in LateStates => seal # None))
  BY FollowsType DEF MoveOn, Transition, HandoffInv, RowsAgree, LateStates
<1>4. RowsAgree'
  BY <1>3 DEF MoveOn, fileVars, HandoffInv, RowsAgree, LateStates
<1> QED
  BY <1>1, <1>2, <1>4, OthersKnow, NothingToKnow

\* A step that changes neither the rows nor what was delivered, and leaves
\* the command at a point where there is nothing to know.
Uninvolved(c) ==
    /\ UNCHANGED <<handoff, delivered, seal>>
    /\ job' = job \/ job' \notin LateStates
    /\ sealed.manifest # None => sealed' = sealed
    /\ ctl'[c].pc \notin KnowingPoints
    /\ \A d \in Coordinators : d # c => ctl'[d] = ctl[d]

LEMMA UninvolvedStep ==
    ASSUME HandoffInv, NEW c \in Coordinators, Uninvolved(c)
    PROVE  RowsAgree' /\ \A d \in Coordinators : Knows(d)'
<1>1. Kept
  BY DEF Uninvolved, Kept
<1>2. RowsAgree'
  BY DEF Uninvolved, HandoffInv, RowsAgree, LateStates
<1> QED
  BY <1>1, <1>2, OthersKnow, NothingToKnow DEF Uninvolved

LEMMA PredictingUninvolved ==
    ASSUME HandoffInv, NEW c \in Coordinators, Predicting(c)
    PROVE  RowsAgree' /\ \A d \in Coordinators : Knows(d)'
<1>1. ctl \in [Coordinators -> Controls]
  BY DEF HandoffInv, Sound, SubTypeOK
<1>2. CASE Finalize(c)
  <2>1. /\ ctl'[c].pc = "loop"
        /\ \A d \in Coordinators : d # c => ctl'[d] = ctl[d]
    BY <1>1, <1>2 DEF Finalize, Controls
  <2>2. Uninvolved(c)
    BY <1>2, <2>1 DEF Finalize, CreateJob, Uninvolved, KnowingPoints, LateStates, fileVars
  <2> QED
    BY <2>2, UninvolvedStep
<1>3. CASE Advance(c)
  <2>1. ctl'[c].pc \notin KnowingPoints /\ \A d \in Coordinators : d # c => ctl'[d] = ctl[d]
    <3>1. job \notin KnowingPoints
      BY <1>3, JobNotKnowing DEF Advance, HandoffInv, Sound, Started, SubTypeOK, At
    <3>2. CASE ctl' = [ctl EXCEPT ![c].pc = job, ![c].request = request]
      BY <1>1, <3>1, <3>2 DEF Controls
    <3>3. CASE Leave(c)
      BY <3>3, AfterLeave DEF HandoffInv
    <3> QED
      BY <1>3, <3>2, <3>3 DEF Advance
  <2>2. Uninvolved(c)
    BY <1>3, <2>1 DEF Advance, Uninvolved, jobVars, fileVars
  <2> QED
    BY <2>2, UninvolvedStep
<1>4. CASE PersistRequest(c)
  <2>1. ctl'[c].pc \notin KnowingPoints /\ \A d \in Coordinators : d # c => ctl'[d] = ctl[d]
    <3>1. CASE ctl' = [ctl EXCEPT ![c].pc = "PREDICTING", ![c].request = c]
      BY <1>1, <3>1 DEF Controls, KnowingPoints
    <3>2. CASE Leave(c)
      BY <3>2, AfterLeave DEF HandoffInv
    <3> QED
      BY <1>4, <3>1, <3>2 DEF PersistRequest
  <2>2. Uninvolved(c)
    BY <1>4, <2>1 DEF PersistRequest, Transition, Uninvolved, LateStates, fileVars
  <2> QED
    BY <2>2, UninvolvedStep
<1>5. CASE StartWorker(c) \/ WorkerEnds(c) \/ ReplayWorker(c) \/ WorkerConflict(c)
  <2>1. Goto(c, "working") \/ Goto(c, "predicted") \/ Leave(c)
    BY <1>5 DEF StartWorker, WorkerEnds, ReplayWorker, WorkerConflict
  <2>2. ctl'[c].pc \notin KnowingPoints /\ \A d \in Coordinators : d # c => ctl'[d] = ctl[d]
    BY <2>1, AfterGoto, AfterLeave DEF HandoffInv, KnowingPoints
  <2>3. Uninvolved(c)
    BY <1>5, <2>2 DEF StartWorker, WorkerEnds, ReplayWorker, WorkerConflict, Uninvolved,
       jobVars, fileVars
  <2> QED
    BY <2>3, UninvolvedStep
<1>6. CASE VerifySource(c) \/ PrepareWorktree(c) \/ RecordPrediction(c)
  BY <1>6, EarlyMove DEF VerifySource, PrepareWorktree, RecordPrediction, LateStates
<1> QED
  BY <1>2, <1>3, <1>4, <1>5, <1>6 DEF Predicting

LEMMA BundlingUninvolved ==
    ASSUME HandoffInv, NEW c \in Coordinators, Bundling(c)
    PROVE  RowsAgree' /\ \A d \in Coordinators : Knows(d)'
<1>1. ctl \in [Coordinators -> Controls]
  BY DEF HandoffInv, Sound, SubTypeOK
<1>2. CASE BuildCsv(c) \/ PassFirstCheck(c) \/ PassSecondCheck(c) \/ BecomeReady(c)
  BY <1>2, EarlyMove
     DEF BuildCsv, PassFirstCheck, PassSecondCheck, BecomeReady, LateStates
<1>3. CASE FirstCheck(c) \/ SecondCheck(c) \/ BeginStaging(c)
  <2>1. Goto(c, "checked") \/ Goto(c, "staged") \/ Goto(c, "STAGING") \/ Leave(c)
    BY <1>3 DEF FirstCheck, SecondCheck, BeginStaging
  <2>2. ctl'[c].pc \notin KnowingPoints /\ \A d \in Coordinators : d # c => ctl'[d] = ctl[d]
    BY <2>1, AfterGoto, AfterLeave DEF HandoffInv, KnowingPoints
  <2>3. Uninvolved(c)
    BY <1>3, <2>2 DEF FirstCheck, SecondCheck, BeginStaging, RecordCheck, Transition,
       Uninvolved, LateStates, jobVars, fileVars
  <2> QED
    BY <2>3, UninvolvedStep
<1>4. CASE ScanStaging(c) \/ StageFile(c) \/ TakeInventory(c) \/ PublishManifest(c)
  <2>1. ctl'[c].pc \notin KnowingPoints /\ \A d \in Coordinators : d # c => ctl'[d] = ctl[d]
    <3>1. CASE ScanStaging(c) /\ ~Leave(c)
      BY <1>1, <3>1 DEF ScanStaging, Controls, KnowingPoints
    <3>2. CASE StageFile(c)
      BY <1>1, <3>2 DEF StageFile, At, Controls, KnowingPoints
    <3>3. CASE (TakeInventory(c) \/ PublishManifest(c)) /\ ~Leave(c)
      BY <1>1, <3>3 DEF TakeInventory, PublishManifest, Controls, KnowingPoints
    <3>4. CASE Leave(c)
      BY <3>4, AfterLeave DEF HandoffInv
    <3> QED
      BY <1>4, <3>1, <3>2, <3>3, <3>4
  <2>2. Uninvolved(c)
    BY <1>4, <2>1 DEF ScanStaging, StageFile, TakeInventory, PublishManifest, Uninvolved,
       jobVars, fileVars
  <2> QED
    BY <2>2, UninvolvedStep
<1>5. CASE BeginSeal(c) \/ PublishSummary(c) \/ RenameStaging(c)
  <2>1. \/ Goto(c, "validate") \/ Goto(c, "summary") \/ Goto(c, "inventory")
        \/ Leave(c)
    BY <1>5 DEF BeginSeal, PublishSummary, RenameStaging
  <2>2. ctl'[c].pc \notin KnowingPoints /\ \A d \in Coordinators : d # c => ctl'[d] = ctl[d]
    BY <2>1, AfterGoto, AfterLeave DEF HandoffInv, KnowingPoints
  <2>3. sealed.manifest # None => sealed' = sealed
    BY <1>5 DEF BeginSeal, PublishSummary, RenameStaging, NoTree
  <2>4. Uninvolved(c)
    BY <1>5, <2>2, <2>3 DEF BeginSeal, PublishSummary, RenameStaging, Uninvolved, jobVars
  <2> QED
    BY <2>4, UninvolvedStep
<1>6. CASE ValidateSealed(c)
  <2>1. Kept /\ RowsAgree'
    BY <1>6 DEF ValidateSealed, HandoffInv, Kept, RowsAgree, jobVars, fileVars
  <2>2. Knows(c)'
    <3>1. CASE Intact(sealed) /\ Goto(c, "record")
      BY <1>6, <3>1, AfterGoto DEF ValidateSealed, Intact, HandoffInv, Knows, fileVars
    <3>2. CASE Leave(c)
      BY <3>2, AfterLeave, NothingToKnow DEF HandoffInv
    <3> QED
      BY <1>6, <3>1, <3>2 DEF ValidateSealed
  <2>3. \A d \in Coordinators : d # c => ctl'[d] = ctl[d]
    BY <1>6, AfterGoto, AfterLeave DEF ValidateSealed, HandoffInv
  <2> QED
    BY <2>1, <2>2, <2>3, OthersKnow
<1>7. CASE RecordSeal(c)
  <2>1. sealed.manifest # None
    BY <1>7 DEF RecordSeal, At, HandoffInv, Knows
  <2>2. ctl'[c].pc \notin KnowingPoints /\ \A d \in Coordinators : d # c => ctl'[d] = ctl[d]
    <3>1. CASE Goto(c, "loop")
      BY <3>1, AfterGoto DEF HandoffInv, KnowingPoints
    <3>2. CASE Leave(c)
      BY <3>2, AfterLeave DEF HandoffInv
    <3> QED
      BY <1>7, <3>1, <3>2 DEF RecordSeal
  <2>3. Kept
    BY <1>7, <2>1 DEF RecordSeal, Updates, Kept, fileVars
  <2>4. RowsAgree'
    BY <1>7, <2>1 DEF RecordSeal, Transition, Updates, HandoffInv, RowsAgree, LateStates,
       fileVars
  <2> QED
    BY <2>2, <2>3, <2>4, OthersKnow, NothingToKnow
<1> QED
  BY <1>2, <1>3, <1>4, <1>5, <1>6, <1>7 DEF Bundling

\* The rows are as before; the command now knows what its point asks for.
LEMMA Learns ==
    ASSUME HandoffInv, NEW c \in Coordinators, NEW point, Goto(c, point), Kept, RowsAgree',
           point \in {"enter", "transport", "copying", "install", "copied", "close"} =>
             handoff' # None /\ handoff'.target = ctl[c].target,
           point \in {"entered", "capability"} => handoff' # None,
           point \in {"copied", "close"} => ctl[c].target \in delivered',
           point = "close" => handoff'.status = "COMPLETE",
           point # "record",
           point = "claim" => seal' # None
    PROVE  RowsAgree' /\ \A d \in Coordinators : Knows(d)'
<1>1. /\ ctl'[c].pc = point /\ ctl'[c].target = ctl[c].target
      /\ \A d \in Coordinators : d # c => ctl'[d] = ctl[d]
  BY AfterGoto DEF HandoffInv
<1>2. Knows(c)'
  BY <1>1 DEF Knows
<1> QED
  BY <1>1, <1>2, OthersKnow

LEMMA Forgets ==
    ASSUME HandoffInv, NEW c \in Coordinators, Leave(c), Kept, RowsAgree'
    PROVE  RowsAgree' /\ \A d \in Coordinators : Knows(d)'
BY AfterLeave, NothingToKnow, OthersKnow DEF HandoffInv

LEMMA HandingOffStep ==
    ASSUME HandoffInv, NEW c \in Coordinators, HandingOff(c)
    PROVE  RowsAgree' /\ \A d \in Coordinators : Knows(d)'
<1>1. ASSUME UNCHANGED <<jobVars, delivered, sealed>> PROVE Kept /\ RowsAgree'
  BY <1>1 DEF jobVars, Kept, HandoffInv, RowsAgree
<1>2. ASSUME NEW t \in Targets, Handoff(c, t)
      PROVE  RowsAgree' /\ \A d \in Coordinators : Knows(d)'
  <2>1. Kept /\ RowsAgree'
    BY <1>1, <1>2 DEF Handoff, fileVars
  <2>2. /\ ctl'[c].pc \in {"authorize", "capability"}
        /\ ctl'[c].pc = "capability" => job = "HANDOFF_IN_PROGRESS"
        /\ \A d \in Coordinators : d # c => ctl'[d] = ctl[d]
    BY <1>2 DEF Handoff, HandoffInv, Sound, SubTypeOK, Controls
  <2>3. ctl'[c].pc = "capability" => handoff' # None
    BY <2>1, <2>2 DEF HandoffInv, RowsAgree, Kept
  <2>4. Knows(c)'
    BY <2>2, <2>3 DEF Knows
  <2> QED
    BY <2>1, <2>2, <2>4, OthersKnow
<1>3. CASE ReadyToAuthorize(c)
  <2>1. Kept /\ RowsAgree'
    BY <1>1, <1>3 DEF ReadyToAuthorize, fileVars
  <2>2. CASE job = "READY_FOR_HANDOFF" /\ Goto(c, "claim")
    <3>1. seal' # None
      BY <2>1, <2>2 DEF Kept, HandoffInv, RowsAgree, LateStates
    <3> QED
      BY <2>1, <2>2, <3>1, Learns
  <2>3. CASE job = "HANDOFF_IN_PROGRESS" /\ Goto(c, "entered")
    <3>1. handoff' # None
      BY <2>1, <2>3 DEF Kept, HandoffInv, RowsAgree
    <3> QED
      BY <2>1, <2>3, <3>1, Learns
  <2>4. CASE Leave(c)
    BY <2>1, <2>4, Forgets
  <2> QED
    BY <1>3, <2>2, <2>3, <2>4 DEF ReadyToAuthorize
<1>4. CASE ClaimHandoff(c)
  <2>1. CASE Authorize(ctl[c].target) /\ Goto(c, "enter")
    <3>1. seal # None /\ Entitled(ctl[c].target)
      BY <1>4, <2>1 DEF ClaimHandoff, Authorize, At, HandoffInv, Knows
    <3>2. ctl[c].target \in Targets
      BY <1>4 DEF ClaimHandoff, At, HandoffInv, Sound, Aimed, HandoffPoints
    <3>3. /\ handoff # None => handoff' = handoff
          /\ handoff = None =>
               handoff' = [target |-> ctl[c].target, status |-> "AUTHORIZED"]
      BY <2>1 DEF Authorize
    <3>4. handoff' # None /\ handoff'.target = ctl[c].target
      BY <2>1, <3>1, <3>2, <3>3, SubmissionAssumption DEF Entitled, Capabilities
    <3>5. Kept
      BY <1>4, <2>1, <3>3, <3>4 DEF ClaimHandoff, Authorize, Kept, fileVars
    <3>6. RowsAgree'
      <4>1. CASE handoff = None
        BY <1>4, <2>1, <3>1, <3>3, <3>4, <4>1
           DEF ClaimHandoff, Authorize, HandoffInv, RowsAgree, LateStates, fileVars
      <4>2. CASE handoff # None
        BY <1>4, <2>1, <3>3, <4>2
           DEF ClaimHandoff, Authorize, HandoffInv, RowsAgree, LateStates, fileVars
      <4> QED
        BY <4>1, <4>2
    <3> QED
      BY <2>1, <3>4, <3>5, <3>6, Learns
  <2>2. CASE Leave(c) /\ UNCHANGED jobVars
    <3>1. Kept /\ RowsAgree'
      BY <1>1, <1>4, <2>2 DEF ClaimHandoff, fileVars
    <3> QED
      BY <2>2, <3>1, Forgets
  <2> QED
    BY <1>4, <2>1, <2>2 DEF ClaimHandoff
<1>5. CASE EnterHandoff(c)
  <2>1. handoff # None
    BY <1>5 DEF EnterHandoff, At, HandoffInv, Knows
  <2>2. Kept
    BY <1>5 DEF EnterHandoff, Kept, fileVars
  <2>3. RowsAgree'
    BY <1>5, <2>1 DEF EnterHandoff, Transition, HandoffInv, RowsAgree, LateStates, fileVars
  <2>4. CASE Goto(c, "entered")
    <3>1. handoff' # None
      BY <2>1, <2>2 DEF Kept
    <3> QED
      BY <2>2, <2>3, <2>4, <3>1, Learns
  <2>5. CASE Leave(c)
    BY <2>2, <2>3, <2>5, Forgets
  <2> QED
    BY <1>5, <2>4, <2>5 DEF EnterHandoff
<1>6. CASE RereadJob(c) \/ CheckCapability(c)
  <2>1. Kept /\ RowsAgree'
    BY <1>1, <1>6 DEF RereadJob, CheckCapability, fileVars
  <2>2. handoff # None /\ handoff' = handoff
    BY <1>6 DEF RereadJob, CheckCapability, At, HandoffInv, Knows, jobVars
  <2>3. CASE Goto(c, "capability")
    BY <2>1, <2>2, <2>3, Learns
  <2>4. CASE Goto(c, "transport") /\ handoff.target = ctl[c].target
    BY <2>1, <2>2, <2>4, Learns
  <2>5. CASE Leave(c)
    BY <2>1, <2>5, Forgets
  <2> QED
    BY <1>6, <2>3, <2>4, <2>5 DEF RereadJob, CheckCapability
<1>7. CASE Transport(c) \/ FinishCopy(c)
  <2>1. Kept /\ RowsAgree'
    BY <1>1, <1>7 DEF Transport, FinishCopy, fileVars
  <2>2. handoff' # None /\ handoff'.target = ctl[c].target /\ delivered' = delivered
    BY <1>7 DEF Transport, FinishCopy, At, HandoffInv, Knows, jobVars
  <2>3. CASE ctl[c].target \in delivered /\ Goto(c, "copied")
    BY <2>1, <2>2, <2>3, Learns
  <2>4. CASE Goto(c, "install")
    BY <2>1, <2>2, <2>4, Learns
  <2>5. CASE Goto(c, "copying")
    BY <2>1, <2>2, <2>5, Learns
  <2>6. CASE Leave(c)
    BY <2>1, <2>6, Forgets
  <2> QED
    BY <1>7, <2>3, <2>4, <2>5, <2>6 DEF Transport, FinishCopy
<1>8. CASE Install(c)
  <2>1. handoff # None /\ handoff.target = ctl[c].target /\ handoff' = handoff
    BY <1>8 DEF Install, At, HandoffInv, Knows, jobVars
  <2>2. Kept
    BY <1>8 DEF Install, Kept, jobVars
  <2>3. RowsAgree'
    BY <1>8, <2>1 DEF Install, HandoffInv, RowsAgree, jobVars
  <2>4. CASE delivered' = delivered \cup {ctl[c].target} /\ Goto(c, "copied")
    BY <2>1, <2>2, <2>3, <2>4, Learns
  <2>5. CASE Leave(c)
    BY <2>2, <2>3, <2>5, Forgets
  <2> QED
    BY <1>8, <2>4, <2>5 DEF Install
<1>9. CASE CompleteHandoff(c)
  <2>1. /\ handoff # None /\ handoff.target = ctl[c].target
        /\ ctl[c].target \in delivered
    BY <1>9 DEF CompleteHandoff, At, HandoffInv, Knows
  <2>2. handoff \in Capabilities
    BY <2>1 DEF HandoffInv, Sound, SubTypeOK
  <2>3. /\ handoff'.target = handoff.target /\ handoff'.status = "COMPLETE"
        /\ handoff' \in Capabilities
    BY <1>9, <2>2 DEF CompleteHandoff, MarkComplete, Capabilities
  <2>4. handoff' # None
    BY <2>3, SubmissionAssumption
  <2>5. Kept
    BY <1>9, <2>3, <2>4 DEF CompleteHandoff, MarkComplete, Kept, fileVars
  <2>6. RowsAgree'
    BY <1>9, <2>1, <2>3, <2>4
       DEF CompleteHandoff, MarkComplete, HandoffInv, RowsAgree, LateStates, fileVars
  <2> QED
    BY <1>9, <2>1, <2>3, <2>4, <2>5, <2>6, Learns DEF CompleteHandoff, fileVars
<1>10. CASE CloseHandoff(c)
  <2>1. handoff # None /\ handoff.status = "COMPLETE"
    BY <1>10 DEF CloseHandoff, At, HandoffInv, Knows
  <2>2. Kept
    BY <1>10 DEF CloseHandoff, Kept, fileVars
  <2>3. RowsAgree'
    BY <1>10, <2>1 DEF CloseHandoff, Transition, HandoffInv, RowsAgree, LateStates, fileVars
  <2> QED
    BY <1>10, <2>2, <2>3, Forgets DEF CloseHandoff
<1> QED
  BY <1>2, <1>3, <1>4, <1>5, <1>6, <1>7, <1>8, <1>9, <1>10 DEF HandingOff

LEMMA HandoffInvInit == SubInit => HandoffInv
<1> SUFFICES ASSUME SubInit PROVE HandoffInv
  OBVIOUS
<1>1. None \notin LateStates
  BY StateNames, SubmissionAssumption DEF LateStates
<1>2. RowsAgree
  BY <1>1 DEF SubInit, JobInit, RowsAgree, LateStates
<1>3. \A c \in Coordinators : ctl[c].pc = "idle"
  BY DEF SubInit, Idle
<1> QED
  BY <1>2, <1>3, SoundInit DEF HandoffInv, Knows

LEMMA HandoffInvStep == HandoffInv /\ [SubNext]_subVars => HandoffInv'
<1> SUFFICES ASSUME HandoffInv, [SubNext]_subVars PROVE HandoffInv'
  OBVIOUS
<1>1. Sound'
  BY SoundStep DEF HandoffInv
<1>2. CASE UNCHANGED subVars
  BY <1>1, <1>2 DEF subVars, jobVars, fileVars, HandoffInv, RowsAgree, Knows
<1>3. ASSUME NEW c \in Coordinators, Work(c) PROVE HandoffInv'
  BY <1>1, <1>3, PredictingUninvolved, BundlingUninvolved, HandingOffStep
     DEF Work, HandoffInv
<1>4. ASSUME NEW c \in Coordinators, Stop(c) PROVE HandoffInv'
  <2>1. Kept /\ RowsAgree'
    BY <1>4 DEF Stop, jobVars, Kept, HandoffInv, RowsAgree
  <2> QED
    BY <1>1, <1>4, <2>1, Forgets DEF Stop, HandoffInv
<1>5. ASSUME NEW verdict \in Closed, Close(verdict) PROVE HandoffInv'
  <2>1. Kept /\ RowsAgree'
    BY <1>5 DEF Close, Terminate, Closed, fileVars, Kept, HandoffInv, RowsAgree, LateStates
  <2> QED
    BY <1>1, <1>5, <2>1, OthersKnow DEF Close, HandoffInv
<1> QED
  BY <1>2, <1>3, <1>4, <1>5 DEF SubNext

(* A bundle is delivered only to the authorized target, the completed row    *)
(* and the state HANDED_OFF mean that it is there, for any number of racing  *)
(* and stopped commands and whatever an operator closes meanwhile.           *)
THEOREM HandoffAsAuthorized == SubSafety => []DeliveredAsAuthorized
<1>1. HandoffInv => DeliveredAsAuthorized
  BY DEF HandoffInv, RowsAgree, DeliveredAsAuthorized
<1> QED
  BY <1>1, HandoffInvInit, HandoffInvStep, PTL DEF SubSafety

-----------------------------------------------------------------------------
(* Refinement: the one-time handoff.                                         *)

Outcome(state) == CASE state = "HANDED_OFF" -> "handed off"
                    [] state \in Closed     -> "closed"
                    [] OTHER                -> "open"

\* A step of a command that writes neither row of the handoff.
Silent == /\ UNCHANGED <<handoff, delivered>>
          /\ Outcome(job') = Outcome(job)

LEMMA MoveIsSilent ==
    ASSUME NEW from, NEW to, Transition(from, to), to # "HANDED_OFF"
    PROVE  Outcome(job') = Outcome(job)
BY FollowsType DEF Transition, Outcome

LEMMA PredictingSilent ==
    ASSUME Sound, NEW c \in Coordinators, Predicting(c)
    PROVE  Silent
<1>1. CASE Finalize(c)
  BY <1>1, StateNames, SubmissionAssumption
     DEF Finalize, CreateJob, Silent, Outcome, Closed, fileVars
<1>2. CASE VerifySource(c) \/ PrepareWorktree(c) \/ RecordPrediction(c)
  BY <1>2, MoveIsSilent
     DEF VerifySource, PrepareWorktree, RecordPrediction, MoveOn, Silent, fileVars
<1>3. CASE PersistRequest(c)
  BY <1>3, MoveIsSilent DEF PersistRequest, Silent, fileVars
<1>4. CASE \/ Advance(c) \/ StartWorker(c) \/ WorkerEnds(c) \/ ReplayWorker(c)
           \/ WorkerConflict(c)
  BY <1>4 DEF Advance, StartWorker, WorkerEnds, ReplayWorker, WorkerConflict, Silent,
     jobVars, fileVars
<1> QED
  BY <1>1, <1>2, <1>3, <1>4 DEF Predicting

LEMMA BundlingSilent ==
    ASSUME NEW c \in Coordinators, Bundling(c)
    PROVE  Silent
<1>1. CASE BuildCsv(c) \/ PassFirstCheck(c) \/ PassSecondCheck(c) \/ BecomeReady(c)
  BY <1>1, MoveIsSilent
     DEF BuildCsv, PassFirstCheck, PassSecondCheck, BecomeReady, MoveOn, Silent, fileVars
<1>2. CASE BeginStaging(c) \/ RecordSeal(c)
  BY <1>2, MoveIsSilent DEF BeginStaging, RecordSeal, Silent, fileVars
<1>3. CASE \/ FirstCheck(c) \/ ScanStaging(c) \/ StageFile(c) \/ SecondCheck(c)
           \/ BeginSeal(c) \/ PublishSummary(c) \/ TakeInventory(c) \/ PublishManifest(c)
           \/ RenameStaging(c) \/ ValidateSealed(c)
  BY <1>3 DEF FirstCheck, RecordCheck, ScanStaging, StageFile, SecondCheck, BeginSeal,
     PublishSummary, TakeInventory, PublishManifest, RenameStaging, ValidateSealed, Silent,
     jobVars, fileVars
<1> QED
  BY <1>1, <1>2, <1>3 DEF Bundling

LEMMA SilentStutters == Silent => UNCHANGED Promise!handoffVars
BY DEF Silent, Outcome, Promise!handoffVars

LEMMA PromiseInit == SubInit => Promise!Start
BY StateNames, SubmissionAssumption DEF SubInit, JobInit, Promise!Start, Closed

LEMMA PromiseStep == HandoffInv /\ [SubNext]_subVars => [Promise!HandoffNext]_(Promise!handoffVars)
<1> SUFFICES ASSUME HandoffInv, [SubNext]_subVars
             PROVE  [Promise!HandoffNext]_(Promise!handoffVars)
  OBVIOUS
<1>1. CASE UNCHANGED subVars
  BY <1>1 DEF subVars, jobVars, fileVars, Promise!handoffVars
<1>2. ASSUME NEW c \in Coordinators, Predicting(c) \/ Bundling(c)
      PROVE  UNCHANGED Promise!handoffVars
  BY <1>2, PredictingSilent, BundlingSilent, SilentStutters DEF HandoffInv
<1>3. ASSUME NEW c \in Coordinators, HandingOff(c)
      PROVE  [Promise!HandoffNext]_(Promise!handoffVars)
  <2>1. CASE ClaimHandoff(c) /\ handoff = None /\ ~UNCHANGED handoff
    <3>1. /\ Authorize(ctl[c].target) /\ delivered = {} /\ delivered' = {}
          /\ job' = job /\ ctl[c].target \in Targets
      BY <2>1 DEF ClaimHandoff, Authorize, At, jobVars, fileVars, HandoffInv, RowsAgree,
         Sound, Aimed, HandoffPoints
    <3>2. handoff' = [target |-> ctl[c].target, status |-> "AUTHORIZED"]
      BY <2>1, <3>1 DEF Authorize
    <3>3. handoff' # None
      BY <3>1, <3>2, SubmissionAssumption DEF Capabilities
    <3>4. Promise!Issue(ctl[c].target)
      BY <2>1, <3>1, <3>2, <3>3 DEF Promise!Issue
    <3> QED
      BY <3>1, <3>4 DEF Promise!HandoffNext
  <2>2. CASE CompleteHandoff(c)
    <3>1. /\ handoff # None /\ handoff \in Capabilities
          /\ UNCHANGED <<delivered, job>>
          /\ handoff' = [handoff EXCEPT !.status = "COMPLETE"]
      BY <2>2 DEF CompleteHandoff, MarkComplete, At, HandoffInv, Sound, SubTypeOK, Knows,
         fileVars
    <3>2. handoff'.target = handoff.target /\ handoff' # None
      BY <3>1, SubmissionAssumption DEF Capabilities
    <3> QED
      BY <3>1, <3>2 DEF Promise!handoffVars
  <2>3. CASE Install(c) /\ ~UNCHANGED delivered
    <3>1. /\ handoff # None /\ handoff.target = ctl[c].target /\ handoff' = handoff
          /\ job' = job /\ delivered' = delivered \cup {ctl[c].target}
          /\ ctl[c].target \notin delivered
      BY <2>3 DEF Install, At, HandoffInv, Knows, jobVars
    <3>2. delivered = {}
      BY <3>1 DEF HandoffInv, RowsAgree
    <3>3. handoff.target # None
      BY <3>1, SubmissionAssumption DEF HandoffInv, Sound, SubTypeOK, Capabilities
    <3>4. Promise!Deliver
      BY <3>1, <3>2, <3>3 DEF Promise!Deliver
    <3> QED
      BY <3>4 DEF Promise!HandoffNext
  <2>4. CASE CloseHandoff(c)
    <3>1. /\ handoff # None /\ handoff' = handoff /\ delivered' = delivered
          /\ delivered # {}
      BY <2>4 DEF CloseHandoff, At, HandoffInv, Knows, fileVars
    <3>2. CASE job = "HANDOFF_IN_PROGRESS" /\ job' = "HANDED_OFF"
      <4>1. handoff.target # None
        BY <3>1, SubmissionAssumption DEF HandoffInv, Sound, SubTypeOK, Capabilities
      <4>2. Promise!Succeed
        BY <3>1, <3>2, <4>1 DEF Promise!Succeed, Closed
      <4> QED
        BY <4>2 DEF Promise!HandoffNext
    <3>3. CASE job' = job
      BY <3>1, <3>3 DEF Promise!handoffVars
    <3> QED
      BY <2>4, <3>2, <3>3 DEF CloseHandoff, Transition
  <2>5. CASE EnterHandoff(c)
    <3>1. Silent
      BY <2>5, MoveIsSilent DEF EnterHandoff, Silent, fileVars
    <3> QED
      BY <3>1, SilentStutters
  <2>6. CASE UNCHANGED <<job, handoff, delivered>>
    BY <2>6 DEF Promise!handoffVars
  <2>7. \/ ClaimHandoff(c) /\ handoff = None /\ ~UNCHANGED handoff
        \/ Install(c) /\ ~UNCHANGED delivered
        \/ CompleteHandoff(c) \/ CloseHandoff(c) \/ EnterHandoff(c)
        \/ UNCHANGED <<job, handoff, delivered>>
    BY <1>3 DEF HandingOff, Handoff, ReadyToAuthorize, ClaimHandoff, Authorize, RereadJob,
       CheckCapability, Transport, FinishCopy, Install, jobVars, fileVars
  <2> QED
    BY <2>1, <2>2, <2>3, <2>4, <2>5, <2>6, <2>7
<1>4. ASSUME NEW c \in Coordinators, Stop(c) PROVE UNCHANGED Promise!handoffVars
  BY <1>4 DEF Stop, jobVars, Promise!handoffVars
<1>5. ASSUME NEW verdict \in Closed, Close(verdict) PROVE Promise!GiveUp
  <2>1. /\ UNCHANGED <<handoff, delivered>> /\ job' = verdict
        /\ job \notin Closed /\ job # "HANDED_OFF"
    BY <1>5 DEF Close, Terminate, fileVars
  <2>2. verdict # "HANDED_OFF"
    BY DEF Closed
  <2> QED
    BY <2>1, <2>2 DEF Promise!GiveUp
<1> QED
  BY <1>1, <1>2, <1>3, <1>4, <1>5 DEF SubNext, Work, Promise!HandoffNext

(* Every execution of the job, with any interleaving of its commands, is one *)
(* of the one-time handoff: one capability is issued, for one destination,   *)
(* the bundle arrives there once, and only then can the job be handed off.   *)
THEOREM HandoffHappensOnce == SubSafety => ImplementsOneTimeHandoff
<1> QED
  BY PromiseInit, PromiseStep, HandoffInvInit, HandoffInvStep, PTL
     DEF SubSafety, ImplementsOneTimeHandoff, Promise!HandoffSpec

-----------------------------------------------------------------------------
(* The seal.  Two coordinators may stage and seal at once, so what protects  *)
(* the recorded seal is not who works on the job but what each has seen: no  *)
(* manifest is ever written that lists less than the required files, a       *)
(* sealed tree is never replaced, and a check that passed stays recorded.    *)

\* The states a job can be in once the first, and once the second, check
\* passed.
AfterSecond == {"SECOND_CHECK_VALID"} \cup LateStates
AfterFirst == {"FIRST_CHECK_VALID", "STAGING"} \cup AfterSecond

ChecksFollow == /\ job \in AfterFirst => 1 \in checked
                /\ job \in AfterSecond => 2 \in checked

\* A manifest lists what sealing requires, whatever has become of its tree.
Listed(tree) == tree.manifest # None => Required \subseteq tree.manifest.files

\* What a command at each point of checking and sealing has made sure of.
Secures(c) ==
    /\ ctl[c].pc = "checked" => 1 \in checked
    /\ ctl[c].pc = "staged" => 2 \in checked
    /\ ctl[c].pc = "manifest" => Required \subseteq ctl[c].inventory.files
    /\ ctl[c].pc = "record" => Intact(sealed)

SealInv ==
    /\ SealAttestsBundle
    /\ ChecksFollow
    /\ Listed(staging) /\ Listed(sealed)
    /\ \A c \in Coordinators : Secures(c)

SecuringPoints == {"checked", "staged", "manifest", "record"}

\* A step that touches none of the trees, the seal and the checks, and leaves
\* its command where there is nothing to have made sure of.
Quiet(c) ==
    /\ UNCHANGED <<checked, seal, staging, sealed>>
    /\ job' \in AfterFirst => 1 \in checked
    /\ job' \in AfterSecond => 2 \in checked
    /\ ctl'[c].pc \notin SecuringPoints
    /\ \A d \in Coordinators : d # c => ctl'[d] = ctl[d]

LEMMA QuietStep ==
    ASSUME SealInv, NEW c \in Coordinators, Quiet(c)
    PROVE  SealInv'
<1>1. SealAttestsBundle' /\ ChecksFollow' /\ Listed(staging)' /\ Listed(sealed)'
  BY DEF SealInv, Quiet, SealAttestsBundle, ChecksFollow, Listed, Inventory
<1>2. \A d \in Coordinators : Secures(d)'
  BY DEF SealInv, Quiet, Secures, SecuringPoints, Intact, Inventory
<1> QED
  BY <1>1, <1>2 DEF SealInv

LEMMA GotoElsewhere ==
    ASSUME Sound, NEW c \in Coordinators,
           Leave(c) \/ \E point : Goto(c, point) /\ point \notin SecuringPoints
    PROVE  /\ ctl'[c].pc \notin SecuringPoints
           /\ \A d \in Coordinators : d # c => ctl'[d] = ctl[d]
<1>1. CASE Leave(c)
  BY <1>1 DEF Leave, Idle, Sound, SubTypeOK, Controls, SecuringPoints
<1>2. CASE \E point : Goto(c, point) /\ point \notin SecuringPoints
  BY <1>2, AfterGoto
<1> QED
  BY <1>1, <1>2

LEMMA StateNotSecuring ==
    ASSUME NEW state \in JobStates
    PROVE  state \notin SecuringPoints
BY StateNames DEF SecuringPoints

\* A move of the job that the checks already recorded allow.
LEMMA MoveQuiet ==
    ASSUME Sound, SealInv, NEW c \in Coordinators, NEW point, NEW from, NEW to,
           MoveOn(c, point, from, to),
           to \in AfterFirst => from \in AfterFirst \/ 1 \in checked,
           to \in AfterSecond => from \in AfterSecond \/ 2 \in checked
    PROVE  Quiet(c)
<1>1. /\ ctl'[c].pc \notin SecuringPoints
      /\ \A d \in Coordinators : d # c => ctl'[d] = ctl[d]
  BY GotoElsewhere DEF MoveOn, SecuringPoints
<1>2. job' = job \/ (job \in {from, to} /\ job' = to)
  BY DEF MoveOn, Transition
<1>3. /\ job' \in AfterFirst => 1 \in checked
      /\ job' \in AfterSecond => 2 \in checked
  BY <1>2 DEF SealInv, ChecksFollow
<1> QED
  BY <1>1, <1>3 DEF MoveOn, Quiet, fileVars

LEMMA PredictingQuiet ==
    ASSUME Sound, SealInv, NEW c \in Coordinators, Predicting(c)
    PROVE  Quiet(c)
<1>1. ctl \in [Coordinators -> Controls]
  BY DEF Sound, SubTypeOK
<1>2. CASE Finalize(c)
  <2>1. /\ ctl'[c].pc = "loop"
        /\ \A d \in Coordinators : d # c => ctl'[d] = ctl[d]
    BY <1>1, <1>2 DEF Finalize, Controls
  <2>2. job' = job \/ job' = "CREATED"
    BY <1>2 DEF Finalize, CreateJob
  <2> QED
    BY <1>2, <2>1, <2>2 DEF Finalize, CreateJob, Quiet, SecuringPoints, SealInv,
       ChecksFollow, AfterFirst, AfterSecond, LateStates, fileVars
<1>3. CASE VerifySource(c) \/ PrepareWorktree(c) \/ RecordPrediction(c)
  BY <1>3, MoveQuiet DEF VerifySource, PrepareWorktree, RecordPrediction,
     AfterFirst, AfterSecond, LateStates
<1>4. CASE Advance(c)
  <2>1. job \in JobStates
    BY <1>4 DEF Advance, Sound, Started, At, SubTypeOK
  <2>2. /\ ctl'[c].pc \notin SecuringPoints
        /\ \A d \in Coordinators : d # c => ctl'[d] = ctl[d]
    <3>1. CASE Leave(c)
      BY <3>1, GotoElsewhere
    <3>2. CASE ctl' = [ctl EXCEPT ![c].pc = job, ![c].request = request]
      BY <1>1, <2>1, <3>2, StateNotSecuring DEF Controls
    <3> QED
      BY <1>4, <3>1, <3>2 DEF Advance
  <2> QED
    BY <1>4, <2>2 DEF Advance, Quiet, SealInv, ChecksFollow, jobVars, fileVars
<1>5. CASE PersistRequest(c)
  <2>1. /\ ctl'[c].pc \notin SecuringPoints
        /\ \A d \in Coordinators : d # c => ctl'[d] = ctl[d]
    <3>1. CASE Leave(c)
      BY <3>1, GotoElsewhere
    <3>2. CASE ctl' = [ctl EXCEPT ![c].pc = "PREDICTING", ![c].request = c]
      BY <1>1, <3>2 DEF Controls, SecuringPoints
    <3> QED
      BY <1>5, <3>1, <3>2 DEF PersistRequest
  <2>2. job' = job \/ job' = "PREDICTING"
    BY <1>5 DEF PersistRequest, Transition
  <2> QED
    BY <1>5, <2>1, <2>2 DEF PersistRequest, Quiet, SealInv, ChecksFollow, AfterFirst,
       AfterSecond, LateStates, fileVars
<1>6. CASE StartWorker(c) \/ WorkerEnds(c) \/ ReplayWorker(c) \/ WorkerConflict(c)
  <2>1. Goto(c, "working") \/ Goto(c, "predicted") \/ Leave(c)
    BY <1>6 DEF StartWorker, WorkerEnds, ReplayWorker, WorkerConflict
  <2>2. /\ ctl'[c].pc \notin SecuringPoints
        /\ \A d \in Coordinators : d # c => ctl'[d] = ctl[d]
    BY <2>1, GotoElsewhere DEF SecuringPoints
  <2> QED
    BY <1>6, <2>2 DEF StartWorker, WorkerEnds, ReplayWorker, WorkerConflict, Quiet,
       SealInv, ChecksFollow, jobVars, fileVars
<1> QED
  BY <1>2, <1>3, <1>4, <1>5, <1>6 DEF Predicting

LEMMA HandingOffQuiet ==
    ASSUME Sound, SealInv, NEW c \in Coordinators, HandingOff(c)
    PROVE  Quiet(c)
<1>1. ctl \in [Coordinators -> Controls]
  BY DEF Sound, SubTypeOK
<1>2. /\ UNCHANGED <<checked, seal, staging, sealed>>
      /\ job' = job \/ (job \in LateStates /\ job' \in LateStates)
  BY DEF HandingOff, Handoff, ReadyToAuthorize, ClaimHandoff, Authorize, EnterHandoff,
     Transition, RereadJob, CheckCapability, Transport, FinishCopy, Install,
     CompleteHandoff, MarkComplete, CloseHandoff, LateStates, jobVars, fileVars
<1>3. /\ job' \in AfterFirst => 1 \in checked
      /\ job' \in AfterSecond => 2 \in checked
  BY <1>2 DEF SealInv, ChecksFollow, AfterFirst, AfterSecond
<1>4. /\ ctl'[c].pc \notin SecuringPoints
      /\ \A d \in Coordinators : d # c => ctl'[d] = ctl[d]
  <2>1. CASE \E t \in Targets : Handoff(c, t)
    BY <1>1, <2>1 DEF Handoff, Controls, SecuringPoints
  <2>2. CASE \/ ReadyToAuthorize(c) \/ ClaimHandoff(c) \/ EnterHandoff(c) \/ RereadJob(c)
             \/ CheckCapability(c) \/ Transport(c) \/ FinishCopy(c) \/ Install(c)
             \/ CompleteHandoff(c) \/ CloseHandoff(c)
    <3>1. \/ Leave(c)
          \/ \E point \in HandoffPoints : Goto(c, point)
      BY <2>2 DEF ReadyToAuthorize, ClaimHandoff, EnterHandoff, RereadJob, CheckCapability,
         Transport, FinishCopy, Install, CompleteHandoff, CloseHandoff, HandoffPoints
    <3> QED
      BY <3>1, GotoElsewhere DEF HandoffPoints, SecuringPoints
  <2> QED
    BY <2>1, <2>2 DEF HandingOff
<1> QED
  BY <1>2, <1>3, <1>4 DEF Quiet

\* A step that changes the staging tree but not its manifest.
LEMMA StagingStep ==
    ASSUME Sound, SealInv, NEW c \in Coordinators,
           UNCHANGED <<job, checked, seal, sealed>>, staging'.manifest = staging.manifest,
           ctl'[c].pc \notin {"checked", "staged", "record"},
           ctl'[c].pc = "manifest" => Required \subseteq ctl'[c].inventory.files,
           \A d \in Coordinators : d # c => ctl'[d] = ctl[d]
    PROVE  SealInv'
<1>1. SealAttestsBundle' /\ ChecksFollow' /\ Listed(staging)' /\ Listed(sealed)'
  BY DEF SealInv, SealAttestsBundle, ChecksFollow, Listed, Inventory
<1>2. \A d \in Coordinators : Secures(d)'
  BY DEF SealInv, Secures, Intact, Inventory
<1> QED
  BY <1>1, <1>2 DEF SealInv

\* A check that passes is recorded, and none is ever removed.
LEMMA CheckStep ==
    ASSUME Sound, SealInv, NEW c \in Coordinators, FirstCheck(c) \/ SecondCheck(c)
    PROVE  SealInv'
<1>1. /\ UNCHANGED <<job, seal, staging, sealed>>
      /\ checked \subseteq checked' /\ checked' \subseteq {1, 2}
  BY DEF FirstCheck, SecondCheck, RecordCheck, jobVars, fileVars, Sound, SubTypeOK
<1>2. SealAttestsBundle' /\ ChecksFollow' /\ Listed(staging)' /\ Listed(sealed)'
  BY <1>1 DEF SealInv, SealAttestsBundle, ChecksFollow, Listed, Inventory
<1>3. \/ ctl'[c].pc = "checked" /\ 1 \in checked'
      \/ ctl'[c].pc = "staged" /\ 2 \in checked'
      \/ ctl'[c].pc \notin SecuringPoints
  <2>1. CASE Leave(c)
    BY <2>1, GotoElsewhere
  <2>2. CASE Goto(c, "checked") /\ 1 \in checked'
    BY <2>2, AfterGoto
  <2>3. CASE Goto(c, "staged") /\ 2 \in checked'
    BY <2>3, AfterGoto
  <2> QED
    BY <2>1, <2>2, <2>3 DEF FirstCheck, SecondCheck, RecordCheck
<1>4. \A d \in Coordinators : d # c => ctl'[d] = ctl[d]
  BY DEF FirstCheck, SecondCheck, Goto, Leave, Sound, SubTypeOK
<1>5. \A d \in Coordinators : Secures(d)'
  BY <1>1, <1>3, <1>4 DEF SealInv, Secures, SecuringPoints, Intact, Inventory
<1> QED
  BY <1>2, <1>5 DEF SealInv

LEMMA BundlingSeals ==
    ASSUME HandoffInv, SealInv, NEW c \in Coordinators, Bundling(c)
    PROVE  SealInv'
<1>0. Sound /\ ctl \in [Coordinators -> Controls]
  BY DEF HandoffInv, Sound, SubTypeOK
<1>1. CASE BuildCsv(c) \/ PassFirstCheck(c) \/ PassSecondCheck(c) \/ BecomeReady(c)
  <2>1. /\ PassFirstCheck(c) => 1 \in checked
        /\ PassSecondCheck(c) => 2 \in checked
    BY DEF PassFirstCheck, PassSecondCheck, MoveOn, At, SealInv, Secures
  <2>2. Quiet(c)
    BY <1>0, <1>1, <2>1, MoveQuiet
       DEF BuildCsv, PassFirstCheck, PassSecondCheck, BecomeReady, AfterFirst, AfterSecond,
       LateStates
  <2> QED
    BY <2>2, QuietStep
<1>2. CASE FirstCheck(c) \/ SecondCheck(c)
  BY <1>0, <1>2, CheckStep
<1>3. CASE BeginStaging(c)
  <2>1. job' = job \/ (job \in AfterFirst /\ job' = "STAGING")
    BY <1>3 DEF BeginStaging, Transition, AfterFirst
  <2>2. /\ job' \in AfterFirst => 1 \in checked
        /\ job' \in AfterSecond => 2 \in checked
    BY <2>1 DEF SealInv, ChecksFollow, AfterFirst, AfterSecond, LateStates
  <2>3. /\ ctl'[c].pc \notin SecuringPoints
        /\ \A d \in Coordinators : d # c => ctl'[d] = ctl[d]
    BY <1>0, <1>3, GotoElsewhere DEF BeginStaging, SecuringPoints
  <2>4. Quiet(c)
    BY <1>3, <2>2, <2>3 DEF BeginStaging, Quiet, fileVars
  <2> QED
    BY <2>4, QuietStep
<1>4. CASE ScanStaging(c)
  <2>1. /\ ctl'[c].pc \notin SecuringPoints
        /\ \A d \in Coordinators : d # c => ctl'[d] = ctl[d]
    <3>1. CASE Leave(c)
      BY <1>0, <3>1, GotoElsewhere
    <3>2. CASE ctl' = [ctl EXCEPT ![c].pc = "stage", ![c].todo = Staged]
      BY <1>0, <3>2 DEF Controls, SecuringPoints
    <3> QED
      BY <1>4, <3>1, <3>2 DEF ScanStaging
  <2>2. Quiet(c)
    BY <1>4, <2>1 DEF ScanStaging, Quiet, SealInv, ChecksFollow, jobVars, fileVars
  <2> QED
    BY <2>2, QuietStep
<1>5. CASE StageFile(c) \/ BeginSeal(c) \/ PublishSummary(c) \/ TakeInventory(c)
  <2>1. UNCHANGED <<job, checked, seal, sealed>> /\ staging'.manifest = staging.manifest
    BY <1>5 DEF StageFile, BeginSeal, PublishSummary, TakeInventory, jobVars,
       HandoffInv, Sound, SubTypeOK, Trees
  <2>2. /\ ctl'[c].pc \notin {"checked", "staged", "record"}
        /\ ctl'[c].pc = "manifest" => Required \subseteq ctl'[c].inventory.files
        /\ \A d \in Coordinators : d # c => ctl'[d] = ctl[d]
    <3>1. CASE StageFile(c)
      <4>1. PICK f \in ctl[c].todo : ctl' = [ctl EXCEPT ![c].todo = @ \ {f}]
        BY <3>1 DEF StageFile
      <4> QED
        BY <1>0, <3>1, <4>1 DEF StageFile, At, Controls
    <3>2. CASE \/ Goto(c, "validate") \/ Goto(c, "summary") \/ Goto(c, "inventory")
               \/ Leave(c)
      BY <1>0, <3>2, GotoElsewhere DEF SecuringPoints
    <3>3. CASE /\ Required \subseteq staging.files
               /\ ctl' = [ctl EXCEPT ![c].pc = "manifest", ![c].inventory = Inventory(staging)]
      BY <1>0, <3>3 DEF Controls, Inventory
    <3> QED
      BY <1>5, <3>1, <3>2, <3>3 DEF BeginSeal, PublishSummary, TakeInventory
  <2> QED
    BY <1>0, <2>1, <2>2, StagingStep
<1>6. CASE PublishManifest(c)
  <2>1. UNCHANGED <<job, checked, seal, sealed>>
    BY <1>6 DEF PublishManifest, jobVars
  <2>2. Listed(staging)'
    <3>1. staging' = staging \/ staging'.manifest = ctl[c].inventory
      BY <1>6 DEF PublishManifest, HandoffInv, Sound, SubTypeOK, Trees
    <3>2. Required \subseteq ctl[c].inventory.files
      BY <1>6 DEF PublishManifest, At, SealInv, Secures
    <3> QED
      BY <3>1, <3>2 DEF SealInv, Listed
  <2>3. /\ ctl'[c].pc \notin SecuringPoints
        /\ \A d \in Coordinators : d # c => ctl'[d] = ctl[d]
    <3>1. CASE Leave(c)
      BY <1>0, <3>1, GotoElsewhere
    <3>2. CASE ctl' = [ctl EXCEPT ![c].pc = "rename", ![c].inventory = None]
      BY <1>0, <3>2 DEF Controls, SecuringPoints
    <3> QED
      BY <1>6, <3>1, <3>2 DEF PublishManifest
  <2>4. SealAttestsBundle' /\ ChecksFollow' /\ Listed(sealed)'
    BY <2>1 DEF SealInv, SealAttestsBundle, ChecksFollow, Listed, Inventory
  <2>5. \A d \in Coordinators : Secures(d)'
    BY <2>1, <2>3 DEF SealInv, Secures, SecuringPoints, Intact, Inventory
  <2> QED
    BY <2>2, <2>4, <2>5 DEF SealInv
<1>7. CASE RenameStaging(c)
  <2>1. /\ ctl'[c].pc \notin SecuringPoints
        /\ \A d \in Coordinators : d # c => ctl'[d] = ctl[d]
    BY <1>0, <1>7, GotoElsewhere DEF RenameStaging, SecuringPoints
  <2>2. UNCHANGED <<job, checked, seal>>
    BY <1>7 DEF RenameStaging, jobVars
  <2>3. sealed' = sealed \/ sealed = NoTree
    BY <1>7 DEF RenameStaging
  <2>4. Intact(sealed) => sealed' = sealed
    BY <2>3 DEF Intact, NoTree
  <2>5. seal # None => sealed' = sealed
    BY <2>3 DEF SealInv, SealAttestsBundle, NoTree
  <2>6. Listed(staging)' /\ Listed(sealed)'
    BY <1>7 DEF RenameStaging, SealInv, Listed, NoTree
  <2>7. SealAttestsBundle' /\ ChecksFollow'
    BY <2>2, <2>5 DEF SealInv, SealAttestsBundle, ChecksFollow, Inventory
  <2>8. \A d \in Coordinators : Secures(d)'
    BY <2>1, <2>2, <2>4 DEF SealInv, Secures, SecuringPoints, Intact, Inventory
  <2> QED
    BY <2>6, <2>7, <2>8 DEF SealInv
<1>8. CASE ValidateSealed(c)
  <2>1. UNCHANGED <<jobVars, fileVars>>
    BY <1>8 DEF ValidateSealed
  <2>2. /\ \/ ctl'[c].pc \notin SecuringPoints
           \/ ctl'[c].pc = "record" /\ Intact(sealed)
        /\ \A d \in Coordinators : d # c => ctl'[d] = ctl[d]
    <3>1. CASE Intact(sealed)
      BY <1>0, <1>8, <3>1, AfterGoto DEF ValidateSealed
    <3>2. CASE ~Intact(sealed)
      BY <1>0, <1>8, <3>2, GotoElsewhere DEF ValidateSealed
    <3> QED
      BY <3>1, <3>2
  <2>3. SealAttestsBundle' /\ ChecksFollow' /\ Listed(staging)' /\ Listed(sealed)'
    BY <2>1 DEF SealInv, SealAttestsBundle, ChecksFollow, Listed, Inventory, jobVars, fileVars
  <2>4. \A d \in Coordinators : Secures(d)'
    BY <2>1, <2>2 DEF SealInv, Secures, SecuringPoints, Intact, Inventory, jobVars, fileVars
  <2> QED
    BY <2>3, <2>4 DEF SealInv
<1>9. CASE RecordSeal(c)
  <2>1. Intact(sealed) /\ UNCHANGED <<checked, staging, sealed>>
    BY <1>9 DEF RecordSeal, At, SealInv, Secures, fileVars
  <2>2. /\ ctl'[c].pc \notin SecuringPoints
        /\ \A d \in Coordinators : d # c => ctl'[d] = ctl[d]
    BY <1>0, <1>9, GotoElsewhere DEF RecordSeal, SecuringPoints
  <2>3. job' = job \/ (job = "SECOND_CHECK_VALID" /\ job' = "SEALED")
    BY <1>9 DEF RecordSeal, Transition
  <2>4. ChecksFollow'
    BY <2>1, <2>3 DEF SealInv, ChecksFollow, AfterFirst, AfterSecond, LateStates
  <2>5. SealAttestsBundle'
    <3>1. CASE seal' = seal
      BY <2>1, <3>1 DEF SealInv, SealAttestsBundle, Inventory
    <3>2. CASE job = "SECOND_CHECK_VALID" /\ seal' = sealed.manifest
      <4>1. checked = {1, 2}
        BY <3>2 DEF SealInv, ChecksFollow, AfterFirst, AfterSecond, HandoffInv, Sound, SubTypeOK
      <4>2. sealed.manifest = Inventory(sealed) /\ Required \subseteq sealed.manifest.files
        BY <2>1 DEF Intact, SealInv, Listed
      <4>3. Required \subseteq sealed.files
        BY <4>2 DEF Inventory
      <4> QED
        BY <2>1, <3>2, <4>1, <4>2, <4>3 DEF SealAttestsBundle, Inventory
    <3> QED
      BY <1>9, <3>1, <3>2 DEF RecordSeal, Updates
  <2>6. Listed(staging)' /\ Listed(sealed)'
    BY <2>1 DEF SealInv, Listed
  <2>7. \A d \in Coordinators : Secures(d)'
    BY <2>1, <2>2 DEF SealInv, Secures, SecuringPoints, Intact, Inventory
  <2> QED
    BY <2>4, <2>5, <2>6, <2>7 DEF SealInv
<1> QED
  BY <1>1, <1>2, <1>3, <1>4, <1>5, <1>6, <1>7, <1>8, <1>9 DEF Bundling

LEMMA SealInvStep == HandoffInv /\ SealInv /\ [SubNext]_subVars => SealInv'
<1> SUFFICES ASSUME HandoffInv, SealInv, [SubNext]_subVars PROVE SealInv'
  OBVIOUS
<1>0. Sound
  BY DEF HandoffInv
<1>1. CASE UNCHANGED subVars
  BY <1>1 DEF subVars, jobVars, fileVars, SealInv, SealAttestsBundle, ChecksFollow, Listed,
     Secures, Intact, Inventory
<1>2. ASSUME NEW c \in Coordinators, Work(c) PROVE SealInv'
  BY <1>0, <1>2, PredictingQuiet, HandingOffQuiet, BundlingSeals, QuietStep DEF Work
<1>3. ASSUME NEW c \in Coordinators, Stop(c) PROVE SealInv'
  <2>1. Quiet(c)
    BY <1>0, <1>3, GotoElsewhere DEF Stop, Quiet, SealInv, ChecksFollow, jobVars
  <2> QED
    BY <2>1, QuietStep
<1>4. ASSUME NEW verdict \in Closed, Close(verdict) PROVE SealInv'
  <2>1. UNCHANGED <<checked, seal, ctl, staging, sealed>> /\ job' \in Closed
    BY <1>4 DEF Close, Terminate, fileVars
  <2> QED
    BY <2>1 DEF SealInv, SealAttestsBundle, ChecksFollow, AfterFirst, AfterSecond, LateStates,
       Closed, Listed, Secures, Intact, Inventory
<1> QED
  BY <1>1, <1>2, <1>3, <1>4 DEF SubNext

LEMMA SealInvInit == SubInit => SealInv
<1> SUFFICES ASSUME SubInit PROVE SealInv
  OBVIOUS
<1>1. job \notin AfterFirst
  BY StateNames, SubmissionAssumption DEF SubInit, JobInit, AfterFirst, AfterSecond, LateStates
<1>2. \A c \in Coordinators : ctl[c].pc = "idle"
  BY DEF SubInit, Idle
<1> QED
  BY <1>1, <1>2 DEF SubInit, JobInit, SealInv, SealAttestsBundle, ChecksFollow, AfterFirst,
     Listed, NoTree, Secures

(* The recorded seal is the manifest of the sealed tree, which holds exactly *)
(* what it lists and everything it must, after both organizer checks passed: *)
(* for any number of coordinators that stage and seal at once, wherever they *)
(* stop.                                                                     *)
THEOREM SealAlwaysAttests == SubSafety => []SealAttestsBundle
<1>1. SealInv => SealAttestsBundle
  BY DEF SealInv
<1> QED
  BY <1>1, SealInvInit, SealInvStep, HandoffInvInit, HandoffInvStep, PTL DEF SubSafety

=============================================================================
