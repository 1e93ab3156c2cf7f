---------------------------- MODULE SubmissionStore ----------------------------
(***************************************************************************)
(* One final-submission job: SubmissionRepository of                       *)
(* rex/submission/repository.py, a database of its own beside the          *)
(* completed run.  Every operator below is one transaction; those who call *)
(* them are in SubmissionCoordinator.                                      *)
(*                                                                         *)
(* A job is identified by its run and best-valid manifest, so creating it  *)
(* again finds it.  The digests of artifacts are replaced by what they     *)
(* are digests of: the prediction request by the coordinator that built    *)
(* it, the seal by the inventory of the sealed tree.                       *)
(***************************************************************************)
EXTENDS Naturals, FiniteSets

CONSTANTS
    Coordinators,  \* command invocations working on the job
    Targets,       \* directories a handoff may be directed to
    None           \* NULL

VARIABLES
    job,      \* submission_jobs.state, None before the job is created
    request,  \* submission_jobs.prediction_request_json: who built it
    seal,     \* submission_jobs.seal_sha256
    checked,  \* the ordinals in submission_checks
    handoff   \* the job's row of submission_handoffs

jobVars == <<job, request, seal, checked, handoff>>

\* The states a job passes through, in order.
Ladder == <<"CREATED", "SOURCE_VERIFIED", "WORKTREE_READY", "PREDICTING",
            "PREDICTED", "CSV_BUILT", "FIRST_CHECK_VALID", "STAGING",
            "SECOND_CHECK_VALID", "SEALED", "READY_FOR_HANDOFF",
            "HANDOFF_IN_PROGRESS", "HANDED_OFF">>

Closed == {"REJECTED", "FAILED"}
JobStates == {Ladder[i] : i \in 1..13} \cup Closed

\* _NEXT: the one state that may follow.
Follows(from, to) == \E i \in 1..12 : from = Ladder[i] /\ to = Ladder[i + 1]

\* The states from s on, closed jobs not included.
From(s) == {Ladder[i] : i \in {j \in 1..13 : \E k \in 1..j : Ladder[k] = s}}

\* The handoff row; an operator supplies the seal the job recorded.
Capabilities == [target : Targets, status : {"AUTHORIZED", "COMPLETE"}]

ASSUME SubmissionAssumption ==
    None \notin Coordinators \cup Targets \cup JobStates \cup Capabilities

JobInit ==
    /\ job = None
    /\ request = None
    /\ seal = None
    /\ checked = {}
    /\ handoff = None

CreateJob ==
    /\ job' = IF job = None THEN "CREATED" ELSE job
    /\ UNCHANGED <<request, seal, checked, handoff>>

\* transition(): a compare-and-set that a job already at the target passes.
Transition(from, to) ==
    /\ Follows(from, to)
    /\ job \in {from, to}
    /\ job' = to

\* Where transition() raises.
Refused(from, to) == job \notin {from, to}

\* A column the transition updates with the state; a replay keeps the old one.
Updates(from, column, value) == IF job = from THEN value ELSE column

\* A slip: a completed job can still be closed.
TerminateAny(verdict) ==
    /\ verdict \in Closed
    /\ job \notin Closed \cup {None}
    /\ job' = verdict
    /\ UNCHANGED <<request, seal, checked, handoff>>

\* reject() and fail(), called by an operator in any state that is not final.
Terminate(verdict) ==
    /\ verdict \in Closed
    /\ job \notin Closed \cup {"HANDED_OFF", None}
    /\ job' = verdict
    /\ UNCHANGED <<request, seal, checked, handoff>>

RecordCheck(ordinal) ==
    /\ checked' = checked \cup {ordinal}
    /\ UNCHANGED <<job, request, seal, handoff>>

\* The one-time row, if there is one, names this target.
Entitled(t) == handoff # None => handoff.target = t

\* The first transaction of authorize_handoff.
Authorize(t) ==
    /\ Entitled(t)
    /\ handoff' = IF handoff = None THEN [target |-> t, status |-> "AUTHORIZED"] ELSE handoff
    /\ UNCHANGED <<job, request, seal, checked>>

\* The first transaction of complete_handoff.
MarkComplete ==
    /\ handoff # None
    /\ handoff' = [handoff EXCEPT !.status = "COMPLETE"]
    /\ UNCHANGED <<job, request, seal, checked>>

===============================================================================
