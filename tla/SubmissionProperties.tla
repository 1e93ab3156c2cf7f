-------------------------- MODULE SubmissionProperties --------------------------
(* What a submission job promises, whoever works on it and wherever they stop. *)
EXTENDS SubmissionCoordinator

(* The recorded seal is the manifest of the sealed tree, the tree is exactly *)
(* what the manifest lists, and both organizer checks passed: although two   *)
(* coordinators may stage and seal at once and stop inside a write.          *)
SealAttestsBundle ==
    seal # None => /\ seal = Inventory(sealed) /\ sealed.manifest = seal
                   /\ Required \subseteq sealed.files
                   /\ checked = {1, 2}

(* A bundle is delivered only to the authorized target, a completed row means *)
(* that it is there, and a job handed off means that the row is complete.     *)
DeliveredAsAuthorized ==
    /\ delivered # {} => handoff # None /\ seal # None /\ delivered = {handoff.target}
    /\ handoff # None /\ handoff.status = "COMPLETE" => handoff.target \in delivered
    /\ job = "HANDED_OFF" => handoff # None /\ handoff.status = "COMPLETE"

(* The worker's result is final: no coordinator, resumed or concurrent,       *)
(* predicts the test split once more.                                         *)
OnePrediction == [][attempt.result # None => attempt' = attempt]_subVars

(* A coordinator that acts on a state it read long ago never moves the job    *)
(* back, past a state, or out of a verdict.                                   *)
NoStaleTransition ==
    [][job # None /\ job' # job =>
         \/ Follows(job, job')
         \/ job \notin Closed \cup {"HANDED_OFF"} /\ job' \in Closed]_subVars

(* The job implements the one-time handoff.                                   *)
Promise == INSTANCE OneTimeHandoff WITH
    Destinations <- Targets,
    Nobody <- None,
    issued <- IF handoff = None THEN None ELSE handoff.target,
    bundle <- IF delivered = {} THEN None ELSE handoff.target,
    outcome <- CASE job = "HANDED_OFF" -> "handed off"
                 [] job \in Closed     -> "closed"
                 [] OTHER              -> "open"

ImplementsOneTimeHandoff == Promise!HandoffSpec

-----------------------------------------------------------------------------
(* Dead ends of the code as it is.                                           *)

\* The worker failed once: its result is returned to every resumed job.
FailedForGood == job = "PREDICTING" /\ attempt.result = "failure"

\* The attempt belongs to a request the job did not persist.
ForeignAttempt == job = "PREDICTING" /\ attempt.request \notin {None, request}

\* Another coordinator's scratch file came or went between the inventory and
\* the rename.
DriftedSeal == job = "SECOND_CHECK_VALID" /\ sealed # NoTree /\ ~Intact(sealed)

\* A copy stopped in the middle is neither finished nor removed.
HalfCopied ==
    /\ job = "HANDOFF_IN_PROGRESS"
    /\ temporary[handoff.target] = "partial" /\ handoff.target \notin delivered
    /\ \A c \in Coordinators : ~At(c, "copying")

(* A job whose commands are run again is handed off or closed, or is in one   *)
(* of the four dead ends: there is no fifth.                                  *)
JobConcludes ==
    <>[](\/ job \in Closed \cup {"HANDED_OFF"}
         \/ FailedForGood \/ ForeignAttempt \/ DriftedSeal \/ HalfCopied)

=================================================================================
