------------------------------ MODULE MCSubmission ------------------------------
(* SubmissionProperties for model checking: two commands on one job, and two *)
(* targets a handoff can name.                                               *)
EXTENDS SubmissionProperties

=================================================================================
