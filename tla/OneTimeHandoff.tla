----------------------------- MODULE OneTimeHandoff -----------------------------
(***************************************************************************)
(* What a submission job promises about its bundle, after the docstrings   *)
(* of rex/submission/transport.py and of the final submission state        *)
(* machine: one explicit capability for one destination.  The verdict of   *)
(* an operator ends the job but does not undo a delivery under way.        *)
(***************************************************************************)
CONSTANTS Destinations, Nobody

VARIABLES
    issued,   \* the destination the capability names
    bundle,   \* the destination that received the bundle
    outcome   \* how the job ended

handoffVars == <<issued, bundle, outcome>>

Start == issued = Nobody /\ bundle = Nobody /\ outcome = "open"

Issue(d) ==
    /\ issued = Nobody
    /\ issued' = d
    /\ UNCHANGED <<bundle, outcome>>

Deliver ==
    /\ issued # Nobody /\ bundle = Nobody
    /\ bundle' = issued
    /\ UNCHANGED <<issued, outcome>>

\* A job is handed off only with its bundle delivered.
Succeed ==
    /\ outcome = "open" /\ bundle # Nobody
    /\ outcome' = "handed off"
    /\ UNCHANGED <<issued, bundle>>

GiveUp ==
    /\ outcome = "open"
    /\ outcome' = "closed"
    /\ UNCHANGED <<issued, bundle>>

HandoffNext == (\E d \in Destinations : Issue(d)) \/ Deliver \/ Succeed \/ GiveUp

HandoffSpec == Start /\ [][HandoffNext]_handoffVars

=================================================================================
