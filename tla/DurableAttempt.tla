----------------------------- MODULE DurableAttempt -----------------------------
(***************************************************************************)
(* What execute_request promises its caller of one attempt, whatever dies  *)
(* on the way: at most one worker is at work, none is put to work while    *)
(* the attempt has a result, and a result is never replaced.  It may be    *)
(* lost, and then the attempt is made again, but only after trouble with   *)
(* what the attempt relies on.                                             *)
(***************************************************************************)
CONSTANTS AttemptWorkers, AttemptResults, NoResult

VARIABLES
    live,     \* the workers at work
    outcome,  \* the result that every later call is answered with
    trouble   \* what the attempt relies on has failed it

AttemptInit == live = {} /\ outcome = NoResult /\ trouble = FALSE

Launch(i) ==
    /\ live = {} /\ outcome = NoResult
    /\ live' = {i}
    /\ UNCHANGED <<outcome, trouble>>

Finish ==
    /\ live' = {}
    /\ UNCHANGED <<outcome, trouble>>

Conclude ==
    /\ live = {} /\ outcome = NoResult
    /\ outcome' \in AttemptResults
    /\ UNCHANGED <<live, trouble>>

\* What fails the attempt may undo its result at once, or only prepare it.
Suffer ==
    /\ trouble' = TRUE
    /\ outcome' \in {outcome, NoResult}
    /\ UNCHANGED live

Lose ==
    /\ trouble /\ live = {}
    /\ outcome' = NoResult
    /\ UNCHANGED <<live, trouble>>

AttemptNext ==
    (\E i \in AttemptWorkers : Launch(i)) \/ Finish \/ Conclude \/ Suffer \/ Lose

AttemptSpec == AttemptInit /\ [][AttemptNext]_<<live, outcome, trouble>>

================================================================================
