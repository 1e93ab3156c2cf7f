--------------------------- MODULE PreparationPromise ---------------------------
(***************************************************************************)
(* What the preparation of a candidate promises to the supervisor: a       *)
(* bounded number of patches is asked for, one at a time; the candidate    *)
(* is prepared on the last one, or abandoned when none is left to ask for. *)
(***************************************************************************)
EXTENDS Naturals

CONSTANT MaxPatches

VARIABLES asked, outcome

promiseVars == <<asked, outcome>>

PromiseInit == asked = 0 /\ outcome = "open"

AskPatch ==
    /\ outcome = "open" /\ asked < MaxPatches
    /\ asked' = asked + 1 /\ UNCHANGED outcome

Prepared ==
    /\ outcome = "open" /\ asked > 0
    /\ outcome' = "prepared" /\ UNCHANGED asked

Abandoned ==
    /\ outcome = "open" /\ asked = MaxPatches
    /\ outcome' = "abandoned" /\ UNCHANGED asked

PromiseNext == AskPatch \/ Prepared \/ Abandoned

Promise == PromiseInit /\ [][PromiseNext]_promiseVars

===============================================================================
