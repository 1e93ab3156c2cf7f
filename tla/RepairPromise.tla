------------------------------ MODULE RepairPromise ------------------------------
(***************************************************************************)
(* What bounded repair promises of one rung: it runs, falls and is mended  *)
(* a limited number of times; it runs again only when a repair that was    *)
(* reserved for its last fall is finished; it passes only while it runs.   *)
(***************************************************************************)
EXTENDS Naturals

CONSTANT Limit

VARIABLES stage, repairs, finished

promiseVars == <<stage, repairs, finished>>

PromiseInit == stage = "running" /\ repairs = 0 /\ finished = 0

Fall == stage = "running" /\ finished = repairs /\ stage' = "fallen" /\ UNCHANGED <<repairs, finished>>

ReserveRepair ==
    /\ stage = "fallen" /\ finished = repairs /\ repairs < Limit
    /\ repairs' = repairs + 1 /\ UNCHANGED <<stage, finished>>

Mend == stage = "fallen" /\ finished < repairs /\ stage' = "mending" /\ UNCHANGED <<repairs, finished>>

Finish == stage = "mending" /\ finished' = repairs /\ UNCHANGED <<stage, repairs>>

RunAgain == stage = "mending" /\ finished = repairs /\ stage' = "running" /\ UNCHANGED <<repairs, finished>>

Pass == stage = "running" /\ stage' = "passed" /\ UNCHANGED <<repairs, finished>>

GiveUp == stage \in {"fallen", "mending"} /\ stage' = "failed" /\ UNCHANGED <<repairs, finished>>

PromiseNext == Fall \/ ReserveRepair \/ Mend \/ Finish \/ RunAgain \/ Pass \/ GiveUp

PromiseSpec == PromiseInit /\ [][PromiseNext]_promiseVars

===============================================================================
