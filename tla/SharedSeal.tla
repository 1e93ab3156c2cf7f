------------------------------- MODULE SharedSeal -------------------------------
(***************************************************************************)
(* What a shared cache key promises to the runs that use it: the entry is  *)
(* sealed as a whole or not there, only damage undoes a seal, only a       *)
(* damaged entry is set aside, and whoever holds a copy took it from a     *)
(* sealed entry.                                                           *)
(***************************************************************************)
CONSTANTS Users, Nothing

VARIABLES seal, holders

sealVars == <<seal, holders>>

SealInit == seal = Nothing /\ holders = {}

Publish == seal = Nothing /\ seal' = "sealed" /\ UNCHANGED holders

Decay == seal = "sealed" /\ seal' = "damaged" /\ UNCHANGED holders

SetAside == seal = "damaged" /\ seal' = Nothing /\ UNCHANGED holders

Take(u) == seal = "sealed" /\ holders' = holders \cup {u} /\ UNCHANGED seal

Lose(u) == holders' = holders \ {u} /\ UNCHANGED seal

SealSpec ==
    SealInit /\ [][Publish \/ Decay \/ SetAside \/ \E u \in Users : Take(u) \/ Lose(u)]_sealVars

===============================================================================
