------------------------------- MODULE RunCaches -------------------------------
(***************************************************************************)
(* Runs that share both caches: each verifies its baseline first and, once *)
(* it is accepted, looks for the control of a candidate.  What the two     *)
(* caches have to keep up is stated here.                                  *)
(***************************************************************************)
EXTENDS BaselineCache

vars == <<cacheVars, gateVars>>

Init == CacheInit /\ GateInit

\* The cache of controls is used by a run whose baseline was accepted.
Searching(r) == verified[r] = "accepted"

Gate == (\E r \in Runs : GateStep(r) \/ KillGate(r) \/ GateFails(r)) \/ DamagePayload
Control == (\E r \in Runs : Searching(r) /\ (CacheStep(r) \/ Kill(r) \/ HostFails(r) \/ DamageCopy(r))) \/ Damage

Next ==
    \/ Gate /\ UNCHANGED <<at, entry, lock, staging, copy, event, reference, shelf, privileged>>
    \/ Control /\ UNCHANGED gateVars

\* A process that dies is started again, and does not stop for ever.
Advance(r) ==
    \/ GateStep(r) /\ UNCHANGED <<at, entry, lock, staging, copy, event, reference, shelf, privileged>>
    \/ Searching(r) /\ CacheStep(r) /\ UNCHANGED gateVars

Spec == Init /\ [][Next]_vars /\ \A r \in Runs : WF_vars(Advance(r))

TypeOK == CacheTypeOK /\ GateTypeOK

-------------------------------------------------------------------------------

\* A baseline is accepted on evidence that is whole, computed to its summary or
\* copied from a sealed payload, whatever kills, damage and other runs left.
AcceptedOnWholeEvidence ==
    \A r \in Runs : verified[r] = "accepted" => accepted /\ evidence[r] \in {Complete, Copied}

\* cache.json tells where accepted evidence came from.
NoteNamesTheEvidence ==
    \A r \in Runs : verified[r] = "accepted" =>
        /\ outcome[r] = "hit" => evidence[r] = Copied
        /\ outcome[r] \in {"published", "race_hit"} => evidence[r] = Complete

\* A control is imported only as a copy that validated; the event file and the
\* origin of the predictions agree.
ImportsAreSealed ==
    \A r \in Runs : at[r] = "done" =>
        /\ reference[r] = "imported" <=> event[r] = "hit"
        /\ reference[r] = "imported" => copy[r] = "sealed"

\* Nothing is used, here or there, that is not whole.
WhatIsUsedIsWhole == TypeOK /\ AcceptedOnWholeEvidence /\ NoteNamesTheEvidence /\ ImportsAreSealed

\* The cache of controls keeps what a shared key promises.
Seal == INSTANCE SharedSeal WITH
    Users <- Runs, Nothing <- None, seal <- entry,
    holders <- {r \in Runs : copy[r] = "sealed" \/ (at[r] = "import" /\ staging[r] = "sealed")}
ControlCacheIsSealed == Seal!SealSpec

\* Every verification comes to a verdict, and every reference execution of an
\* accepted run to an end, though locks are waited for and processes die.
RunsConclude ==
    \A r \in Runs :
        /\ <>(verified[r] # None)
        /\ (verified[r] = "accepted") ~> (at[r] \in {"done", "failed"})

===============================================================================
