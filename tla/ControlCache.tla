------------------------------ MODULE ControlCache ------------------------------
(***************************************************************************)
(* The cache of control predictions, rex/control/control_cache.py, as the  *)
(* reference side of a rung uses it (_execute_reference_with_cache in      *)
(* rex/control/scientific_hooks.py).                                       *)
(*                                                                         *)
(* Several runs share one key.  An entry is a directory: not there, sealed *)
(* (it validates against its identity) or damaged.  A run looks the key up *)
(* and copies the entry next to its own evidence, or fits the control      *)
(* itself and publishes it; both happen under an exclusive lock of the     *)
(* key, which the kernel releases when its holder dies.                    *)
(***************************************************************************)
EXTENDS Naturals, FiniteSets

CONSTANTS
    Runs,
    None,
    MaxFaults   \* bound on kills, damage and failures of the host

VARIABLES
    at,        \* where each run's reference execution is
    entry,     \* the entry of the key: absent, sealed or damaged
    lock,      \* the run that holds the key's lock
    staging,   \* what each run's staging directory holds
    copy,      \* each run's private copy, evidence/.../control-cache/imported
    event,     \* the outcome in each run's cache.json
    reference, \* where the predictions a run evaluates came from
    shelf,     \* what the quarantine directory holds
    privileged,\* whether the host lets a process move a directory it cannot write
    faults

cacheVars == <<at, entry, lock, staging, copy, event, reference, shelf, privileged, faults>>

Contents == {"sealed", "damaged"}
Outcomes == {"hit", "bypass", "published", "publish_bypass"}

\* None is none of the values it stands beside.
ASSUME CacheAssumption == MaxFaults \in Nat /\ None \notin Contents \cup Outcomes \cup Runs

Points == {"away", "lookup", "check", "aside", "local", "import", "attest", "load", "execute",
           "publish", "collide", "displace", "stage", "place", "event", "done", "failed"}

CacheTypeOK ==
    /\ at \in [Runs -> Points]
    /\ entry \in Contents \cup {None} /\ lock \in Runs \cup {None}
    /\ staging \in [Runs -> Contents \cup {None}] /\ copy \in [Runs -> Contents \cup {None}]
    /\ event \in [Runs -> Outcomes \cup {None}]
    /\ reference \in [Runs -> {"fresh", "imported", None}]
    /\ shelf \subseteq Contents /\ privileged \in BOOLEAN /\ faults \in 0..MaxFaults

CacheInit ==
    /\ at = [r \in Runs |-> "away"]
    /\ entry = None /\ lock = None
    /\ staging = [r \in Runs |-> None] /\ copy = [r \in Runs |-> None]
    /\ event = [r \in Runs |-> None] /\ reference = [r \in Runs |-> None]
    /\ shelf = {} /\ privileged \in BOOLEAN /\ faults = 0

Goto(r, point) == at' = [at EXCEPT ![r] = point]
Stage(r, content) == staging' = [staging EXCEPT ![r] = content]
Record(r, outcome) == event' = [event EXCEPT ![r] = outcome]

\* _validate_entry: the tree, the hashes, the bundle and the predictions.
Valid(content) == content = "sealed"

-------------------------------------------------------------------------------
(* The lock of the key.                                                    *)

\* A slip: a lock file that is opened and never locked.
OpenLock(r) == lock' = r

Acquire(r) == lock = None /\ lock' = r

Release == lock' = None

-------------------------------------------------------------------------------
(* import_entry.                                                           *)

StartReference(r) ==
    /\ at[r] = "away" /\ Goto(r, "lookup")
    /\ UNCHANGED <<entry, lock, staging, copy, event, reference, shelf, privileged, faults>>

Lookup(r) ==
    /\ at[r] = "lookup" /\ Acquire(r) /\ Goto(r, "check")
    /\ UNCHANGED <<entry, staging, copy, event, reference, shelf, privileged, faults>>

CheckMiss(r) ==
    /\ at[r] = "check" /\ entry = None /\ Goto(r, "execute") /\ Release
    /\ UNCHANGED <<entry, staging, copy, event, reference, shelf, privileged, faults>>

CheckCorrupt(r) ==
    /\ at[r] = "check" /\ entry # None /\ ~Valid(entry) /\ Goto(r, "aside")
    /\ UNCHANGED <<entry, lock, staging, copy, event, reference, shelf, privileged, faults>>

\* _quarantine: the entry's directory was made read-only when it was sealed,
\* and a rename to another parent has to write in it.
Quarantine ==
    IF privileged /\ entry # None
    THEN shelf' = shelf \cup {entry} /\ entry' = None
    ELSE UNCHANGED <<shelf, entry>>

SetAside(r) ==
    /\ at[r] = "aside" /\ Quarantine /\ Goto(r, "execute") /\ Release
    /\ IF entry' = None THEN UNCHANGED event ELSE Record(r, "bypass")
    /\ UNCHANGED <<staging, copy, reference, privileged, faults>>

CheckHit(r) ==
    /\ at[r] = "check" /\ entry # None /\ Valid(entry) /\ Goto(r, "local")
    /\ UNCHANGED <<entry, lock, staging, copy, event, reference, shelf, privileged, faults>>

\* A private copy that validates is kept; one that does not is set aside and
\* the entry is copied again, as it is by now.
KeepCopy(r) ==
    /\ at[r] = "local" /\ copy[r] # None /\ Valid(copy[r]) /\ Goto(r, "attest")
    /\ UNCHANGED <<entry, lock, staging, copy, event, reference, shelf, privileged, faults>>

CopyEntry(r) ==
    /\ at[r] = "local" /\ ~(copy[r] # None /\ Valid(copy[r]))
    /\ copy' = [copy EXCEPT ![r] = None]
    /\ Stage(r, entry) /\ Goto(r, "import")
    /\ UNCHANGED <<entry, lock, event, reference, shelf, privileged, faults>>

\* The staged copy is validated before it is renamed into place.
InstallCopy(r) ==
    /\ at[r] = "import"
    /\ IF Valid(staging[r])
       THEN copy' = [copy EXCEPT ![r] = staging[r]] /\ Goto(r, "attest") /\ UNCHANGED <<lock, event>>
       ELSE Record(r, "bypass") /\ Goto(r, "execute") /\ Release /\ UNCHANGED copy
    /\ Stage(r, None)
    /\ UNCHANGED <<entry, reference, shelf, privileged, faults>>

Attest(r) ==
    /\ at[r] = "attest" /\ Goto(r, "load") /\ Release
    /\ UNCHANGED <<entry, staging, copy, event, reference, shelf, privileged, faults>>

LoadImported(r) ==
    /\ at[r] = "load"
    /\ Record(r, "hit") /\ reference' = [reference EXCEPT ![r] = "imported"] /\ Goto(r, "done")
    /\ UNCHANGED <<entry, lock, staging, copy, shelf, privileged, faults>>

-------------------------------------------------------------------------------
(* A fresh execution and publish.                                          *)

\* The worker's result is durable: a later pass of the same run replays it.
ExecuteFresh(r) ==
    /\ at[r] = "execute"
    /\ reference' = [reference EXCEPT ![r] = "fresh"] /\ Goto(r, "publish")
    /\ UNCHANGED <<entry, lock, staging, copy, event, shelf, privileged, faults>>

BeginPublish(r) ==
    /\ at[r] = "publish" /\ Acquire(r) /\ Goto(r, "collide")
    /\ UNCHANGED <<entry, staging, copy, event, reference, shelf, privileged, faults>>

\* An entry that is there and validates is the publication.
Collide(r) ==
    /\ at[r] = "collide" /\ entry # None
    /\ IF Valid(entry) THEN Record(r, "published") /\ Goto(r, "done") /\ Release
                       ELSE Goto(r, "displace") /\ UNCHANGED <<event, lock>>
    /\ UNCHANGED <<entry, staging, copy, reference, shelf, privileged, faults>>

\* One that does not is set aside, or in the way.
Displace(r) ==
    /\ at[r] = "displace" /\ Quarantine
    /\ IF entry' = None THEN Goto(r, "stage") /\ UNCHANGED <<event, lock>>
                        ELSE Record(r, "publish_bypass") /\ Goto(r, "done") /\ Release
    /\ UNCHANGED <<staging, copy, reference, privileged, faults>>

StagePublication(r) ==
    /\ \/ at[r] = "collide" /\ entry = None
       \/ at[r] = "stage"
    /\ Stage(r, "sealed") /\ Goto(r, "place")
    /\ UNCHANGED <<entry, lock, copy, event, reference, shelf, privileged, faults>>

\* os.replace of the validated staging directory.
Place(r) == entry' = staging[r] /\ Stage(r, None)

PlacePublication(r) ==
    /\ at[r] = "place" /\ Place(r) /\ Goto(r, "event")
    /\ UNCHANGED <<lock, copy, event, reference, shelf, privileged, faults>>

\* The installed entry is validated once more before the lock is left.
FinishPublication(r) ==
    /\ at[r] = "event"
    /\ Record(r, IF Valid(entry) THEN "published" ELSE "publish_bypass")
    /\ Goto(r, "done") /\ Release
    /\ UNCHANGED <<entry, staging, copy, reference, shelf, privileged, faults>>

-------------------------------------------------------------------------------
(* Faults.                                                                 *)

Fault == faults < MaxFaults /\ faults' = faults + 1

Unlock(r) == lock' = IF lock = r THEN None ELSE lock

Kill(r) ==
    /\ at[r] \notin {"away", "done", "failed"} /\ Fault
    /\ Goto(r, "away") /\ Stage(r, None) /\ Unlock(r)
    /\ reference' = [reference EXCEPT ![r] = None]
    /\ UNCHANGED <<entry, copy, event, shelf, privileged>>

\* A contract error or an OSError of the import falls back to an execution, one
\* of the publication leaves the entry to others; the staging is removed.  A
\* copy that cannot be loaded or a failed worker fails the rung.
HostFails(r) ==
    /\ Fault
    /\ \/ at[r] \in {"lookup", "check", "aside", "local", "import", "attest"}
          /\ Record(r, "bypass") /\ Goto(r, "execute")
       \/ at[r] \in {"publish", "collide", "displace", "stage", "place", "event"}
          /\ Record(r, "publish_bypass") /\ Goto(r, "done")
       \/ at[r] \in {"load", "execute"} /\ Goto(r, "failed") /\ UNCHANGED event
    /\ Stage(r, None) /\ Unlock(r)
    /\ UNCHANGED <<entry, copy, reference, shelf, privileged>>

\* The shared directory is damaged at any time; a private copy and the result
\* of a worker while their run is away.
Damage ==
    /\ entry = "sealed" /\ Fault /\ entry' = "damaged"
    /\ UNCHANGED <<at, lock, staging, copy, event, reference, shelf, privileged>>

DamageCopy(r) ==
    /\ at[r] = "away" /\ copy[r] = "sealed" /\ Fault
    /\ copy' = [copy EXCEPT ![r] = "damaged"]
    /\ UNCHANGED <<at, entry, lock, staging, event, reference, shelf, privileged>>

-------------------------------------------------------------------------------

CacheStep(r) ==
    \/ StartReference(r) \/ Lookup(r) \/ CheckMiss(r) \/ CheckCorrupt(r) \/ SetAside(r) \/ CheckHit(r)
    \/ KeepCopy(r) \/ CopyEntry(r) \/ InstallCopy(r) \/ Attest(r) \/ LoadImported(r)
    \/ ExecuteFresh(r) \/ BeginPublish(r) \/ Collide(r) \/ Displace(r) \/ StagePublication(r)
    \/ PlacePublication(r) \/ FinishPublication(r)

CacheNext ==
    \/ \E r \in Runs : CacheStep(r) \/ Kill(r) \/ HostFails(r) \/ DamageCopy(r)
    \/ Damage

CacheSpec == CacheInit /\ [][CacheNext]_cacheVars /\ \A r \in Runs : WF_cacheVars(CacheStep(r))

===============================================================================
