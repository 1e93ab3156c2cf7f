----------------------------- MODULE CacheTheorems -----------------------------
(***************************************************************************)
(* The shared caches for any number of runs, faults and baseline parts:    *)
(* the cache of controls keeps the promise of SharedSeal, and whatever a   *)
(* run accepts or imports is whole.  What a point of a run knows of the    *)
(* entry, it knows because it holds the lock of the key.                   *)
(***************************************************************************)
EXTENDS RunCaches, TLAPS

controlVars == <<at, entry, lock, staging, copy, event, reference, shelf, privileged>>

-------------------------------------------------------------------------------
(* The cache of controls.                                                  *)

Locked == {"check", "aside", "local", "import", "attest", "collide", "displace", "stage", "place", "event"}

\* What a run at each point may rely on.
Holds(r) ==
    /\ at[r] \in Locked => lock = r
    /\ at[r] \in {"aside", "displace"} => entry = "damaged"
    /\ at[r] \in {"stage", "place"} => entry = None
    /\ at[r] = "place" => staging[r] = "sealed"
    /\ at[r] \in {"attest", "load"} => copy[r] = "sealed"
    /\ at[r] \in {"publish", "collide", "displace", "stage", "place", "event"} => reference[r] = "fresh"
    /\ at[r] = "done" => /\ reference[r] = "imported" <=> event[r] = "hit"
                         /\ reference[r] = "imported" => copy[r] = "sealed"

ControlInv == CacheTypeOK /\ \A r \in Runs : Holds(r)

LEMMA ControlStep ==
    ASSUME CacheAssumption, ControlInv, NEW r \in Runs, CacheStep(r) \/ Kill(r) \/ HostFails(r) \/ DamageCopy(r)
    PROVE  ControlInv'
<1> USE CacheAssumption DEF ControlInv, CacheTypeOK, Points, Contents, Outcomes, Holds, Locked, Goto, Stage, Record,
        Acquire, Release, Unlock, Valid, Fault
<1>1. CASE StartReference(r)
  <2>1. CacheTypeOK'
    BY <1>1 DEF StartReference
  <2>2. \A q \in Runs : Holds(q)'
    BY <1>1 DEF StartReference
  <2>. QED  BY <2>1, <2>2
<1>2. CASE Lookup(r)
  <2>1. CacheTypeOK'
    BY <1>2 DEF Lookup
  <2>2. \A q \in Runs : Holds(q)'
    BY <1>2 DEF Lookup
  <2>. QED  BY <2>1, <2>2
<1>3. CASE CheckMiss(r)
  <2>1. CacheTypeOK'
    BY <1>3 DEF CheckMiss
  <2>2. \A q \in Runs : Holds(q)'
    BY <1>3 DEF CheckMiss
  <2>. QED  BY <2>1, <2>2
<1>4. CASE CheckCorrupt(r)
  <2>1. CacheTypeOK'
    BY <1>4 DEF CheckCorrupt
  <2>2. \A q \in Runs : Holds(q)'
    BY <1>4 DEF CheckCorrupt
  <2>. QED  BY <2>1, <2>2
<1>5. CASE SetAside(r)
  <2>1. CacheTypeOK'
    BY <1>5 DEF SetAside, Quarantine
  <2>2. \A q \in Runs : Holds(q)'
    BY <1>5 DEF SetAside, Quarantine
  <2>. QED  BY <2>1, <2>2
<1>6. CASE CheckHit(r)
  <2>1. CacheTypeOK'
    BY <1>6 DEF CheckHit
  <2>2. \A q \in Runs : Holds(q)'
    BY <1>6 DEF CheckHit
  <2>. QED  BY <2>1, <2>2
<1>7. CASE KeepCopy(r)
  <2>1. CacheTypeOK'
    BY <1>7 DEF KeepCopy
  <2>2. \A q \in Runs : Holds(q)'
    BY <1>7 DEF KeepCopy
  <2>. QED  BY <2>1, <2>2
<1>8. CASE CopyEntry(r)
  <2>1. CacheTypeOK'
    BY <1>8 DEF CopyEntry
  <2>2. \A q \in Runs : Holds(q)'
    BY <1>8 DEF CopyEntry
  <2>. QED  BY <2>1, <2>2
<1>9. CASE InstallCopy(r)
  <2>1. CacheTypeOK'
    BY <1>9 DEF InstallCopy
  <2>2. \A q \in Runs : Holds(q)'
    BY <1>9 DEF InstallCopy
  <2>. QED  BY <2>1, <2>2
<1>10. CASE Attest(r)
  <2>1. CacheTypeOK'
    BY <1>10 DEF Attest
  <2>2. \A q \in Runs : Holds(q)'
    BY <1>10 DEF Attest
  <2>. QED  BY <2>1, <2>2
<1>11. CASE LoadImported(r)
  <2>1. CacheTypeOK'
    BY <1>11 DEF LoadImported
  <2>2. \A q \in Runs : Holds(q)'
    BY <1>11 DEF LoadImported
  <2>. QED  BY <2>1, <2>2
<1>12. CASE ExecuteFresh(r)
  <2>1. CacheTypeOK'
    BY <1>12 DEF ExecuteFresh
  <2>2. \A q \in Runs : Holds(q)'
    BY <1>12 DEF ExecuteFresh
  <2>. QED  BY <2>1, <2>2
<1>13. CASE BeginPublish(r)
  <2>1. CacheTypeOK'
    BY <1>13 DEF BeginPublish
  <2>2. \A q \in Runs : Holds(q)'
    BY <1>13 DEF BeginPublish
  <2>. QED  BY <2>1, <2>2
<1>14. CASE Collide(r)
  <2>1. CacheTypeOK'
    BY <1>14 DEF Collide
  <2>2. \A q \in Runs : Holds(q)'
    BY <1>14 DEF Collide
  <2>. QED  BY <2>1, <2>2
<1>15. CASE Displace(r)
  <2>1. CacheTypeOK'
    BY <1>15 DEF Displace, Quarantine
  <2>2. \A q \in Runs : Holds(q)'
    BY <1>15 DEF Displace, Quarantine
  <2>. QED  BY <2>1, <2>2
<1>16. CASE StagePublication(r)
  <2>1. CacheTypeOK'
    BY <1>16 DEF StagePublication
  <2>2. \A q \in Runs : Holds(q)'
    BY <1>16 DEF StagePublication
  <2>. QED  BY <2>1, <2>2
<1>17. CASE PlacePublication(r)
  <2>1. CacheTypeOK'
    BY <1>17 DEF PlacePublication, Place
  <2>2. \A q \in Runs : Holds(q)'
    BY <1>17 DEF PlacePublication, Place
  <2>. QED  BY <2>1, <2>2
<1>18. CASE FinishPublication(r)
  <2>1. CacheTypeOK'
    BY <1>18 DEF FinishPublication
  <2>2. \A q \in Runs : Holds(q)'
    BY <1>18 DEF FinishPublication
  <2>. QED  BY <2>1, <2>2
<1>19. CASE Kill(r)
  <2>1. CacheTypeOK'
    BY <1>19 DEF Kill
  <2>2. \A q \in Runs : Holds(q)'
    BY <1>19 DEF Kill
  <2>. QED  BY <2>1, <2>2
<1>20. CASE HostFails(r)
  <2>1. CacheTypeOK'
    BY <1>20 DEF HostFails
  <2>2. \A q \in Runs : Holds(q)'
    BY <1>20 DEF HostFails
  <2>. QED  BY <2>1, <2>2
<1>21. CASE DamageCopy(r)
  <2>1. CacheTypeOK'
    BY <1>21 DEF DamageCopy
  <2>2. \A q \in Runs : Holds(q)'
    BY <1>21 DEF DamageCopy
  <2>. QED  BY <2>1, <2>2
<1>. QED  BY <1>1, <1>2, <1>3, <1>4, <1>5, <1>6, <1>7, <1>8, <1>9, <1>10, <1>11, <1>12, <1>13, <1>14, <1>15, <1>16, <1>17, <1>18, <1>19, <1>20, <1>21 DEF CacheStep

LEMMA DamageKeeps ==
    ASSUME CacheAssumption, ControlInv, Damage
    PROVE  ControlInv'
<1>1. CacheTypeOK'
  BY CacheAssumption DEF ControlInv, CacheTypeOK, Contents, Damage, Fault
<1>2. entry = "sealed" /\ entry # None
  BY CacheAssumption DEF Damage, Contents
<1>3. \A q \in Runs : Holds(q)'
  BY <1>2 DEF ControlInv, Holds, Damage
<1>. QED  BY <1>1, <1>3 DEF ControlInv

-------------------------------------------------------------------------------
(* Its promise.  Who holds a copy changes with one run at a time.          *)

Holding(r) == copy[r] = "sealed" \/ (at[r] = "import" /\ staging[r] = "sealed")

SealStep == Seal!Publish \/ Seal!Decay \/ Seal!SetAside \/ \E u \in Runs : Seal!Take(u) \/ Seal!Lose(u)

\* The three ways a step of run r leaves the promise alone or keeps it.
LEMMA SameHolders ==
    ASSUME \A q \in Runs : Holding(q)' <=> Holding(q), UNCHANGED entry
    PROVE  UNCHANGED Seal!sealVars
BY DEF Holding, Seal!sealVars

LEMMA OneLoses ==
    ASSUME NEW r \in Runs, ~Holding(r)', \A q \in Runs \ {r} : Holding(q)' <=> Holding(q), UNCHANGED entry
    PROVE  Seal!Lose(r)
BY DEF Holding, Seal!Lose

LEMMA OneTakes ==
    ASSUME NEW r \in Runs, Holding(r)', \A q \in Runs \ {r} : Holding(q)' <=> Holding(q), UNCHANGED entry,
           entry = "sealed"
    PROVE  Seal!Take(r)
BY DEF Holding, Seal!Take

LEMMA EntryChanges ==
    ASSUME \A q \in Runs : Holding(q)' <=> Holding(q),
           \/ entry = None /\ entry' = "sealed"
           \/ entry = "sealed" /\ entry' = "damaged"
           \/ entry = "damaged" /\ entry' = None
    PROVE  SealStep
BY DEF Holding, SealStep, Seal!Publish, Seal!Decay, Seal!SetAside

LEMMA SealKept ==
    ASSUME CacheAssumption, ControlInv, NEW r \in Runs, CacheStep(r) \/ Kill(r) \/ HostFails(r) \/ DamageCopy(r)
    PROVE  SealStep \/ UNCHANGED Seal!sealVars
<1> USE CacheAssumption DEF ControlInv, CacheTypeOK, Contents, Goto, Stage, Valid
<1>1. CASE StartReference(r)
  <2>1. \A q \in Runs : Holding(q)' <=> Holding(q)
    BY <1>1 DEF StartReference, Holding
  <2>. QED  BY <1>1, <2>1, SameHolders DEF StartReference
<1>2. CASE Lookup(r)
  <2>1. \A q \in Runs : Holding(q)' <=> Holding(q)
    BY <1>2 DEF Lookup, Holding
  <2>. QED  BY <1>2, <2>1, SameHolders DEF Lookup
<1>3. CASE CheckMiss(r)
  <2>1. \A q \in Runs : Holding(q)' <=> Holding(q)
    BY <1>3 DEF CheckMiss, Holding
  <2>. QED  BY <1>3, <2>1, SameHolders DEF CheckMiss
<1>4. CASE CheckCorrupt(r)
  <2>1. \A q \in Runs : Holding(q)' <=> Holding(q)
    BY <1>4 DEF CheckCorrupt, Holding
  <2>. QED  BY <1>4, <2>1, SameHolders DEF CheckCorrupt
<1>5. CASE SetAside(r)
  <2>1. \A q \in Runs : Holding(q)' <=> Holding(q)
    BY <1>5 DEF SetAside, Holding
  <2>2. (entry = "damaged" /\ entry' = None) \/ UNCHANGED entry
    BY <1>5 DEF SetAside, Quarantine, Holds
  <2>. QED  BY <2>1, <2>2, SameHolders, EntryChanges
<1>6. CASE CheckHit(r)
  <2>1. \A q \in Runs : Holding(q)' <=> Holding(q)
    BY <1>6 DEF CheckHit, Holding
  <2>. QED  BY <1>6, <2>1, SameHolders DEF CheckHit
<1>7. CASE KeepCopy(r)
  <2>1. \A q \in Runs : Holding(q)' <=> Holding(q)
    BY <1>7 DEF KeepCopy, Holding
  <2>. QED  BY <1>7, <2>1, SameHolders DEF KeepCopy
<1>8. CASE CopyEntry(r)
  <2>1. \A q \in Runs \ {r} : Holding(q)' <=> Holding(q)
    BY <1>8 DEF CopyEntry, Holding
  <2>2. copy'[r] = None /\ at'[r] = "import" /\ staging'[r] = entry /\ UNCHANGED entry
    BY <1>8 DEF CopyEntry
  <2>3. None # "sealed"
    OBVIOUS
  <2>4. Holding(r)' <=> entry = "sealed"
    BY <2>2, <2>3 DEF Holding
  <2>. QED  BY <2>1, <2>2, <2>4, OneTakes, OneLoses DEF SealStep
<1>9. CASE InstallCopy(r)
  <2>1. \A q \in Runs : Holding(q)' <=> Holding(q)
    BY <1>9 DEF InstallCopy, Holding
  <2>. QED  BY <1>9, <2>1, SameHolders DEF InstallCopy
<1>10. CASE Attest(r)
  <2>1. \A q \in Runs : Holding(q)' <=> Holding(q)
    BY <1>10 DEF Attest, Holding
  <2>. QED  BY <1>10, <2>1, SameHolders DEF Attest
<1>11. CASE LoadImported(r)
  <2>1. \A q \in Runs : Holding(q)' <=> Holding(q)
    BY <1>11 DEF LoadImported, Holding
  <2>. QED  BY <1>11, <2>1, SameHolders DEF LoadImported
<1>12. CASE ExecuteFresh(r)
  <2>1. \A q \in Runs : Holding(q)' <=> Holding(q)
    BY <1>12 DEF ExecuteFresh, Holding
  <2>. QED  BY <1>12, <2>1, SameHolders DEF ExecuteFresh
<1>13. CASE BeginPublish(r)
  <2>1. \A q \in Runs : Holding(q)' <=> Holding(q)
    BY <1>13 DEF BeginPublish, Holding
  <2>. QED  BY <1>13, <2>1, SameHolders DEF BeginPublish
<1>14. CASE Collide(r)
  <2>1. \A q \in Runs : Holding(q)' <=> Holding(q)
    BY <1>14 DEF Collide, Holding
  <2>. QED  BY <1>14, <2>1, SameHolders DEF Collide
<1>15. CASE Displace(r)
  <2>1. \A q \in Runs : Holding(q)' <=> Holding(q)
    BY <1>15 DEF Displace, Holding
  <2>2. (entry = "damaged" /\ entry' = None) \/ UNCHANGED entry
    BY <1>15 DEF Displace, Quarantine, Holds
  <2>. QED  BY <2>1, <2>2, SameHolders, EntryChanges
<1>16. CASE StagePublication(r)
  <2>1. \A q \in Runs : Holding(q)' <=> Holding(q)
    BY <1>16 DEF StagePublication, Holding
  <2>. QED  BY <1>16, <2>1, SameHolders DEF StagePublication
<1>17. CASE PlacePublication(r)
  <2>1. \A q \in Runs : Holding(q)' <=> Holding(q)
    BY <1>17 DEF PlacePublication, Place, Holding
  <2>2. entry = None /\ entry' = "sealed"
    BY <1>17 DEF PlacePublication, Place, Holds
  <2>. QED  BY <2>1, <2>2, EntryChanges
<1>18. CASE FinishPublication(r)
  <2>1. \A q \in Runs : Holding(q)' <=> Holding(q)
    BY <1>18 DEF FinishPublication, Holding
  <2>. QED  BY <1>18, <2>1, SameHolders DEF FinishPublication
<1>19. CASE Kill(r)
  <2>1. \A q \in Runs \ {r} : Holding(q)' <=> Holding(q)
    BY <1>19 DEF Kill, Holding
  <2>2. UNCHANGED entry /\ (Holding(r)' => Holding(r))
    BY <1>19 DEF Kill, Holding
  <2>. QED  BY <2>1, <2>2, OneLoses, SameHolders DEF SealStep
<1>20. CASE HostFails(r)
  <2>1. \A q \in Runs \ {r} : Holding(q)' <=> Holding(q)
    BY <1>20 DEF HostFails, Holding
  <2>2. UNCHANGED entry /\ (Holding(r)' => Holding(r))
    BY <1>20 DEF HostFails, Holding
  <2>. QED  BY <2>1, <2>2, OneLoses, SameHolders DEF SealStep
<1>21. CASE DamageCopy(r)
  <2>1. \A q \in Runs \ {r} : Holding(q)' <=> Holding(q)
    BY <1>21 DEF DamageCopy, Holding
  <2>2. UNCHANGED entry /\ (Holding(r)' => Holding(r))
    BY <1>21 DEF DamageCopy, Holding
  <2>. QED  BY <2>1, <2>2, OneLoses, SameHolders DEF SealStep
<1>. QED  BY <1>1, <1>2, <1>3, <1>4, <1>5, <1>6, <1>7, <1>8, <1>9, <1>10, <1>11, <1>12, <1>13, <1>14, <1>15, <1>16, <1>17, <1>18, <1>19, <1>20, <1>21 DEF CacheStep

-------------------------------------------------------------------------------
(* The baseline gate.  A run at each point knows what its evidence is and  *)
(* which word its note will carry; only the run itself changes either.     *)

Settling == {"note", "assess", "gate", "done"}
Publishing == {"publish", "draft", "rename"}

\* The note a run may write on the evidence it has.
NoteFits(r) ==
    /\ outcome[r] = "hit" => evidence[r] = Copied
    /\ outcome[r] \in {"published", "race_hit"} => evidence[r] = Complete

Judges(r) ==
    /\ evidence[r] # Spoiled
    /\ gateAt[r] = "compute" =>
         /\ written[r] < Complete /\ outcome[r] \in {"miss", "bypass"}
         /\ written[r] # 0 => evidence[r] # None /\ evidence[r] >= written[r]
    /\ gateAt[r] \in {"find", "copy", "place", "replay", "rebind", "clear", "isolate"} => written[r] = 0
    /\ gateAt[r] \in {"replay", "rebind"} => evidence[r] = Copied
    /\ gateAt[r] \in Publishing \cup {"note", "assess", "gate"} => evidence[r] \in {Complete, Copied}
    /\ gateAt[r] \in Publishing => outcome[r] \in {"miss", "bypass"}
    /\ gateAt[r] \in {"draft", "rename"} => evidence[r] = Complete
    /\ gateAt[r] \in {"note", "assess", "gate"} => NoteFits(r)
    /\ gateAt[r] = "gate" => accepted
    /\ verified[r] # None => gateAt[r] = "done"
    /\ verified[r] = "accepted" => accepted /\ evidence[r] \in {Complete, Copied} /\ NoteFits(r)

GateInv == GateTypeOK /\ \A r \in Runs : Judges(r)

LEMMA GateKeeps ==
    ASSUME CacheAssumption, BaselineAssumption, GateInv, NEW r \in Runs, GateStep(r) \/ KillGate(r) \/ GateFails(r)
    PROVE  GateInv'
<1> USE CacheAssumption, BaselineAssumption DEF GateInv, GateTypeOK, GatePoints, Contents, Judges, NoteFits,
        Publishing, Complete, Copied, Spoiled, GateGoto, Draft, Note, Valid
<1>1. CASE StartGate(r)
  <2>1. GateTypeOK'
    BY <1>1 DEF StartGate
  <2>2. \A q \in Runs : Judges(q)'
    BY <1>1 DEF StartGate
  <2>. QED  BY <2>1, <2>2
<1>2. CASE FindPayload(r)
  <2>1. GateTypeOK'
    BY <1>2 DEF FindPayload
  <2>2. \A q \in Runs \ {r} : Judges(q)'
    BY <1>2 DEF FindPayload
  <2>3. Judges(r)'
    BY <1>2 DEF FindPayload
  <2>. QED  BY <2>1, <2>2, <2>3
<1>3. CASE CopyPayload(r)
  <2>1. GateTypeOK'
    BY <1>3 DEF CopyPayload
  <2>2. \A q \in Runs : Judges(q)'
    BY <1>3 DEF CopyPayload
  <2>. QED  BY <2>1, <2>2
<1>4. CASE PlacePayload(r)
  <2>1. GateTypeOK'
    BY <1>4 DEF PlacePayload
  <2>2. \A q \in Runs \ {r} : Judges(q)'
    BY <1>4 DEF PlacePayload
  <2>3. Judges(r)'
    BY <1>4 DEF PlacePayload
  <2>. QED  BY <2>1, <2>2, <2>3
<1>5. CASE ReplayEvaluator(r)
  <2>1. GateTypeOK'
    BY <1>5 DEF ReplayEvaluator
  <2>2. \A q \in Runs : Judges(q)'
    BY <1>5 DEF ReplayEvaluator
  <2>. QED  BY <2>1, <2>2
<1>6. CASE RebindBundles(r)
  <2>1. GateTypeOK'
    BY <1>6 DEF RebindBundles
  <2>2. \A q \in Runs : Judges(q)'
    BY <1>6 DEF RebindBundles
  <2>. QED  BY <2>1, <2>2
<1>7. CASE ClearEvidence(r)
  <2>1. GateTypeOK'
    BY <1>7 DEF ClearEvidence
  <2>2. \A q \in Runs \ {r} : Judges(q)'
    BY <1>7 DEF ClearEvidence
  <2>3. Judges(r)'
    BY <1>7 DEF ClearEvidence
  <2>. QED  BY <2>1, <2>2, <2>3
<1>8. CASE Isolate(r)
  <2>1. payload' \in Contents \cup {None} /\ attic' \subseteq Contents
    <3>1. CASE payload = None
      BY <1>8, <3>1 DEF Isolate, Bypass, IsolateEntry
    <3>2. CASE payload # None
      <4>1. payload' = None /\ attic' = attic \cup {payload}
        BY <1>8, <3>2 DEF Isolate, Bypass, IsolateEntry
      <4>2. payload \in Contents /\ attic \subseteq Contents
        BY <3>2
      <4>. QED  BY <4>1, <4>2
    <3>. QED  BY <3>1, <3>2
  <2>2. GateTypeOK'
    BY <1>8, <2>1 DEF Isolate, Bypass
  <2>3. \A q \in Runs \ {r} : Judges(q)'
    BY <1>8 DEF Isolate, Bypass
  <2>4. Judges(r)'
    BY <1>8 DEF Isolate, Bypass
  <2>. QED  BY <2>2, <2>3, <2>4
<1>9. CASE Compute(r)
  <2>1. GateTypeOK'
    BY <1>9 DEF Compute
  <2>2. \A q \in Runs : Judges(q)'
    BY <1>9 DEF Compute
  <2>. QED  BY <2>1, <2>2
<1>10. CASE OfferEvidence(r)
  <2>1. GateTypeOK'
    BY <1>10 DEF OfferEvidence, ExactTree
  <2>2. \A q \in Runs : Judges(q)'
    BY <1>10 DEF OfferEvidence, ExactTree
  <2>. QED  BY <2>1, <2>2
<1>11. CASE DraftPayload(r)
  <2>1. GateTypeOK'
    BY <1>11 DEF DraftPayload
  <2>2. \A q \in Runs : Judges(q)'
    BY <1>11 DEF DraftPayload
  <2>. QED  BY <2>1, <2>2
<1>12. CASE PublishBaseline(r)
  <2>1. GateTypeOK'
    BY <1>12 DEF PublishBaseline, RenameDraft
  <2>2. \A q \in Runs : Judges(q)'
    BY <1>12 DEF PublishBaseline, RenameDraft
  <2>. QED  BY <2>1, <2>2
<1>13. CASE WriteCacheNote(r)
  <2>1. GateTypeOK'
    BY <1>13 DEF WriteCacheNote
  <2>2. \A q \in Runs : Judges(q)'
    BY <1>13 DEF WriteCacheNote
  <2>. QED  BY <2>1, <2>2
<1>14. CASE Assess(r)
  <2>1. GateTypeOK'
    BY <1>14 DEF Assess
  <2>2. \A q \in Runs : Judges(q)'
    BY <1>14 DEF Assess
  <2>. QED  BY <2>1, <2>2
<1>15. CASE EstablishBaseline(r)
  <2>1. GateTypeOK'
    BY <1>15 DEF EstablishBaseline
  <2>2. \A q \in Runs : Judges(q)'
    BY <1>15 DEF EstablishBaseline
  <2>. QED  BY <2>1, <2>2
<1>16. CASE KillGate(r)
  <2>1. GateTypeOK'
    BY <1>16 DEF KillGate
  <2>2. \A q \in Runs : Judges(q)'
    BY <1>16 DEF KillGate
  <2>. QED  BY <2>1, <2>2
<1>17. CASE GateFails(r)
  <2>1. GateTypeOK'
    BY <1>17 DEF GateFails
  <2>2. \A q \in Runs \ {r} : Judges(q)'
    BY <1>17 DEF GateFails
  <2>3. Judges(r)'
    BY <1>17 DEF GateFails
  <2>. QED  BY <2>1, <2>2, <2>3
<1>. QED  BY <1>1, <1>2, <1>3, <1>4, <1>5, <1>6, <1>7, <1>8, <1>9, <1>10, <1>11, <1>12, <1>13, <1>14, <1>15, <1>16, <1>17 DEF GateStep

LEMMA PayloadDamageKeeps ==
    ASSUME CacheAssumption, GateInv, DamagePayload
    PROVE  GateInv'
BY DEF GateInv, GateTypeOK, Contents, Judges, NoteFits, DamagePayload

-------------------------------------------------------------------------------
(* The runs.                                                               *)

CacheInv == ControlInv /\ GateInv

LEMMA InitHolds ==
    ASSUME CacheAssumption, BaselineAssumption, Init
    PROVE  CacheInv
<1>1. CacheTypeOK
  BY CacheAssumption DEF Init, CacheInit, CacheTypeOK, Points
<1>2. \A r \in Runs : Holds(r)
  BY CacheAssumption DEF Init, CacheInit, Holds, Locked, Outcomes
<1>3. GateTypeOK
  BY BaselineAssumption DEF Init, GateInit, GateTypeOK, GatePoints, Complete
<1>4. \A r \in Runs : Judges(r)
  BY BaselineAssumption DEF Init, GateInit, Judges, NoteFits, Publishing, Spoiled, Complete, Copied
<1>. QED  BY <1>1, <1>2, <1>3, <1>4 DEF CacheInv, ControlInv, GateInv

\* The gate does not touch the cache of controls but for the count of faults.
LEMMA ControlUntouched ==
    ASSUME ControlInv, UNCHANGED controlVars, faults' \in 0..MaxFaults
    PROVE  ControlInv'
BY DEF ControlInv, CacheTypeOK, Holds, controlVars

LEMMA GateUntouched ==
    ASSUME GateInv, UNCHANGED gateVars
    PROVE  GateInv'
BY DEF GateInv, GateTypeOK, Judges, NoteFits, gateVars

LEMMA GateCounts ==
    ASSUME CacheAssumption, CacheTypeOK, Gate
    PROVE  faults' \in 0..MaxFaults
<1> USE CacheAssumption DEF CacheTypeOK, Fault
<1>1. ASSUME NEW r \in Runs, GateStep(r)  PROVE faults' = faults
  BY <1>1 DEF GateStep, StartGate, FindPayload, CopyPayload, PlacePayload, ReplayEvaluator, RebindBundles,
     ClearEvidence, Isolate, Compute, OfferEvidence, DraftPayload, PublishBaseline, WriteCacheNote, Assess,
     EstablishBaseline
<1>2. ASSUME NEW r \in Runs, KillGate(r) \/ GateFails(r)  PROVE faults < MaxFaults /\ faults' = faults + 1
  BY <1>2 DEF KillGate, GateFails
<1>3. CASE DamagePayload
  BY <1>3 DEF DamagePayload
<1>. QED  BY <1>1, <1>2, <1>3 DEF Gate

LEMMA NextHolds ==
    ASSUME CacheAssumption, BaselineAssumption, CacheInv, [Next]_vars
    PROVE  CacheInv'
<1>1. CASE Gate /\ UNCHANGED controlVars
  <2>1. ControlInv'
    BY <1>1, GateCounts, ControlUntouched DEF CacheInv, ControlInv
  <2>2. GateInv'
    BY <1>1, GateKeeps, PayloadDamageKeeps DEF CacheInv, Gate
  <2>. QED  BY <2>1, <2>2 DEF CacheInv
<1>2. CASE Control /\ UNCHANGED gateVars
  <2>1. ControlInv'
    BY <1>2, ControlStep, DamageKeeps DEF CacheInv, Control
  <2>. QED  BY <1>2, <2>1, GateUntouched DEF CacheInv
<1>3. CASE UNCHANGED vars
  <2>1. ControlInv'
    BY <1>3, ControlUntouched DEF vars, cacheVars, controlVars, CacheInv, ControlInv, CacheTypeOK
  <2>. QED  BY <1>3, <2>1, GateUntouched DEF CacheInv, vars, gateVars
<1>. QED  BY <1>1, <1>2, <1>3 DEF Next, controlVars

\* What every run, fault and interleaving leaves true of both caches.
THEOREM CacheInvariant == Spec => []CacheInv
<1>1. Init => CacheInv
  BY InitHolds, CacheAssumption, BaselineAssumption
<1>2. CacheInv /\ [Next]_vars => CacheInv'
  BY NextHolds, CacheAssumption, BaselineAssumption
<1>. QED  BY <1>1, <1>2, PTL DEF Spec

\* Nothing is used that is not whole: a baseline is accepted on evidence that
\* was computed to its summary or copied from a sealed payload, its note says
\* which, and a control is imported as a copy that validated.
THEOREM NothingBrokenIsUsed == Spec => []WhatIsUsedIsWhole
<1>1. CacheInv => WhatIsUsedIsWhole
  BY DEF CacheInv, ControlInv, GateInv, Holds, Judges, NoteFits, WhatIsUsedIsWhole, TypeOK,
     AcceptedOnWholeEvidence, NoteNamesTheEvidence, ImportsAreSealed
<1>. QED  BY <1>1, CacheInvariant, PTL

LEMMA PromiseKept ==
    ASSUME CacheAssumption, CacheInv, [Next]_vars
    PROVE  SealStep \/ UNCHANGED Seal!sealVars
<1>1. CASE UNCHANGED <<at, entry, staging, copy>>
  BY <1>1 DEF Seal!sealVars
<1>2. CASE Damage
  BY <1>2, CacheAssumption, EntryChanges DEF Damage, Holding
<1>3. CASE Control
  BY <1>2, <1>3, SealKept DEF Control, CacheInv
<1>. QED  BY <1>1, <1>3 DEF Next, vars, cacheVars

\* The cache of controls keeps the promise of a shared key: an entry is sealed as
\* a whole, only damage undoes a seal, only a damaged entry is set aside, and a
\* copy is taken from a sealed entry, for any number of runs that die anywhere.
THEOREM SharedKeyIsSealed == Spec => ControlCacheIsSealed
<1>1. Init => Seal!SealInit
  BY CacheAssumption DEF Init, CacheInit, Seal!SealInit, Contents
<1>2. CacheInv /\ [Next]_vars => [SealStep]_(Seal!sealVars)
  BY PromiseKept, CacheAssumption
<1>. QED  BY <1>1, <1>2, CacheInvariant, PTL DEF Spec, ControlCacheIsSealed, Seal!SealSpec, SealStep

===============================================================================
