------------------------------ MODULE BaselineCache ------------------------------
(***************************************************************************)
(* The baseline gate of a run, verify_baseline in                          *)
(* rex/control/scientific_hooks.py, and the cache of accepted baselines it *)
(* shares with other runs, rex/evaluation/baseline_cache.py.               *)
(*                                                                         *)
(* A run copies the sealed payload into its evidence directory and replays *)
(* the evaluator on it, or computes the baseline in that directory and     *)
(* publishes it.  Validating an entry and setting one aside exclude each   *)
(* other by the key's lock; copying out and publishing take no lock.       *)
(***************************************************************************)
EXTENDS ControlCache

CONSTANTS
    Parts,      \* what the computation writes before its summary, in order
    Acceptable  \* the outcomes assess_baseline can come to

ASSUME BaselineAssumption ==
    /\ Parts \in Nat /\ Acceptable \subseteq BOOLEAN /\ Acceptable # {}
    /\ None \notin Nat \cup {"accepted", "refused"}

VARIABLES
    gateAt,     \* where each run's verification is
    payload,    \* the baseline's entry under its key: absent, sealed, damaged
    evidence,   \* each run's baseline/evidence: absent, k parts, complete, copied
    written,    \* how many parts this pass of a run's computation has written
    draft,      \* each run's staging directory, of either direction
    outcome,    \* the outcome in each run's baseline/cache.json
    accepted,   \* what assess_baseline says of this data and code
    verified,   \* the gate's result per run: None, accepted or refused
    attic       \* what the baseline cache's quarantine holds

gateVars == <<gateAt, payload, evidence, written, draft, outcome, accepted, verified, attic>>

Complete == Parts + 1
Copied == Parts + 2
Spoiled == Parts + 3
GatePoints == {"away", "find", "copy", "place", "replay", "rebind", "clear", "isolate",
               "compute", "publish", "draft", "rename", "note", "assess", "gate", "done"}

GateTypeOK ==
    /\ gateAt \in [Runs -> GatePoints]
    /\ payload \in Contents \cup {None}
    /\ evidence \in [Runs -> 0..Spoiled \cup {None}]
    /\ written \in [Runs -> 0..Complete] /\ draft \in [Runs -> Contents \cup {None}]
    /\ outcome \in [Runs -> {"hit", "miss", "bypass", "published", "race_hit", "publish_bypass", None}]
    /\ accepted \in BOOLEAN
    /\ verified \in [Runs -> {"accepted", "refused", None}]
    /\ attic \subseteq Contents

GateInit ==
    /\ gateAt = [r \in Runs |-> "away"]
    /\ payload = None /\ attic = {}
    /\ evidence = [r \in Runs |-> None] /\ written = [r \in Runs |-> 0]
    /\ draft = [r \in Runs |-> None] /\ outcome = [r \in Runs |-> None]
    /\ accepted \in Acceptable /\ verified = [r \in Runs |-> None]

GateGoto(r, point) == gateAt' = [gateAt EXCEPT ![r] = point]
Draft(r, content) == draft' = [draft EXCEPT ![r] = content]
Note(r, word) == outcome' = [outcome EXCEPT ![r] = word]

-------------------------------------------------------------------------------
(* materialize_baseline_cache and the replay of what it copied.            *)

StartGate(r) ==
    /\ gateAt[r] = "away" /\ verified[r] = None /\ GateGoto(r, "find")
    /\ written' = [written EXCEPT ![r] = 0]
    /\ UNCHANGED <<payload, evidence, draft, outcome, accepted, verified, attic, faults>>

\* validate_baseline_cache under the shared lock, which keeps the entry from
\* being set aside meanwhile; the evidence directory must not be there yet.
FindPayload(r) ==
    /\ gateAt[r] = "find"
    /\ IF payload = None THEN Note(r, "miss") /\ GateGoto(r, "compute")
       ELSE /\ GateGoto(r, IF Valid(payload) /\ evidence[r] = None THEN "copy" ELSE "clear")
            /\ UNCHANGED outcome
    /\ UNCHANGED <<payload, evidence, written, draft, accepted, verified, attic, faults>>

\* _copy_exact_payload reads the entry's path again, without the lock.
CopyPayload(r) ==
    /\ gateAt[r] = "copy" /\ Draft(r, payload)
    /\ GateGoto(r, IF payload = None THEN "clear" ELSE "place")
    /\ UNCHANGED <<payload, evidence, written, outcome, accepted, verified, attic, faults>>

\* The copy is renamed into place when its inventory is the validated one.
PlacePayload(r) ==
    /\ gateAt[r] = "place"
    /\ IF Valid(draft[r])
       THEN /\ evidence' = [evidence EXCEPT ![r] = IF draft[r] = "sealed" THEN Copied ELSE Spoiled]
            /\ GateGoto(r, "replay")
       ELSE GateGoto(r, "clear") /\ UNCHANGED evidence
    /\ Draft(r, None)
    /\ UNCHANGED <<payload, written, outcome, accepted, verified, attic, faults>>

\* _replay_cached_baseline: the evaluator is run on the copied predictions.
ReplayEvaluator(r) ==
    /\ gateAt[r] = "replay" /\ GateGoto(r, "rebind")
    /\ UNCHANGED <<payload, evidence, written, draft, outcome, accepted, verified, attic, faults>>

\* _rebind_baseline_bundles writes this run's commit into the copied bundles.
RebindBundles(r) ==
    /\ gateAt[r] = "rebind" /\ Note(r, "hit") /\ GateGoto(r, "note")
    /\ UNCHANGED <<payload, evidence, written, draft, accepted, verified, attic, faults>>

-------------------------------------------------------------------------------
(* Whatever else went wrong with an entry: it is bypassed and set aside.   *)

ClearEvidence(r) ==
    /\ gateAt[r] = "clear" /\ evidence' = [evidence EXCEPT ![r] = None] /\ GateGoto(r, "isolate")
    /\ UNCHANGED <<payload, written, draft, outcome, accepted, verified, attic, faults>>

\* quarantine_baseline_cache, under the exclusive lock: whatever the entry's
\* path holds by then is renamed into the quarantine.
IsolateEntry ==
    IF payload = None THEN UNCHANGED <<payload, attic>>
    ELSE payload' = None /\ attic' = attic \cup {payload}

\* A slip: an entry that cannot be used is looked up again.
LookAgain(r) == UNCHANGED <<payload, attic>> /\ GateGoto(r, "find")

Bypass(r) == IsolateEntry /\ GateGoto(r, "compute")

Isolate(r) ==
    /\ gateAt[r] = "isolate" /\ Bypass(r) /\ Note(r, "bypass")
    /\ UNCHANGED <<evidence, written, draft, accepted, verified, faults>>

-------------------------------------------------------------------------------
(* A fresh baseline: the lower bounds, the seeds, the summary.             *)

\* The parts are written again from the first, over what an earlier pass left.
Compute(r) ==
    /\ gateAt[r] = "compute"
    /\ written' = [written EXCEPT ![r] = written[r] + 1]
    /\ evidence' = [evidence EXCEPT ![r] =
                      IF evidence[r] # None /\ evidence[r] > written'[r] THEN evidence[r] ELSE written'[r]]
    /\ GateGoto(r, IF written'[r] # Complete THEN "compute" ELSE IF accepted THEN "publish" ELSE "note")
    /\ UNCHANGED <<payload, draft, outcome, accepted, verified, attic, faults>>

\* A slip: evidence is offered without a look at what else is in its tree.
AnyTree(r) == TRUE

\* _inspect_exact_tree: a directory that was copied keeps a file more than the
\* payload may have.
ExactTree(r) == evidence[r] = Complete

\* publish_baseline_cache: an entry that is there is never replaced.
OfferEvidence(r) ==
    /\ gateAt[r] = "publish"
    /\ IF ExactTree(r) /\ payload = None
       THEN GateGoto(r, "draft") /\ UNCHANGED outcome
       ELSE /\ GateGoto(r, "note")
            /\ Note(r, IF ExactTree(r) /\ Valid(payload) THEN "race_hit" ELSE "publish_bypass")
    /\ UNCHANGED <<payload, evidence, written, draft, accepted, verified, attic, faults>>

DraftPayload(r) ==
    /\ gateAt[r] = "draft" /\ Draft(r, "sealed") /\ GateGoto(r, "rename")
    /\ UNCHANGED <<payload, evidence, written, outcome, accepted, verified, attic, faults>>

\* os.rename does not replace a directory with files: another run won.
RenameDraft(r) ==
    IF payload = None THEN payload' = draft[r] /\ Note(r, "published")
    ELSE /\ UNCHANGED payload
         /\ Note(r, IF Valid(payload) THEN "race_hit" ELSE "publish_bypass")

PublishBaseline(r) ==
    /\ gateAt[r] = "rename" /\ RenameDraft(r) /\ Draft(r, None) /\ GateGoto(r, "note")
    /\ UNCHANGED <<evidence, written, accepted, verified, attic, faults>>

-------------------------------------------------------------------------------
(* The verdict.                                                            *)

WriteCacheNote(r) ==
    /\ gateAt[r] = "note" /\ GateGoto(r, "assess")
    /\ UNCHANGED <<payload, evidence, written, draft, outcome, accepted, verified, attic, faults>>

\* The best seed is selected and gate.json written; the supervisor stores the
\* result, or blocks the run.
Assess(r) ==
    /\ gateAt[r] = "assess"
    /\ GateGoto(r, IF accepted THEN "gate" ELSE "done")
    /\ verified' = IF accepted THEN verified ELSE [verified EXCEPT ![r] = "refused"]
    /\ UNCHANGED <<payload, evidence, written, draft, outcome, accepted, attic, faults>>

EstablishBaseline(r) ==
    /\ gateAt[r] = "gate" /\ GateGoto(r, "done")
    /\ verified' = [verified EXCEPT ![r] = "accepted"]
    /\ UNCHANGED <<payload, evidence, written, draft, outcome, accepted, attic, faults>>

-------------------------------------------------------------------------------
(* Faults of the gate.                                                     *)

KillGate(r) ==
    /\ gateAt[r] \notin {"away", "done"} /\ Fault
    /\ GateGoto(r, "away") /\ Draft(r, None)
    /\ UNCHANGED <<payload, evidence, written, outcome, accepted, verified, attic>>

\* An error of the cache or of the host: a lookup falls back to a computation,
\* a publication is given up, and anything else blocks the run.
GateFails(r) ==
    /\ Fault
    /\ \/ /\ gateAt[r] \in {"find", "copy", "place", "replay", "rebind"}
          /\ GateGoto(r, "clear") /\ UNCHANGED <<outcome, verified>>
       \/ /\ gateAt[r] = "isolate" /\ Note(r, "bypass") /\ GateGoto(r, "compute") /\ UNCHANGED verified
       \/ /\ gateAt[r] \in {"publish", "draft", "rename"}
          /\ Note(r, "publish_bypass") /\ GateGoto(r, "note") /\ UNCHANGED verified
       \/ /\ gateAt[r] \in {"clear", "compute", "note", "assess", "gate"}
          /\ verified' = [verified EXCEPT ![r] = "refused"] /\ GateGoto(r, "done") /\ UNCHANGED outcome
    /\ Draft(r, None)
    /\ UNCHANGED <<payload, evidence, written, accepted, attic>>

DamagePayload ==
    /\ payload = "sealed" /\ Fault /\ payload' = "damaged"
    /\ UNCHANGED <<gateAt, evidence, written, draft, outcome, accepted, verified, attic>>

GateStep(r) ==
    \/ StartGate(r) \/ FindPayload(r) \/ CopyPayload(r) \/ PlacePayload(r) \/ ReplayEvaluator(r)
    \/ RebindBundles(r) \/ ClearEvidence(r) \/ Isolate(r) \/ Compute(r) \/ OfferEvidence(r)
    \/ DraftPayload(r) \/ PublishBaseline(r) \/ WriteCacheNote(r) \/ Assess(r) \/ EstablishBaseline(r)

===============================================================================
