------------------------- MODULE PointInTimeFeatures -------------------------
(***************************************************************************)
(* Features of a past known at prediction time (src/rex/features) and the  *)
(* artifact they are kept in (recipes.py).  A recipe passes once over its  *)
(* training rows, oldest group first: it describes every row of a group    *)
(* from what it has learned so far, and only then learns them, row by row. *)
(* It then fits a state on the whole training partition, again row by row, *)
(* and describes the rows of a later partition from that state alone.  The *)
(* result is a directory whose manifest, written last, covers every other  *)
(* file.                                                                   *)
(*                                                                         *)
(* The six extractors share this scheme and differ in the rows they put in *)
(* one group (a date or a timestamp), the keys they keep statistics for    *)
(* (an author, a duration bucket and a video are all an item here), the    *)
(* statistics they show and the mean that smooths their rates.  A rate is  *)
(* represented by its numerator, its denominator and that mean.  Decay     *)
(* halves per unit of the extractor's clock; sums are kept as multiples of *)
(* 1/Unit so that halving is exact.                                        *)
(***************************************************************************)
EXTENDS Integers, Sequences, FiniteSets

CONSTANTS None, Torn,   \* no file, an unreadable file
          Extractors,   \* the extractors considered, a subset of Known
          Users, Items, \* who and what a row is about
          Logs,         \* training partitions: sequences of rows in the order of their row ids
          Later,        \* rows of the later partition, without labels
          TicksPerDay,  \* timestamps in a date
          Horizon,      \* bound on times
          MaxFaults     \* bound on kills and damage

Known == {"expanding", "history", "repeat", "recency", "candidate", "feedback"}

TrainingRow == [user : Users, item : Items, time : 0..Horizon, label : {0, 1}]
LaterRow == [user : Users, item : Items, time : 0..Horizon]

\* No time is negative (temporal_order.py:34), and the later partition follows the
\* training partition (data/temporal.py).
ASSUME FeatureAssumption ==
  /\ Extractors \subseteq Known
  /\ TicksPerDay \in Nat \ {0} /\ Horizon \in Nat /\ MaxFaults \in Nat
  /\ Logs \subseteq Seq(TrainingRow) /\ Later \subseteq LaterRow
  /\ \A l \in Logs, row \in Later : \A r \in DOMAIN l : l[r].time <= row.time

VARIABLES
  extractor, log,   \* the recipe and its training partition
  phase,            \* what the materializing process does next
  group,            \* the rows it has described and not learned yet
  learned, memory,  \* the rows it has learned and what it knows of them
  emitted, served,  \* features of the training rows and of the later rows
  files,            \* the artifact's directory
  handed,           \* the artifact last returned to a caller
  faults

vars == <<extractor, log, phase, group, learned, memory, emitted, served, files, handed, faults>>

-----------------------------------------------------------------------------
(* What an extractor groups by, keeps and shows *)

Tallies == {"count", "positives"}
Fading == {"fadedCount", "fadedPositives"}
Latest == {"last", "since"}

\* A dated extractor groups by date, the others by timestamp; an ordered one fits
\* its state oldest row first; one with hindsight smooths with the mean of all rows.
Expanding == [dated |-> TRUE, ordered |-> FALSE, hindsight |-> FALSE,
              shows |-> [item |-> Tallies]]
History   == [dated |-> TRUE, ordered |-> FALSE, hindsight |-> FALSE,
              shows |-> [user |-> {"count"}, pair |-> Tallies]]
Repeat    == [dated |-> TRUE, ordered |-> TRUE, hindsight |-> FALSE,
              shows |-> [pair |-> Tallies \cup Latest]]
Recency   == [dated |-> TRUE, ordered |-> TRUE, hindsight |-> TRUE,
              shows |-> [user |-> Fading]]
Candidate == [dated |-> FALSE, ordered |-> TRUE, hindsight |-> FALSE,
              shows |-> [user |-> Fading, pair |-> Tallies \cup Fading \cup Latest]]
Feedback  == [dated |-> FALSE, ordered |-> TRUE, hindsight |-> FALSE,
              shows |-> [user |-> Tallies, pair |-> Tallies, item |-> Tallies]]

Recipe == CASE extractor = "expanding" -> Expanding
            [] extractor = "history"   -> History
            [] extractor = "repeat"    -> Repeat
            [] extractor = "recency"   -> Recency
            [] extractor = "candidate" -> Candidate
            [] extractor = "feedback"  -> Feedback

Kinds == DOMAIN Recipe.shows

Clock(time) == IF Recipe.dated THEN time \div TicksPerDay ELSE time

KeyOf(kind, row) == CASE kind = "user" -> <<kind, row.user>>
                      [] kind = "item" -> <<kind, row.item>>
                      [] kind = "pair" -> <<kind, row.user, row.item>>

Keys(row) == {KeyOf(kind, row) : kind \in Kinds}

-----------------------------------------------------------------------------
(* Statistics: learned row by row, read without being changed *)

Unit == 2 ^ Horizon

Unseen == [count |-> 0, positives |-> 0, last |-> -1, seen |-> -1,
           fadedCount |-> 0, fadedPositives |-> 0]

Recall(key) == IF key \in DOMAIN memory.stats THEN memory.stats[key] ELSE Unseen

Elapsed(later, earlier) == IF earlier = -1 \/ later < earlier THEN 0 ELSE later - earlier

Faded(amount, gap) == amount \div 2 ^ gap

\* A slip: what was learned before is not faded when a row is added.
LearnedUnfaded(s, label, now) ==
  [count |-> s.count + 1, positives |-> s.positives + label, last |-> label, seen |-> now,
   fadedCount |-> s.fadedCount + Unit, fadedPositives |-> s.fadedPositives + label * Unit]

Learned(s, label, now) ==
  LET gap == Elapsed(now, s.seen)
  IN  [count |-> s.count + 1, positives |-> s.positives + label, last |-> label, seen |-> now,
       fadedCount |-> Faded(s.fadedCount, gap) + Unit,
       fadedPositives |-> Faded(s.fadedPositives, gap) + label * Unit]

Blank == [stats |-> << >>, positives |-> 0, rows |-> 0]

Learn(m, r) ==
  LET row == log[r]
      old(key) == IF key \in DOMAIN m.stats THEN m.stats[key] ELSE Unseen
  IN  [stats |-> [key \in DOMAIN m.stats \cup Keys(row) |->
                    IF key \in Keys(row) THEN Learned(old(key), row.label, Clock(row.time))
                                         ELSE m.stats[key]],
       positives |-> m.positives + row.label,
       rows |-> m.rows + 1]

Told(kind, s, now) ==
  LET gap == Elapsed(now, s.seen)
      all == [count |-> s.count, positives |-> s.positives, last |-> s.last,
              since |-> IF s.seen = -1 THEN -1 ELSE gap,
              fadedCount |-> Faded(s.fadedCount, gap),
              fadedPositives |-> Faded(s.fadedPositives, gap)]
  IN  [field \in Recipe.shows[kind] |-> all[field]]

Positives(rows) == Cardinality({r \in rows : log[r].label = 1})

\* The mean that smooths rates, as its numerator and denominator; of no rows at all
\* it is <<0, 0>>, which the training pass reads as 0.5 and a state fitted on an
\* empty partition as 0.0.
Prior == IF Recipe.hindsight /\ phase = "reading"
         THEN <<Positives(DOMAIN log), Len(log)>>
         ELSE <<memory.positives, memory.rows>>

Describe(row) == [of |-> [kind \in Kinds |-> Told(kind, Recall(KeyOf(kind, row)), Clock(row.time))],
                  prior |-> Prior]

-----------------------------------------------------------------------------
(* The training rows, oldest group first, ties in the order of their row ids *)

Older(a, b) == \/ Clock(log[a].time) < Clock(log[b].time)
               \/ Clock(log[a].time) = Clock(log[b].time) /\ a < b

Unlearned == DOMAIN log \ learned

Oldest(rows) == {r \in rows : \A s \in rows : s = r \/ Older(r, s)}

\* A slip: rows of one moment are not kept together.
OneRow == Oldest(Unlearned)

Group == {r \in Unlearned : \A s \in Unlearned : Clock(log[r].time) <= Clock(log[s].time)}

\* The state is fitted in order of time, or in order of row ids.
NextToFit == IF Recipe.ordered THEN Oldest(Unlearned)
             ELSE {r \in Unlearned : \A s \in Unlearned : r <= s}

-----------------------------------------------------------------------------
(* The artifact *)

Covered == {"train", "train_note", "apply", "apply_note"}

Covers(manifest) == \A name \in Covered : files[name] # None /\ manifest[name] = files[name]

Init ==
  /\ extractor \in Extractors /\ log \in Logs
  /\ phase = "idle" /\ group = {} /\ learned = {} /\ memory = Blank /\ emitted = << >> /\ served = << >>
  /\ files = [name \in Covered \cup {"manifest"} |-> None]
  /\ handed = None /\ faults = 0

Reuse ==
  /\ phase = "idle" /\ files.manifest \notin {None, Torn} /\ Covers(files.manifest)
  /\ phase' = "ready" /\ handed' = [train |-> files.train, apply |-> files.apply]
  /\ UNCHANGED <<extractor, log, group, learned, memory, emitted, served, files, faults>>

\* A manifest that is no JSON raises before anything is rebuilt.
Refuse ==
  /\ phase = "idle" /\ files.manifest = Torn
  /\ \A name \in {"train", "apply"} : files[name] # None
  /\ phase' = "refused"
  /\ UNCHANGED <<extractor, log, group, learned, memory, emitted, served, files, handed, faults>>

Rebuild ==
  /\ phase = "idle"
  /\ \/ files.manifest = None
     \/ \E name \in {"train", "apply"} : files[name] = None
     \/ files.manifest \notin {None, Torn} /\ ~Covers(files.manifest)
  /\ phase' = "reading" /\ group' = {} /\ learned' = {} /\ memory' = Blank
  /\ emitted' = << >> /\ served' = << >>
  /\ UNCHANGED <<extractor, log, files, handed, faults>>

ReadGroup ==
  /\ phase = "reading" /\ Unlearned # {}
  /\ emitted' = [r \in DOMAIN emitted \cup Group |->
                   IF r \in DOMAIN emitted THEN emitted[r] ELSE Describe(log[r])]
  /\ group' = Group /\ phase' = "learning"
  /\ UNCHANGED <<extractor, log, learned, memory, served, files, handed, faults>>

LearnRow ==
  /\ phase = "learning"
  /\ \E r \in Oldest(group) :
       /\ memory' = Learn(memory, r) /\ learned' = learned \cup {r} /\ group' = group \ {r}
       /\ phase' = IF group' = {} THEN "reading" ELSE "learning"
  /\ UNCHANGED <<extractor, log, emitted, served, files, handed, faults>>

FitState ==
  /\ phase = "reading" /\ Unlearned = {}
  /\ phase' = "fitting" /\ learned' = {} /\ memory' = Blank
  /\ UNCHANGED <<extractor, log, group, emitted, served, files, handed, faults>>

FitRow ==
  /\ phase = "fitting"
  /\ \E r \in NextToFit : memory' = Learn(memory, r) /\ learned' = learned \cup {r}
  /\ UNCHANGED <<extractor, log, phase, group, emitted, served, files, handed, faults>>

ApplyState ==
  /\ phase = "fitting" /\ Unlearned = {}
  /\ served' = [row \in Later |-> Describe(row)]
  /\ phase' = "train"
  /\ UNCHANGED <<extractor, log, group, learned, memory, emitted, files, handed, faults>>

Content(name) == CASE name = "train" -> emitted
                   [] name = "apply" -> served
                   [] OTHER          -> "provenance"

After(name) == CASE name = "train"      -> "train_note"
                 [] name = "train_note" -> "apply"
                 [] name = "apply"      -> "apply_note"
                 [] name = "apply_note" -> "manifest"

Attach ==
  /\ phase \in Covered
  /\ files' = [files EXCEPT ![phase] = Content(phase)]
  /\ phase' = After(phase)
  /\ UNCHANGED <<extractor, log, group, learned, memory, emitted, served, handed, faults>>

WriteManifest ==
  /\ phase = "manifest"
  /\ files' = [files EXCEPT !.manifest = [name \in Covered |-> files[name]]]
  /\ phase' = "ready" /\ handed' = [train |-> files.train, apply |-> files.apply]
  /\ UNCHANGED <<extractor, log, group, learned, memory, emitted, served, faults>>

-----------------------------------------------------------------------------
(* Faults *)

Forget == /\ phase' = "idle" /\ group' = {} /\ learned' = {} /\ memory' = Blank
          /\ emitted' = << >> /\ served' = << >>
          /\ UNCHANGED <<extractor, log, handed>>

\* Another caller asks for the same recipe.
CallAgain ==
  /\ phase = "ready" /\ Forget
  /\ UNCHANGED <<files, faults>>

\* Every file is replaced atomically, except that provenance is written in place.
Kill ==
  /\ faults < MaxFaults /\ faults' = faults + 1
  /\ phase \notin {"idle", "ready", "refused"}
  /\ files' \in {files} \cup
       (IF phase \in {"train_note", "apply_note"} THEN {[files EXCEPT ![phase] = Torn]} ELSE {})
  /\ Forget

\* A file is damaged or lost between two uses of the artifact.
Damage ==
  /\ faults < MaxFaults /\ faults' = faults + 1 /\ phase = "idle"
  /\ \E name \in DOMAIN files, harm \in {None, Torn} :
       files[name] \notin {None, Torn} /\ files' = [files EXCEPT ![name] = harm]
  /\ Forget

Step == Reuse \/ Refuse \/ Rebuild \/ ReadGroup \/ LearnRow \/ FitState \/ FitRow
          \/ ApplyState \/ Attach \/ WriteManifest

Next == Step \/ CallAgain \/ Kill \/ Damage

Spec == Init /\ [][Next]_vars
=============================================================================
