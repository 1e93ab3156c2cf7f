-------------------------- MODULE FeatureProperties --------------------------
(***************************************************************************)
(* What a feature of the past is, defined from the training partition      *)
(* alone, and the properties of the artifacts that hold such features.     *)
(***************************************************************************)
EXTENDS PointInTimeFeatures

Sharing(rows, kind, row) == {r \in rows : KeyOf(kind, log[r]) = KeyOf(kind, row)}

Newest(rows) == CHOOSE r \in rows : \A s \in rows : s = r \/ Older(s, r)

Weight(r, now) == 2 ^ (Horizon - (now - Clock(log[r].time)))

\* The weights of rows at a time, added up: how many units they have together.
Units(rows, now) == UNION {{r} \X (1..Weight(r, now)) : r \in rows}
Total(rows, now) == Cardinality(Units(rows, now))

\* The statistics of a key, for someone who knows the labels of rows and looks at time now.
AsOf(rows, kind, row, now) ==
  LET same == Sharing(rows, kind, row)
      liked == {r \in same : log[r].label = 1}
      all == [count |-> Cardinality(same),
              positives |-> Cardinality(liked),
              last |-> IF same = {} THEN -1 ELSE log[Newest(same)].label,
              since |-> IF same = {} THEN -1 ELSE now - Clock(log[Newest(same)].time),
              fadedCount |-> Total(same, now),
              fadedPositives |-> Total(liked, now)]
  IN  [field \in Recipe.shows[kind] |-> all[field]]

Before(now) == {r \in DOMAIN log : Clock(log[r].time) < now}

\* Rows, groups, statistics, files and phases are well typed; no statistic exceeds the training rows.
TypeOK ==
  /\ extractor \in Extractors /\ log \in Logs
  /\ phase \in Covered \cup {"idle", "reading", "learning", "fitting", "manifest",
                             "ready", "refused"}
  /\ group \subseteq DOMAIN log /\ learned \subseteq DOMAIN log
  /\ memory.rows \in 0..Len(log) /\ memory.positives \in 0..memory.rows
  /\ \A key \in DOMAIN memory.stats : LET s == memory.stats[key] IN
       /\ s.count \in 1..memory.rows /\ s.positives \in 0..s.count
       /\ s.last \in {0, 1} /\ s.seen \in 0..Horizon
       /\ s.fadedCount \in 1..(Len(log) * Unit) /\ s.fadedPositives \in 0..s.fadedCount
  /\ DOMAIN emitted \subseteq DOMAIN log
  /\ DOMAIN files = Covered \cup {"manifest"}
  /\ faults \in 0..MaxFaults

\* Whatever was killed, damaged or reused before, the features of a training row in an artifact that
\* a caller received are exactly those of the rows strictly older than its group: neither its own label
\* nor one of its group, nor a later one, enters (recipes.py "strictly earlier").  The smoothing mean of
\* recency_history is left out: it is the mean of the whole partition (recency.py:32).
TrainedOnThePast ==
  phase = "ready" =>
    \A r \in DOMAIN log : LET now == Clock(log[r].time) IN
      /\ \A kind \in Kinds : handed.train[r].of[kind] = AsOf(Before(now), kind, log[r], now)
      /\ ~Recipe.hindsight =>
           handed.train[r].prior = <<Positives(Before(now)), Cardinality(Before(now))>>

\* The features of a later row in an artifact that a caller received are the same function of the past as
\* those of a training row, the past being the whole training partition: what a model is trained on is what
\* it is served, though the code computes the two separately.
ServedAsTrained ==
  phase = "ready" =>
    \A row \in Later : LET now == Clock(row.time) IN
      /\ \A kind \in Kinds : handed.apply[row].of[kind] = AsOf(DOMAIN log, kind, row, now)
      /\ handed.apply[row].prior = <<Positives(DOMAIN log), Len(log)>>

=============================================================================
