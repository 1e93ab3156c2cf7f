------------------------------ MODULE RungProperties ------------------------------
(***************************************************************************)
(* What has to hold of a rung that fails and is repaired.                  *)
(***************************************************************************)
EXTENDS RepairEvidence

\* The types of both parts (execution of a rung, evidence of a repair).
TypeOK == RungTypeOK /\ RepairTypeOK

\* A rung is recorded as a whole of one repair number: every fold's metrics and
\* every attempt of the candidate are of that number, and the attempts succeeded.
RungOfOneRevision ==
    cache # None => \A f \in 1..NFolds :
        /\ evidence[f] = cache
        /\ \A op \in Ops : row[<<cache, f, "candidate", op>>] = "SUCCESS"

\* Nothing of a rung executes while its failure is handled: the pools are left
\* after their last thread, so a repair never changes what a fit reads.
QuietWhileRepaired ==
    job # "pool" => Running = {}

\* The rung runs on the worktree that its experiment's commit names, whatever
\* repairs were begun, killed and begun again.
RunsOnTheCommit ==
    job \in {"rung", "pool", "passed"} => head = commit /\ ~dirty /\ used = Cardinality(resumed)

\* What a repair was completed with is there and is what the experiment runs on,
\* and no rung runs on anything but its experiment's commit.
CompletedRepairIsBacked ==
    /\ TypeOK /\ RunsOnTheCommit
    /\ \A n \in Repairs : recorded[n] # {} =>
        /\ recorded[n] \subseteq files[n]
        /\ "config" \in recorded[n] => revision[n] # None
        /\ "update" \in recorded[n] => revision[n] = n /\ head >= n

\* What was decided is not decided again: the durable result of an attempt and
\* what its row says of it are final, and a patch that is committed is not asked
\* for again ("never call the coding provider again").
DecidedOnce ==
    [][/\ \A i \in Ids : /\ result[i] # None => result'[i] = result[i]
                         /\ row[i] \in Verdicts => row'[i] = row[i]
       /\ \A n \in Repairs : asked'[n] # asked[n] => head < n /\ revision[n] = None]_vars

\* The promise of bounded repair.
Stage ==
    CASE state = "RUNNING" -> "running"
      [] state = "FAILED_REPAIRABLE" -> "fallen"
      [] state = "REPAIRING" -> "mending"
      [] state = "COMPLETE" -> "passed"
      [] OTHER -> "failed"

Promise == INSTANCE RepairPromise WITH
    Limit <- MaxRepairs, stage <- Stage, repairs <- used,
    finished <- Cardinality({n \in Repairs : recorded[n] # {}})
RepairsAreBounded == Promise!PromiseSpec

\* A failure that a kill left without a reservation of its own is handed the
\* finished repair of the failure before, for ever.
Spent == state = "FAILED_REPAIRABLE" /\ job # "plan" /\ used > 0 /\ recorded[used] # {}

\* A worker of the present repair was interrupted, and its durable result says so:
\* whoever runs the rung again replays it, and raises again.
Interrupted == state = "RUNNING" /\ \E f \in Folds, s \in Sides, op \in Ops : result[Id(f, s, op)] = "INTERRUPTED"

\* Every rung comes to an end but for these two.
RungConcludes == <>(state \in Finished \/ Spent) \/ <>[]Interrupted

===============================================================================
