---------------------------- MODULE PatchProperties ----------------------------
(***************************************************************************)
(* What the preparation of a live candidate must keep up across kills:     *)
(* properties of PatchTransaction and the promise it implements.           *)
(***************************************************************************)
EXTENDS PatchTransaction

\* A commit holds a patch that was accepted after both of its gates passed on
\* its own files, and it is the patch the transaction moved to PATCHED with:
\* _commit_or_recover takes whatever the worktree holds.
CommittedPatchPassed ==
    head # 0 =>
        /\ verdict[head] = "accepted" /\ tx.patch = head
        /\ response[head].kind = "good"
        /\ \A g \in Gates : gate[head][g] = "pass"

\* Repair n is reserved only after attempt n was rejected, and closed only when
\* attempt n + 1 has a verdict: the slots and the files agree though no
\* transaction spans both.
RepairsMatchRejections ==
    \A n \in 1..MaxRepairs :
        /\ repair[n] # "none" => verdict[n] = "rejected"
        /\ repair[n] = "done" => verdict[n + 1] # None

\* A decision of a model, a verdict and the result of a gate are never replaced:
\* a resume reads them again instead of asking, judging or running again.  The
\* exception is a proposal under another id whose process was killed before it
\* had a row.
DecisionsAreFinal ==
    [][/\ \A d \in Decisions : response[d] # None /\ ~(d = 0 /\ Misfiled) => response'[d] = response[d]
       /\ \A k \in Attempts : verdict[k] # None => verdict'[k] = verdict[k]
       /\ \A k \in Attempts, g \in Gates : gate[k][g] # None => gate'[k][g] = gate[k][g]]_patchVars

\* A candidate is abandoned only when every attempt was rejected and all the
\* repair slots are spent; a provider that fails or a kill is no reason.
AbandonedForAReason ==
    main = "ABANDONED" =>
        /\ \A k \in Attempts : verdict[k] = "rejected"
        /\ \A n \in 1..MaxRepairs : repair[n] = "done"
        /\ tx.state = "FAILED_FINAL" /\ head = 0

\* Once the candidate is prepared or abandoned, every decision on file has its
\* row in the run's llm_calls: a kill at any point loses no successful call.
NoDecisionUnaccounted ==
    main \in {"PREPARED", "ABANDONED"} => \A d \in Decisions : response[d] # None => d \in mirrored

\* A preparation's books are in order: slots, verdicts, reasons and the run's
\* table of calls agree, though three stores hold them.
BooksBalance == TypeOK /\ RepairsMatchRejections /\ AbandonedForAReason /\ NoDecisionUnaccounted

\* The dead ends of a preparation: a transaction that failed for another reason
\* than its rejections is refused by every later prepare, a proposal outside
\* its card is refused again, one that changed the parent is refused again when
\* its patch is committed, one under another id leaves a transaction that every
\* later prepare takes for somebody else's, and git does not restore a deleted
\* worktree.
DeadEnd ==
    \/ tx.state = "FAILED_REPAIRABLE" /\ tx.reason # "exhausted"
    \/ response[0] # None /\ response[0].kind = "outside"
    \/ response[0] # None /\ response[0].kind = "redirected" /\ head # 0
    \/ At("away") /\ Foreign /\ tx.state # "none" /\ ~Exhausted
    \/ tree = Gone

\* Outside its dead ends, a preparation that is started again after every end
\* prepares its candidate or abandons it.
PreparationConcludes == <>(main \in {"PREPARED", "ABANDONED"} \/ DeadEnd)

\* A preparation implements its promise.
Promised == INSTANCE PreparationPromise WITH
    MaxPatches <- Cardinality(Attempts),
    asked <- Cardinality({k \in Attempts : response[k] # None}),
    outcome <- CASE main = "PREPARED" -> "prepared"
                 [] main = "ABANDONED" -> "abandoned"
                 [] OTHER -> "open"
ImplementsPromise == Promised!Promise

===============================================================================
