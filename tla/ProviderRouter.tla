----------------------------- MODULE ProviderRouter -----------------------------
(***************************************************************************)
(* One structured request to the language models: ProviderRouter.generate  *)
(* of rex/agents/provider.py with the budget of OpenAIResponsesProvider.   *)
(*                                                                         *)
(* The providers of the route are tried in order, each once and then again *)
(* after a transient failure.  The paid one reserves a call before it asks *)
(* and counts the tokens after; both counters live in the process.  What a *)
(* provider is asked and how its failure is told transient are left out.   *)
(***************************************************************************)
EXTENDS Naturals, Sequences

CONSTANTS
    Route,     \* the providers, in the order they are tried
    Paid,      \* the provider with a budget
    Retries,   \* how often a provider is asked again
    MaxCalls   \* the paid provider's calls

ASSUME RouterAssumption ==
    Route \in Seq(STRING) /\ Retries \in Nat /\ MaxCalls \in Nat

VARIABLES
    call,    \* the request under way: provider, its retries, all attempts
    ledger,  \* the process's counters of the paid provider
    billed   \* calls the paid provider has answered for, in all processes

routerVars == <<call, ledger, billed>>

NoCall == [at |-> 0, tries |-> 0, attempts |-> 0, answered |-> FALSE]
FreshLedger == [calls |-> 0, spent |-> FALSE]

RouterInit ==
    /\ call = NoCall
    /\ ledger = FreshLedger
    /\ billed = 0

Asked == call.at \in 1..Len(Route) /\ ~call.answered
Answered == call.answered
AllFailed == call.at > Len(Route)
Provider == Route[call.at]

Ask == call' = [NoCall EXCEPT !.at = 1]

\* _reserve_call.
WithinBudget == ledger.calls < MaxCalls /\ ~ledger.spent

NextProvider == [call EXCEPT !.at = @ + 1, !.tries = 0, !.attempts = @ + 1]

RefuseCall ==
    /\ Asked /\ Provider = Paid /\ ~WithinBudget
    /\ call' = NextProvider
    /\ UNCHANGED <<ledger, billed>>

\* What a provider can do with a request: answer within the schema, fail in a way
\* worth asking again (an answer outside the schema is one), or fail for good.
CodexOutcomes == {"answer", "transient", "refusal"}
ClaudeOutcomes == {"answer", "transient", "refusal"}
FixedOutcomes == {"answer", "transient", "refusal"}

\* The paid one may also answer with more tokens than were left: the answer is
\* dropped though it was paid for.
PaidOutcomes == {"answer", "transient", "refusal", "overspent"}

Outcomes(provider) ==
    CASE provider = "codex_cli" -> CodexOutcomes
      [] provider = "claude_cli" -> ClaudeOutcomes
      [] provider = Paid -> PaidOutcomes
      [] OTHER -> FixedOutcomes

Request(outcome) ==
    /\ Asked /\ outcome \in Outcomes(Provider)
    /\ Provider = Paid => WithinBudget
    /\ IF Provider = Paid
       THEN /\ ledger' = [calls |-> ledger.calls + 1, spent |-> outcome = "overspent"]
            /\ billed' = billed + 1
       ELSE UNCHANGED <<ledger, billed>>
    /\ call' = CASE outcome = "answer" -> [call EXCEPT !.answered = TRUE, !.attempts = @ + 1]
                 [] outcome = "transient" /\ call.tries < Retries
                      -> [call EXCEPT !.tries = @ + 1, !.attempts = @ + 1]
                 [] OTHER -> NextProvider

===============================================================================
