------------------------------ MODULE PlannerRuns -----------------------------
(***************************************************************************)
(* Paid specialist calls of the planner: the invoke tool of the API, the   *)
(* retries of its consumer flow, the file of runs they keep, the day's     *)
(* spend (app/api/planner/tools/invoke/route.ts, lib/integrations/         *)
(* openonion/consumer/orchestrator.ts, lib/onboarding/planner-execution.ts *)
(* and x402-settlement.ts, lib/orchestrator/policy.ts).  One server        *)
(* process: every read-modify-write of a file is synchronous, and requests *)
(* interleave where they await.  sendPayment is a stub that moves no money *)
(* (packages/x402-solana/src/payment.ts:383-427): a payment here is its    *)
(* receipt, and what it may have spent is the swap Jupiter makes for it.   *)
(***************************************************************************)
EXTENDS Naturals, FiniteSets

CONSTANTS
    Invokes,        \* requests to the invoke tool
    OldRuns,        \* completed runs in the file when the server starts
    RetryBudget,    \* the largest retryBudget a request asks for
    DailyBudget,    \* calls the day's budget pays for; 0 is no limit
    NoRun           \* no record of a run

Attempts == Invokes \X (1 .. RetryBudget + 1)
Runs == OldRuns \cup Attempts

\* Run ids are fresh: randomUUID.
ASSUME InvokeAssumption ==
    /\ RetryBudget \in Nat /\ DailyBudget \in Nat
    /\ IsFiniteSet(Invokes) /\ OldRuns \cap Attempts = {}
    /\ NoRun \notin [routed : BOOLEAN, attempted : BOOLEAN, satisfied : BOOLEAN]

VARIABLES
    runs,       \* planner-runs.json: the record of every run id
    spend,      \* spend.json: calls recorded today
    invoke,     \* the state of every invoke request
    sent,       \* history: the runs in which a payment receipt was made
    swaps,      \* history: the runs that sent Jupiter a swap to execute
    unsure,     \* history: runs of either kind that failed after it
    overlaps    \* history: invokes admitted while another one was under way

plannerVars == <<runs, spend, invoke, sent, swaps, unsure, overlaps>>

\* The records the ways out of an attempt leave: no candidate; an exception
\* or a call refused before a payment; a call that failed after one (the
\* mutant books it by its outcome); a completed call.
Unrouted == [routed |-> FALSE, attempted |-> FALSE, satisfied |-> FALSE]
Unpaid == [routed |-> TRUE, attempted |-> FALSE, satisfied |-> FALSE]
BookedByOutcome == Unpaid
PaidInVain == [routed |-> TRUE, attempted |-> TRUE, satisfied |-> FALSE]
Completed == [routed |-> TRUE, attempted |-> TRUE, satisfied |-> TRUE]

PlannerInit(come) ==
    /\ runs = [r \in Runs |-> IF r \in OldRuns THEN Completed ELSE NoRun]
    /\ spend = 0
    /\ invoke = [i \in Invokes |->
                    [at |-> IF i \in come THEN "new" ELSE "absent",
                     tries |-> 0, retries |-> 0]]
    /\ sent = {}
    /\ swaps = {}
    /\ unsure = {}
    /\ overlaps = 0

-----------------------------------------------------------------------------
At(i, where) == invoke[i].at = where
Awaits(i) == invoke[i].at \in {"first", "settle", "execute", "second"}
UnderWay(i) == Awaits(i) \/ invoke[i].at \in {"retry", "spend"}
RunOf(i) == <<i, invoke[i].tries>>

\* The day's budget is used up.
BudgetPassed == DailyBudget > 0 /\ spend > DailyBudget
BudgetReached == DailyBudget > 0 /\ spend >= DailyBudget

\* `!last.ok && retries < retryBudget`.
RetryRegardless(tries, retries) == tries <= RetryBudget
RetriesLeft(tries, retries) == tries - 1 < retries

\* An attempt ends without a completed call: its record, and another attempt.
Fail(i, tries, retries, run) ==
    /\ runs' = [runs EXCEPT ![<<i, tries>>] = run]
    /\ invoke' = [invoke EXCEPT ![i] =
                    [at |-> IF RetriesLeft(tries, retries) THEN "retry" ELSE "ended",
                     tries |-> tries, retries |-> retries]]

\* An attempt starts: the router finds nobody, or the first request goes out.
Attempt(i, tries, retries) ==
    \/ Fail(i, tries, retries, Unrouted)
    \/ /\ invoke' = [invoke EXCEPT ![i] =
                        [at |-> "first", tries |-> tries, retries |-> retries]]
       /\ UNCHANGED runs

Move(i, where) == invoke' = [invoke EXCEPT ![i].at = where]

\* The budget is used up, the policy is disabled, or the prompt is missing or
\* too short: refused before there is a run.
Refuse(i) ==
    /\ At(i, "new")
    /\ Move(i, "refused")
    /\ UNCHANGED <<runs, spend, sent, swaps, unsure, overlaps>>

\* The budget is read before the first await; what the call costs is written
\* after its last one.
Admit(i) ==
    /\ At(i, "new")
    /\ ~BudgetReached
    /\ \E retries \in 0 .. RetryBudget : Attempt(i, 1, retries)
    /\ overlaps' = IF \E j \in Invokes : UnderWay(j) THEN overlaps + 1 ELSE overlaps
    /\ UNCHANGED <<spend, sent, swaps, unsure>>

Retry(i) ==
    /\ At(i, "retry")
    /\ Attempt(i, invoke[i].tries + 1, invoke[i].retries)
    /\ UNCHANGED <<spend, sent, swaps, unsure, overlaps>>

FailHere(i, run) == Fail(i, invoke[i].tries, invoke[i].retries, run)

\* A receipt is made and the paid request goes out.
Pay(i) ==
    /\ Move(i, "second")
    /\ sent' = sent \cup {RunOf(i)}
    /\ UNCHANGED runs

\* The endpoint answers the unpaid request: terms that are met at once, terms
\* that need a swap first, or no challenge and terms that cannot be met.
FirstAnswer(i) ==
    /\ At(i, "first")
    /\ \/ Pay(i)
       \/ Move(i, "settle") /\ UNCHANGED <<runs, sent>>
       \/ FailHere(i, Unpaid) /\ UNCHANGED sent
    /\ UNCHANGED <<spend, swaps, unsure, overlaps>>

\* Jupiter answers the order: with a swap to execute, with none (then, and on
\* the quote that stands in for an order it does not know, a receipt is made
\* without one), or with an error.
Settle(i) ==
    /\ At(i, "settle")
    /\ \/ /\ Move(i, "execute")
          /\ swaps' = swaps \cup {RunOf(i)}
          /\ UNCHANGED <<runs, sent>>
       \/ Pay(i) /\ UNCHANGED swaps
       \/ FailHere(i, Unpaid) /\ UNCHANGED <<sent, swaps>>
    /\ UNCHANGED <<spend, unsure, overlaps>>

\* Jupiter answers the execution, or its quote stands in for a lost answer.
\* After an error the run is recorded as unpaid, executed or not.
Execute(i) ==
    /\ At(i, "execute")
    /\ \/ Pay(i) /\ UNCHANGED unsure
       \/ /\ FailHere(i, Unpaid)
          /\ unsure' = unsure \cup {RunOf(i)}
          /\ UNCHANGED sent
    /\ UNCHANGED <<spend, swaps, overlaps>>

\* The endpoint answers the paid request.
SecondAnswer(i) ==
    /\ At(i, "second")
    /\ \/ /\ runs' = [runs EXCEPT ![RunOf(i)] = Completed]
          /\ Move(i, "spend")
       \/ FailHere(i, PaidInVain)
    /\ UNCHANGED <<spend, sent, swaps, unsure, overlaps>>

\* AbortSignal.timeout and every other exception of the two requests.  The
\* record does not say whether a receipt had been made.
NeverTimesOut(i) == FALSE
TimesOut(i) == At(i, "first") \/ At(i, "second")

Throw(i) ==
    /\ TimesOut(i)
    /\ FailHere(i, Unpaid)
    /\ unsure' = IF At(i, "second") THEN unsure \cup {RunOf(i)} ELSE unsure
    /\ UNCHANGED <<spend, sent, swaps, overlaps>>

RecordSpend(i) ==
    /\ At(i, "spend")
    /\ spend' = spend + 1
    /\ Move(i, "ended")
    /\ UNCHANGED <<runs, sent, swaps, unsure, overlaps>>

InvokeStep(i) ==
    \/ Refuse(i) \/ Admit(i) \/ Retry(i) \/ FirstAnswer(i) \/ Settle(i) \/ Execute(i)
    \/ SecondAnswer(i) \/ Throw(i) \/ RecordSpend(i)

\* What moves an invoke even if the endpoint never answers: the server's own
\* steps and its timeouts, and Jupiter's answers or errors.
Driven(i) ==
    \/ Refuse(i) \/ Admit(i) \/ Retry(i) \/ Settle(i) \/ Execute(i) \/ Throw(i)
    \/ RecordSpend(i)

PlannerCrash ==
    /\ invoke' = [i \in Invokes |-> IF UnderWay(i) THEN [invoke[i] EXCEPT !.at = "lost"]
                                    ELSE invoke[i]]
    /\ UNCHANGED <<runs, spend, sent, swaps, unsure, overlaps>>
=============================================================================
