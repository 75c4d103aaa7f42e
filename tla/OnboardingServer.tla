---------------------------- MODULE OnboardingServer ---------------------------
(***************************************************************************)
(* The server process behind the planner and endpoint routes: PlannerRuns, *)
(* RatingDesk and EndpointProfile, interleaved where their requests await, *)
(* over the files they share.  The process may stop at any of those points *)
(* and starts again from the files.                                        *)
(***************************************************************************)
EXTENDS RatingDesk, EndpointProfile

CONSTANTS Loads     \* the sets of requests that may come

ASSUME LoadAssumption == 
    Loads \subseteq SUBSET (Invokes \cup Signals \cup Reveals \cup Requests)

vars == <<plannerVars, deskVars, endpointVars>>

Init == \E come \in Loads : PlannerInit(come) /\ DeskInit(come) /\ EndpointInit(come)

Crash ==
    /\ Faults
    /\ \/ \E i \in Invokes : UnderWay(i)
       \/ \E s \in Signals : signal[s].at = "commit"
       \/ Awaiting # {}
       \/ \E q \in Requests : Probing(q)
    /\ PlannerCrash /\ DeskCrash /\ EndpointCrash

Next ==
    \/ \E i \in Invokes : InvokeStep(i) /\ UNCHANGED <<deskVars, endpointVars>>
    \/ DeskStep /\ UNCHANGED <<plannerVars, endpointVars>>
    \/ EndpointStep /\ UNCHANGED <<plannerVars, deskVars>>
    \/ Crash

\* The server runs on, and AbortSignal.timeout(12000) ends both requests of an
\* attempt; the fetches of jupiter.ts have no timeout of their own and are
\* assumed to settle (the HTTP client's default bounds them).  Nothing is
\* assumed of endpoints, RPC nodes or the chain.
Spec == Init /\ [][Next]_vars
FairSpec == Spec /\ \A i \in Invokes : WF_vars(Driven(i) /\ UNCHANGED <<deskVars, endpointVars>>)

-----------------------------------------------------------------------------
(* The record of runs *)

Satisfied(r) == r \in Runs /\ runs[r] # NoRun /\ runs[r].satisfied

\* The two files agree with one another and with what the runs did, over
\* retries and crashes.  No record claims a payment that was not made; one of a
\* run that paid, or had a swap executed, says so unless that run failed after
\* it (the catch of executePlannerSpecialistCall and its failed settlements
\* write paymentAttempted: false).  A record is missing only of the last
\* attempt of an invoke, while it awaits or because a crash met it there: then
\* a payment it made is forgotten.  The day's spend is the completed calls on
\* record, less those whose spend a crash forgot or is still to be written.
BooksAgree ==
    /\ \A r \in Attempts : runs[r] # NoRun =>
          /\ runs[r].attempted => r \in sent
          /\ r \in sent \cup swaps => runs[r].attempted \/ r \in unsure
    /\ \A i \in Invokes : \A n \in 1 .. invoke[i].tries :
          runs[<<i, n>>] = NoRun =>
              n = invoke[i].tries /\ (Awaits(i) \/ At(i, "lost"))
    /\ spend = Cardinality({r \in Attempts :
                  Satisfied(r) /\ invoke[r[1]].at \notin {"spend", "lost"}})

\* However its attempts end, those of an invoke that pay or have a swap executed
\* are at most one more than the retries it asked for, and none comes after an
\* attempt that was answered.
RetriesBounded ==
    \A i \in Invokes :
        /\ Cardinality({r \in sent \cup swaps : r[1] = i}) <= invoke[i].retries + 1
        /\ \A n \in 1 .. invoke[i].tries :
              Satisfied(<<i, n>>) => n = invoke[i].tries

\* The day's budget is overrun by no more calls than were admitted while
\* another one was under way: each of those was admitted on a reading of
\* spend.json that did not know of the calls under way.
BudgetOvershoot ==
    DailyBudget > 0 =>
        spend + Cardinality({i \in Invokes : UnderWay(i)}) <= DailyBudget + overlaps

\* Every invoke ends: answered, refused, out of retries, or lost with the
\* process that served it.
InvokesEnd ==
    \A i \in Invokes :
        (At(i, "new") \/ UnderWay(i)) ~> invoke[i].at \in {"refused", "ended", "lost"}

-----------------------------------------------------------------------------
(* The ratings *)

\* An entry of rating-commits.json opens the commitment that is on chain for
\* its run, and is marked revealed only once the chain has taken its score.
SaltsOpen ==
    \A r \in Runs : salts[r] # None =>
        /\ chain[r].commit = [salt |-> salts[r].salt, score |-> salts[r].score]
        /\ salts[r].revealed => chain[r].scored

\* A commitment on chain can be opened from the file, unless its request has
\* not seen it confirmed (still awaiting, failed, or lost with the process:
\* the salt is stored only after the confirmation) or its entry was stored
\* while a reveal was awaiting and was dropped when that wrote the file back.
CommitmentsOpenable ==
    \A r \in Runs : chain[r].commit # None =>
        \/ salts[r] # None
        \/ signal[chain[r].commit.salt].at \in {"commit", "threw", "lost"}
        \/ r \in exposed

\* A signal the planner has taken has one record, unless another signal came in
\* the same millisecond and has the same id.  The record claims a commitment
\* only if it landed, and of a signal that is done always then; one that threw
\* or was lost may have landed and be recorded as failed, or without outcome.
Taken(s) == signal[s].at \notin {"absent", "new"}
FeedbackKept ==
    \A s \in Signals :
        Taken(s) /\ (\A t \in Signals \ {s} : signal[t].id # signal[s].id) =>
            \E n \in DOMAIN feedback :
                /\ \A k \in DOMAIN feedback : feedback[k].by = s <=> k = n
                /\ feedback[n].outcome = "committed" => signal[s].tx = "landed"
                /\ signal[s].at = "done" /\ signal[s].tx = "landed" =>
                      feedback[n].outcome = "committed"
-----------------------------------------------------------------------------
(* The endpoint profile *)

\* The profile names the token issued last, whatever heartbeats came after,
\* unless that rotation has not written it (still probing, or lost) or ran
\* beside another request: a heartbeat that read the profile before a rotation
\* and writes it after puts the old token back.
NewestTokenKept ==
    newest # NoProfile /\ request[newest].at = "done" /\ newest \notin met =>
        profile.token = newest
==============================================================================
