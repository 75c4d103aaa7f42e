--------------------------- MODULE OnboardingMachine ---------------------------
(***************************************************************************)
(* The read model of one onboarding draft and the transition function      *)
(* that moves it (packages/agent-protocol/src/onboarding-state-machine.ts).*)
(* Events come from operators, providers, the analyser and the system with *)
(* timestamps and gates of their own choosing; the function accepts an     *)
(* event or leaves the model alone, and logs what it accepted.             *)
(***************************************************************************)
EXTENDS Integers, Sequences

CONSTANTS
    Actors,         \* the actor types that send events
    Readiness,      \* the readiness summaries events carry
    GateSets,       \* the sets of open gates events carry
    Times,          \* instants of timestamps that are dates
    NotADate,       \* a timestamp that has the form of a date and is none
    MaxEvents       \* bound: accepted events

ActorTypes == {"operator", "provider", "analyser", "system"}
ReadinessSummaries == {"blocked", "needs_operator_review", "publish_ready"}
BlockingGateKeys == {"probe", "provider_input", "payment_setup", "dry_run",
                     "risk_review", "operator_approval", "readiness"}

ASSUME ActorAssumption == Actors \subseteq ActorTypes
ASSUME ReadinessAssumption == Readiness \subseteq ReadinessSummaries
ASSUME GateAssumption == GateSets \subseteq SUBSET BlockingGateKeys
ASSUME TimeAssumption == Times \subseteq Nat /\ NotADate \notin Nat
ASSUME EventAssumption == MaxEvents \in Nat

Graph ==
    [draft |-> {"probe_failed", "needs_provider_input",
                "payment_setup_required", "dry_run_required",
                "risk_review_required", "pending_operator_approval",
                "rejected", "suspended"},
     probe_failed |-> {"draft", "needs_provider_input", "rejected",
                       "suspended"},
     needs_provider_input |-> {"draft", "payment_setup_required", "rejected",
                               "suspended"},
     payment_setup_required |-> {"draft", "dry_run_required", "rejected",
                                 "suspended"},
     dry_run_required |-> {"probe_failed", "risk_review_required",
                           "pending_operator_approval", "rejected",
                           "suspended"},
     risk_review_required |-> {"pending_operator_approval",
                               "changes_requested", "rejected", "suspended"},
     pending_operator_approval |-> {"approved_unpublished",
                                    "changes_requested", "rejected",
                                    "suspended"},
     approved_unpublished |-> {"published_candidate", "changes_requested",
                               "suspended"},
     changes_requested |-> {"draft", "pending_operator_approval", "rejected",
                            "suspended"},
     rejected |-> {},
     suspended |-> {"draft", "rejected"},
     published_candidate |-> {"changes_requested", "suspended"}]

States == DOMAIN Graph

OperatorOnly == {"approved_unpublished", "changes_requested", "rejected",
                 "suspended", "published_candidate"}

Approved == {"approved_unpublished", "published_candidate"}

\* The gate an event must carry as still open to enter a state.
RequiredGate ==
    [probe_failed |-> "probe",
     needs_provider_input |-> "provider_input",
     payment_setup_required |-> "payment_setup",
     dry_run_required |-> "dry_run",
     risk_review_required |-> "risk_review",
     pending_operator_approval |-> "operator_approval"]

Timestamps == Times \cup {NotADate}

\* The fields of an event that decide its fate; an event without a reason or
\* a reference, or one that asks for a side effect, is refused before.
Event == [to : States, actorType : Actors, occurredAt : Timestamps,
          readinessOverall : Readiness, blockingGates : GateSets]

Record == [sequence : Nat, from : States, to : States, actorType : Actors,
           occurredAt : Timestamps, readinessOverall : Readiness,
           blockingGates : GateSets]

VARIABLES
    state,              \* where the draft is
    stateSince,         \* the timestamp of the event that brought it there
    readinessOverall,   \* of that event
    blockingGates,      \* of that event
    history             \* the accepted events

vars == <<state, stateSince, readinessOverall, blockingGates, history>>

Init ==
    /\ state = "draft"
    /\ stateSince \in Timestamps
    /\ readinessOverall \in Readiness
    /\ blockingGates \in GateSets
    /\ history = <<>>

\* a < b on the numbers getTime() returns: false when one of them is NaN.
Earlier(a, b) == a # NotADate /\ b # NotADate /\ a < b

NeedsOperator(from, to) == to \in OperatorOnly \/ from = "suspended"

CarriesGate(e) ==
    e.to \in DOMAIN RequiredGate => RequiredGate[e.to] \in e.blockingGates

\* The check of approval alone: the candidate step forgets it.
ClearedForApproval(e) ==
    e.to = "approved_unpublished" =>
        e.readinessOverall # "blocked" /\ e.blockingGates = {}

ClearedFor(e) ==
    e.to \in Approved => e.readinessOverall # "blocked" /\ e.blockingGates = {}

\* A record numbered by the events before it.
NumberedFromZero(e) ==
    [sequence |-> Len(history), from |-> state, to |-> e.to,
     actorType |-> e.actorType, occurredAt |-> e.occurredAt,
     readinessOverall |-> e.readinessOverall,
     blockingGates |-> e.blockingGates]

RecordOf(e) ==
    [sequence |-> Len(history) + 1, from |-> state, to |-> e.to,
     actorType |-> e.actorType, occurredAt |-> e.occurredAt,
     readinessOverall |-> e.readinessOverall,
     blockingGates |-> e.blockingGates]

\* The clock is checked only for the events of operators.
AcceptsLateProviders(e) ==
    /\ e.to \in Graph[state]
    /\ NeedsOperator(state, e.to) => e.actorType = "operator"
    /\ CarriesGate(e)
    /\ ClearedFor(e)
    /\ e.actorType = "operator" => ~Earlier(e.occurredAt, stateSince)

Accepts(e) ==
    /\ e.to \in Graph[state]
    /\ NeedsOperator(state, e.to) => e.actorType = "operator"
    /\ CarriesGate(e)
    /\ ClearedFor(e)
    /\ ~Earlier(e.occurredAt, stateSince)

Apply(e) ==
    /\ Len(history) < MaxEvents
    /\ Accepts(e)
    /\ state' = e.to
    /\ stateSince' = e.occurredAt
    /\ readinessOverall' = e.readinessOverall
    /\ blockingGates' = e.blockingGates
    /\ history' = Append(history, RecordOf(e))

Next == \E e \in Event : Apply(e)

Spec == Init /\ [][Next]_vars

-----------------------------------------------------------------------------
TypeOK ==
    /\ state \in States
    /\ stateSince \in Timestamps
    /\ readinessOverall \in Readiness
    /\ blockingGates \in GateSets
    /\ history \in Seq(Record)

StateAfter(n) == IF n = 0 THEN "draft" ELSE history[n].to

\* The log alone is enough to rebuild the read model: its records are
\* numbered without a gap, each starts where the one before ended and follows
\* an edge, and the last one carries the model's own fields.
HistoryReplays ==
    /\ \A n \in DOMAIN history :
        /\ history[n].sequence = n
        /\ history[n].from = StateAfter(n - 1)
        /\ history[n].to \in Graph[history[n].from]
    /\ state = StateAfter(Len(history))
    /\ history # <<>> =>
        LET last == history[Len(history)] IN
        /\ stateSince = last.occurredAt
        /\ readinessOverall = last.readinessOverall
        /\ blockingGates = last.blockingGates

\* However often a draft was suspended, sent back or reinstated: it is a
\* publication candidate only by three events in a row, the request for
\* approval with its gate open and two decisions of an operator with every
\* gate closed and a readiness that is not blocked.
CandidatesReviewed ==
    \A n \in DOMAIN history : history[n].to = "published_candidate" =>
        /\ n > 2
        /\ history[n - 2].to = "pending_operator_approval"
        /\ "operator_approval" \in history[n - 2].blockingGates
        /\ history[n - 1].to = "approved_unpublished"
        /\ \A k \in {n - 1, n} :
            /\ history[k].actorType = "operator"
            /\ history[k].blockingGates = {}
            /\ history[k].readinessOverall # "blocked"

\* Between two timestamps that are not dates the log is in order.
TimesOrdered ==
    \A i, j \in DOMAIN history :
        /\ i < j
        /\ \A k \in i .. j : history[k].occurredAt # NotADate
        => history[i].occurredAt <= history[j].occurredAt

\* What the refusal promises, "occurredAt must not be earlier than the
\* timestamp of the current state": no date of the log is before an older one.
TimesNeverRegress ==
    \A i, j \in DOMAIN history :
        i < j => ~Earlier(history[j].occurredAt, history[i].occurredAt)
=============================================================================
