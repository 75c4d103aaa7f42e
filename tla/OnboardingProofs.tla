--------------------------- MODULE OnboardingProofs --------------------------
(***************************************************************************)
(* What the log of OnboardingMachine is good for, for every set of actors, *)
(* gates and timestamps and for logs of every length.  The inductive       *)
(* invariant adds to the type and to HistoryReplays what the transition    *)
(* function checked of each record.                                        *)
(***************************************************************************)
EXTENDS OnboardingMachine, TLAPS

\* Each record of the log passed the checks of its target state.
RecordsChecked ==
    \A n \in DOMAIN history :
        /\ history[n].to \in OperatorOnly => history[n].actorType = "operator"
        /\ history[n].to \in DOMAIN RequiredGate =>
            RequiredGate[history[n].to] \in history[n].blockingGates
        /\ history[n].to \in Approved =>
            history[n].readinessOverall # "blocked"
            /\ history[n].blockingGates = {}

LogInv == TypeOK /\ HistoryReplays /\ RecordsChecked

-----------------------------------------------------------------------------
\* The only way into a publication candidate, and into approval.
LEMMA WayIn ==
    ASSUME NEW from \in States
    PROVE  /\ "published_candidate" \in Graph[from] => from = "approved_unpublished"
           /\ "approved_unpublished" \in Graph[from] => from = "pending_operator_approval"
BY DEF States, Graph

\* An accepted event turns into a record of the log's type.
LEMMA RecordOfType ==
    ASSUME TypeOK, NEW e \in Event
    PROVE  RecordOf(e) \in Record
<1>1. Len(history) + 1 \in Nat  BY DEF TypeOK
<1>2. /\ state \in States /\ e.to \in States /\ e.actorType \in Actors
      /\ e.occurredAt \in Timestamps /\ e.readinessOverall \in Readiness
      /\ e.blockingGates \in GateSets
  BY DEF TypeOK, Event
<1> QED  BY <1>1, <1>2 DEF RecordOf, Record

\* What a record of the log holds.
LEMMA LoggedRecord ==
    ASSUME TypeOK, NEW k \in DOMAIN history
    PROVE  history[k].from \in States /\ history[k].occurredAt \in Timestamps
<1>1. history[k] \in Record  BY DEF TypeOK
<1> QED  BY <1>1 DEF Record

\* Appending a record leaves the earlier ones where they were.
LEMMA Appended ==
    ASSUME NEW S, NEW h \in Seq(S), NEW r \in S
    PROVE  /\ Append(h, r) \in Seq(S)
           /\ Len(Append(h, r)) = Len(h) + 1
           /\ DOMAIN Append(h, r) = 1 .. (Len(h) + 1)
           /\ DOMAIN h = 1 .. Len(h)
           /\ \A n \in 1 .. Len(h) : Append(h, r)[n] = h[n]
           /\ Append(h, r)[Len(h) + 1] = r
OBVIOUS

-----------------------------------------------------------------------------
LEMMA LogInit == Init => LogInv
BY DEF Init, LogInv, TypeOK, HistoryReplays, RecordsChecked, StateAfter, States, Graph

LEMMA LogStep == LogInv /\ [Next]_vars => LogInv'
<1> SUFFICES ASSUME LogInv, [Next]_vars PROVE LogInv'
  OBVIOUS
<1>1. ASSUME NEW e \in Event, Apply(e) PROVE LogInv'
  <2> DEFINE r == RecordOf(e)
             L == Len(history)
  <2>1. TypeOK /\ HistoryReplays /\ RecordsChecked /\ history \in Seq(Record) /\ L \in Nat
    BY DEF LogInv, TypeOK
  <2>2. r \in Record  BY <2>1, <1>1, RecordOfType
  <2>3. /\ history' = Append(history, r) /\ state' = e.to /\ stateSince' = e.occurredAt
        /\ readinessOverall' = e.readinessOverall /\ blockingGates' = e.blockingGates
    BY <1>1 DEF Apply
  <2>4. /\ r.sequence = L + 1 /\ r.from = state /\ r.to = e.to
        /\ r.actorType = e.actorType /\ r.occurredAt = e.occurredAt
        /\ r.readinessOverall = e.readinessOverall /\ r.blockingGates = e.blockingGates
    BY DEF RecordOf
  <2>5. /\ e.to \in Graph[state] /\ CarriesGate(e) /\ ClearedFor(e)
        /\ NeedsOperator(state, e.to) => e.actorType = "operator"
    BY <1>1 DEF Apply, Accepts
  <2> HIDE DEF r
  <2>6. /\ history' \in Seq(Record) /\ Len(history') = L + 1
        /\ DOMAIN history' = 1 .. (L + 1) /\ DOMAIN history = 1 .. L
        /\ \A n \in 1 .. L : history'[n] = history[n]
        /\ history'[L + 1] = r
    BY <2>1, <2>2, <2>3, Appended
  <2> HIDE DEF L
  <2>7. TypeOK'
    BY <1>1, <2>3, <2>6 DEF TypeOK, Event
  <2>8. HistoryReplays'
    <3>1. \A n \in 0 .. L : StateAfter(n)' = StateAfter(n)
      BY <2>1, <2>6 DEF StateAfter
    <3>2. Len(history') # 0 /\ history'[Len(history')].to = state'
      BY <2>1, <2>3, <2>4, <2>6
    <3>3. state = StateAfter(L)
      BY <2>1 DEF HistoryReplays, L
    <3>4. ASSUME NEW n \in DOMAIN history'
          PROVE  /\ history'[n].sequence = n
                 /\ history'[n].from = StateAfter(n - 1)'
                 /\ history'[n].to \in Graph[history'[n].from]
      <4>1. CASE n \in 1 .. L
        <5>1. /\ history[n].sequence = n /\ history[n].from = StateAfter(n - 1)
              /\ history[n].to \in Graph[history[n].from]
          BY <4>1, <2>1, <2>6 DEF HistoryReplays
        <5>2. n - 1 \in 0 .. L /\ history'[n] = history[n]
          BY <4>1, <2>1, <2>6
        <5> QED  BY <5>1, <5>2, <3>1
      <4>2. CASE n = L + 1
        <5>1. n - 1 = L /\ L \in 0 .. L /\ history'[n] = r
          BY <4>2, <2>1, <2>6
        <5> QED  BY <4>2, <5>1, <3>1, <3>3, <2>4, <2>5
      <4>3. n \in 1 .. L \/ n = L + 1
        BY <3>4, <2>1, <2>6
      <4> QED  BY <4>1, <4>2, <4>3
    <3>5. state' = StateAfter(Len(history))'
      BY <3>2 DEF StateAfter
    <3>6. history'[Len(history')] = r  BY <2>6
    <3> QED  BY <3>4, <3>5, <3>6, <2>3, <2>4 DEF HistoryReplays
  <2>9. RecordsChecked'
    <3> SUFFICES ASSUME NEW n \in DOMAIN history'
        PROVE  /\ history'[n].to \in OperatorOnly => history'[n].actorType = "operator"
               /\ history'[n].to \in DOMAIN RequiredGate =>
                   RequiredGate[history'[n].to] \in history'[n].blockingGates
               /\ history'[n].to \in Approved =>
                   history'[n].readinessOverall # "blocked"
                   /\ history'[n].blockingGates = {}
      BY DEF RecordsChecked
    <3>1. CASE n \in 1 .. L
      BY <3>1, <2>1, <2>6 DEF RecordsChecked
    <3>2. CASE n = L + 1
      BY <3>2, <2>4, <2>5, <2>6 DEF NeedsOperator, CarriesGate, ClearedFor
    <3>3. n \in 1 .. L \/ n = L + 1
      BY <2>1, <2>6
    <3> QED  BY <3>1, <3>2, <3>3
  <2> QED  BY <2>7, <2>8, <2>9 DEF LogInv
<1>2. CASE UNCHANGED vars
  BY <1>2 DEF LogInv, TypeOK, HistoryReplays, RecordsChecked, StateAfter, vars
<1> QED  BY <1>1, <1>2 DEF Next

\* The read model has its type in every behaviour (onboarding-state-machine.ts).
THEOREM OnboardingTypeOK == Spec => []TypeOK
<1>1. LogInv => TypeOK  BY DEF LogInv
<1> QED  BY <1>1, LogInit, LogStep, PTL DEF Spec

\* The append-only log alone rebuilds the read model, whatever was accepted.
THEOREM OnboardingHistoryReplays == Spec => []HistoryReplays
<1>1. LogInv => HistoryReplays  BY DEF LogInv
<1> QED  BY <1>1, LogInit, LogStep, PTL DEF Spec

\* A draft becomes a publication candidate only by the request for approval
\* and two operator decisions in a row, with every gate closed.
THEOREM OnboardingCandidatesReviewed == Spec => []CandidatesReviewed
<1>1. LogInv => CandidatesReviewed
  <2> SUFFICES ASSUME LogInv, NEW n \in DOMAIN history,
                      history[n].to = "published_candidate"
      PROVE  /\ n > 2
             /\ history[n - 2].to = "pending_operator_approval"
             /\ "operator_approval" \in history[n - 2].blockingGates
             /\ history[n - 1].to = "approved_unpublished"
             /\ \A k \in {n - 1, n} :
                 /\ history[k].actorType = "operator"
                 /\ history[k].blockingGates = {}
                 /\ history[k].readinessOverall # "blocked"
    BY DEF CandidatesReviewed
  <2>1. /\ history \in Seq(Record) /\ DOMAIN history = 1 .. Len(history)
        /\ Len(history) \in Nat /\ HistoryReplays /\ RecordsChecked
    BY DEF LogInv, TypeOK
  <2>2. n \in 1 .. Len(history) /\ n \in Nat /\ n > 0
    BY <2>1
  <2>3. \A k \in DOMAIN history : history[k].from \in States
    BY LoggedRecord DEF LogInv
  <2>4. /\ history[n].from = StateAfter(n - 1)
        /\ "published_candidate" \in Graph[history[n].from]
    BY <2>1 DEF HistoryReplays
  <2>5. StateAfter(n - 1) = "approved_unpublished"
    BY <2>3, <2>4, WayIn
  <2>6. n - 1 # 0 /\ history[n - 1].to = "approved_unpublished"
    BY <2>5 DEF StateAfter
  <2>7. n - 1 \in DOMAIN history
    BY <2>1, <2>2, <2>6
  <2>8. /\ history[n - 1].from = StateAfter((n - 1) - 1)
        /\ "approved_unpublished" \in Graph[history[n - 1].from]
    BY <2>1, <2>6, <2>7 DEF HistoryReplays
  <2>9. StateAfter(n - 2) = "pending_operator_approval"
    <3>1. (n - 1) - 1 = n - 2  BY <2>2
    <3> QED  BY <3>1, <2>3, <2>7, <2>8, WayIn
  <2>10. n - 2 # 0 /\ history[n - 2].to = "pending_operator_approval"
    BY <2>9 DEF StateAfter
  <2>11. n > 2 /\ n - 2 \in DOMAIN history
    BY <2>1, <2>2, <2>6, <2>10
  <2>12. "operator_approval" \in history[n - 2].blockingGates
    BY <2>1, <2>10, <2>11 DEF RecordsChecked, RequiredGate
  <2>13. ASSUME NEW k \in {n - 1, n}
         PROVE  /\ history[k].actorType = "operator"
                /\ history[k].blockingGates = {}
                /\ history[k].readinessOverall # "blocked"
    <3>1. k \in DOMAIN history
      BY <2>7, <2>13
    <3>2. history[k].to \in OperatorOnly /\ history[k].to \in Approved
      BY <2>6, <2>13 DEF OperatorOnly, Approved
    <3> QED  BY <2>1, <3>1, <3>2 DEF RecordsChecked
  <2> QED  BY <2>6, <2>10, <2>11, <2>12, <2>13
<1> QED  BY <1>1, LogInit, LogStep, PTL DEF Spec

-----------------------------------------------------------------------------
LEMMA TimesStep == LogInv /\ TimesOrdered /\ [Next]_vars => TimesOrdered'
<1> SUFFICES ASSUME LogInv, TimesOrdered, [Next]_vars PROVE TimesOrdered'
  OBVIOUS
<1>1. ASSUME NEW e \in Event, Apply(e) PROVE TimesOrdered'
  <2> DEFINE r == RecordOf(e)
             L == Len(history)
  <2>1. history \in Seq(Record) /\ L \in Nat /\ HistoryReplays /\ TypeOK
    BY DEF LogInv, TypeOK
  <2>2. r \in Record  BY <2>1, <1>1, RecordOfType
  <2>3. r.occurredAt = e.occurredAt /\ ~Earlier(e.occurredAt, stateSince)
    BY <1>1 DEF Apply, Accepts, RecordOf
  <2>4. history' = Append(history, r)  BY <1>1 DEF Apply
  <2>5. L # 0 => stateSince = history[L].occurredAt
    BY <2>1 DEF HistoryReplays
  <2> HIDE DEF r
  <2>6. /\ history' \in Seq(Record) /\ Len(history') = L + 1
        /\ DOMAIN history' = 1 .. (L + 1) /\ DOMAIN history = 1 .. L
        /\ \A n \in 1 .. L : history'[n] = history[n]
        /\ history'[L + 1] = r
    BY <2>1, <2>2, <2>4, Appended
  <2> HIDE DEF L
  <2> SUFFICES ASSUME NEW i \in DOMAIN history', NEW j \in DOMAIN history', i < j,
                      \A k \in i .. j : history'[k].occurredAt # NotADate
      PROVE  history'[i].occurredAt <= history'[j].occurredAt
    BY DEF TimesOrdered
  <2>7. i \in 1 .. L /\ i \in Nat /\ j \in Nat /\ history'[i] = history[i]
    BY <2>1, <2>6
  <2>8. CASE j \in 1 .. L
    <3>1. \A k \in i .. j : history[k].occurredAt # NotADate
      BY <2>1, <2>6, <2>7, <2>8
    <3>2. history'[j] = history[j] /\ i \in DOMAIN history /\ j \in DOMAIN history
      BY <2>6, <2>7, <2>8
    <3> QED  BY <2>7, <3>1, <3>2 DEF TimesOrdered
  <2>9. CASE j = L + 1
    <3>1. /\ L \in 1 .. L /\ L # 0 /\ history'[L] = history[L]
          /\ \A k \in i .. L : history[k].occurredAt # NotADate
      BY <2>1, <2>6, <2>7, <2>9
    <3>2. i \in i .. j /\ j \in i .. j /\ L \in i .. L
      BY <2>1, <2>7, <2>9
    <3>3. history[L].occurredAt # NotADate /\ e.occurredAt # NotADate
      BY <3>1, <3>2, <2>3, <2>6, <2>9
    <3>4. ~(e.occurredAt < history[L].occurredAt)
      BY <3>1, <3>3, <2>3, <2>5 DEF Earlier
    <3>5. \A t \in Timestamps : t # NotADate => t \in Nat
      BY TimeAssumption DEF Timestamps
    <3>6. history[L].occurredAt \in Nat /\ e.occurredAt \in Nat /\ history[i].occurredAt \in Nat
      <4>1. \A k \in 1 .. L : history[k].occurredAt \in Timestamps
        BY <2>1, <2>6, LoggedRecord
      <4>2. e.occurredAt \in Timestamps  BY <1>1 DEF Event
      <4>3. history[i].occurredAt # NotADate  BY <2>7, <3>2
      <4> QED  BY <4>1, <4>2, <4>3, <3>1, <3>3, <3>5, <2>7
    <3>7. history[i].occurredAt <= history[L].occurredAt
      <4>1. CASE i = L  BY <4>1, <3>6
      <4>2. CASE i < L  BY <4>2, <2>6, <2>7, <3>1 DEF TimesOrdered
      <4> QED  BY <4>1, <4>2, <2>1, <2>7
    <3> QED  BY <3>4, <3>6, <3>7, <2>3, <2>6, <2>7, <2>9
  <2> QED  BY <2>1, <2>6, <2>8, <2>9
<1>2. CASE UNCHANGED vars
  BY <1>2 DEF TimesOrdered, vars
<1> QED  BY <1>1, <1>2 DEF Next

\* Between two timestamps that are no dates, the log is in order of time.
THEOREM OnboardingTimesOrdered == Spec => []TimesOrdered
<1>1. Init => TimesOrdered  BY DEF Init, TimesOrdered
<1> QED  BY <1>1, LogInit, LogStep, TimesStep, PTL DEF Spec
=============================================================================
