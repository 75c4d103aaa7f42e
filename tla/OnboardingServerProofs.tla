----------------------- MODULE OnboardingServerProofs -----------------------
(***************************************************************************)
(* The safety properties of the server process, for any number of          *)
(* requests, runs, retries and crashes.  The three parts of the server     *)
(* touch each other's state only in the guard of Signal, so each has an    *)
(* inductive invariant of its own.                                         *)
(***************************************************************************)
EXTENDS OnboardingServer, FiniteSetTheorems, TLAPS

-----------------------------------------------------------------------------
(* The planner's runs. *)

RunRecord == {Unrouted, Unpaid, PaidInVain, Completed}
Stage == {"absent", "new", "first", "settle", "execute", "second", "retry", "spend",
          "refused", "ended", "lost"}
Invoke == [at : Stage, tries : 0 .. RetryBudget + 1, retries : 0 .. RetryBudget]
Numbers == 1 .. RetryBudget + 1

PlannerTypeOK ==
    /\ runs \in [Runs -> RunRecord \cup {NoRun}]
    /\ spend \in Nat /\ overlaps \in Nat
    /\ invoke \in [Invokes -> Invoke]
    /\ sent \subseteq Attempts /\ swaps \subseteq Attempts

\* An invoke's attempts are numbered: those behind it have their records, the
\* one under way has none before its last answer, no receipt before it is made
\* and no swap before its order, the later ones have nothing; only the last can
\* be satisfied, and it is while its spend is to be written.
InvokeInv(i) ==
    /\ invoke[i].tries <= invoke[i].retries + 1
    /\ invoke[i].tries = 0 <=> invoke[i].at \in {"absent", "new", "refused"}
    /\ At(i, "retry") => invoke[i].tries <= invoke[i].retries
    /\ \A n \in Numbers :
          /\ n < invoke[i].tries => runs[<<i, n>>] # NoRun
          /\ n > invoke[i].tries =>
                runs[<<i, n>>] = NoRun /\ <<i, n>> \notin sent /\ <<i, n>> \notin swaps
          /\ n = invoke[i].tries =>
                /\ Awaits(i) => runs[<<i, n>>] = NoRun
                /\ invoke[i].at \in {"first", "settle", "execute"} => <<i, n>> \notin sent
                /\ invoke[i].at \in {"first", "settle"} => <<i, n>> \notin swaps
                /\ At(i, "second") => <<i, n>> \in sent
                /\ invoke[i].at \in {"retry", "spend", "ended"} => runs[<<i, n>>] # NoRun
                /\ At(i, "spend") => Satisfied(<<i, n>>)
          /\ Satisfied(<<i, n>>) =>
                n = invoke[i].tries /\ invoke[i].at \in {"spend", "ended", "lost"}

RecordsTrue ==
    \A r \in Attempts : runs[r] # NoRun =>
        /\ runs[r].attempted => r \in sent
        /\ r \in sent \cup swaps => runs[r].attempted \/ r \in unsure

Booked == {r \in Attempts : Satisfied(r) /\ invoke[r[1]].at \notin {"spend", "lost"}}
SpendTrue == spend = Cardinality(Booked)

PlannerInv ==
    /\ PlannerTypeOK
    /\ \A i \in Invokes : InvokeInv(i)
    /\ RecordsTrue
    /\ SpendTrue
    /\ BudgetOvershoot

LEMMA Records ==
    /\ NoRun \notin RunRecord
    /\ \A run \in RunRecord : /\ run.attempted \in BOOLEAN /\ run.satisfied \in BOOLEAN
                              /\ run.satisfied <=> run = Completed
                              /\ run \in {PaidInVain, Completed} <=> run.attempted
<1> DEFINE R == [routed : BOOLEAN, attempted : BOOLEAN, satisfied : BOOLEAN]
<1>1. /\ Unrouted \in R /\ ~Unrouted.satisfied /\ ~Unrouted.attempted
      /\ Unpaid \in R /\ ~Unpaid.satisfied /\ ~Unpaid.attempted
      /\ PaidInVain \in R /\ ~PaidInVain.satisfied /\ PaidInVain.attempted
      /\ Completed \in R /\ Completed.satisfied /\ Completed.attempted
  BY DEF Unrouted, Unpaid, PaidInVain, Completed
<1>2. NoRun \notin R
  BY InvokeAssumption
<1>3. \A run \in RunRecord : run \in R
  BY <1>1 DEF RunRecord
<1>4. \A run \in R : run.attempted \in BOOLEAN /\ run.satisfied \in BOOLEAN
  OBVIOUS
<1> HIDE DEF R
<1> QED  BY <1>1, <1>2, <1>3, <1>4 DEF RunRecord

LEMMA NumberedRuns ==
    /\ \A i \in Invokes, n \in Numbers : <<i, n>> \in Attempts /\ <<i, n>> \in Runs
    /\ \A r \in Attempts : \E i \in Invokes, n \in Numbers : r = <<i, n>>
BY DEF Numbers, Attempts, Runs

LEMMA PlannerInitInv ==
    ASSUME NEW come, PlannerInit(come)
    PROVE  PlannerInv
<1> USE InvokeAssumption DEF PlannerInit
<1>1. PlannerTypeOK
  BY DEF PlannerTypeOK, Invoke, Stage, RunRecord
<1>2. ASSUME NEW i \in Invokes PROVE InvokeInv(i)
  <2>1. \A n \in Numbers : runs[<<i, n>>] = NoRun /\ ~Satisfied(<<i, n>>)
    BY NumberedRuns DEF Satisfied
  <2> QED  BY <2>1 DEF InvokeInv, At, Awaits, Numbers
<1>3. RecordsTrue /\ SpendTrue
  <2>1. \A r \in Attempts : r \in Runs /\ runs[r] = NoRun
    BY DEF Runs
  <2>2. Booked = {}
    BY <2>1 DEF Booked, Satisfied
  <2> QED  BY <2>1, <2>2, FS_EmptySet DEF RecordsTrue, SpendTrue
<1>4. BudgetOvershoot
  <2>1. {i \in Invokes : UnderWay(i)} = {}
    BY DEF UnderWay, Awaits
  <2> QED  BY <2>1, FS_EmptySet DEF BudgetOvershoot
<1> QED  BY <1>1, <1>2, <1>3, <1>4 DEF PlannerInv

\* What a step of one attempt leaves of the others.
Same(r) ==
    /\ runs'[r] = runs[r]
    /\ r \in sent' <=> r \in sent
    /\ r \in swaps' <=> r \in swaps

\* A step of one invoke, with a record and a receipt for one of its attempts at
\* most, is nothing to the others.
LEMMA OneInvoke ==
    ASSUME PlannerInv, NEW i \in Invokes, NEW k \in Numbers, NEW new \in Invoke,
           invoke' = [invoke EXCEPT ![i] = new],
           runs' = runs \/ \E run \in RunRecord : runs' = [runs EXCEPT ![<<i, k>>] = run],
           sent' \in {sent, sent \cup {<<i, k>>}}, swaps' \in {swaps, swaps \cup {<<i, k>>}},
           spend' \in Nat, overlaps' \in Nat
    PROVE  /\ PlannerTypeOK'
           /\ invoke'[i] = new
           /\ \A j \in Invokes \ {i} : invoke'[j] = invoke[j] /\ InvokeInv(j)'
           /\ \A r \in Runs : r # <<i, k>> => Same(r)
<1>1. runs \in [Runs -> RunRecord \cup {NoRun}] /\ invoke \in [Invokes -> Invoke]
  BY DEF PlannerInv, PlannerTypeOK
<1>2. PlannerTypeOK' /\ invoke'[i] = new
  BY <1>1, NumberedRuns DEF PlannerInv, PlannerTypeOK
<1>3. \A r \in Runs : r # <<i, k>> => Same(r)
  BY <1>1, NumberedRuns DEF Same
<1>4. ASSUME NEW j \in Invokes \ {i} PROVE invoke'[j] = invoke[j] /\ InvokeInv(j)'
  <2>1. invoke'[j] = invoke[j]
    BY <1>1
  <2>2. \A n \in Numbers : Same(<<j, n>>) /\ (Satisfied(<<j, n>>)' <=> Satisfied(<<j, n>>))
    BY <1>3, NumberedRuns DEF Satisfied, Same
  <2> QED  BY <2>1, <2>2 DEF PlannerInv, InvokeInv, At, Awaits, Same
<1> QED  BY <1>2, <1>3, <1>4

\* The invokes under way, counted.
Busy == {i \in Invokes : UnderWay(i)}
BusyAt == {"first", "settle", "execute", "second", "retry", "spend"}

LEMMA BusyCount ==
    ASSUME NEW i \in Invokes, NEW new \in Invoke, invoke \in [Invokes -> Invoke],
           invoke' = [invoke EXCEPT ![i] = new]
    PROVE  /\ Cardinality(Busy) \in Nat /\ Cardinality(Busy') \in Nat
           /\ new.at \in BusyAt => Cardinality(Busy') = Cardinality(Busy) + (IF UnderWay(i) THEN 0 ELSE 1)
           /\ new.at \notin BusyAt => Cardinality(Busy') = Cardinality(Busy) - (IF UnderWay(i) THEN 1 ELSE 0)
<1>1. IsFiniteSet(Busy)
  BY InvokeAssumption, FS_Subset DEF Busy
<1>2. \A j \in Invokes : UnderWay(j)' <=> IF j = i THEN new.at \in BusyAt ELSE UnderWay(j)
  BY DEF UnderWay, Awaits, BusyAt
<1>0. i \in Busy <=> UnderWay(i)
  BY DEF Busy
<1>3. CASE new.at \in BusyAt
  <2>1. Busy' = Busy \cup {i}
    BY <1>2, <1>3 DEF Busy
  <2> QED  BY <1>0, <1>1, <1>3, <2>1, FS_AddElement, FS_CardinalityType
<1>4. CASE new.at \notin BusyAt
  <2>1. Busy' = Busy \ {i}
    BY <1>2, <1>4 DEF Busy
  <2> QED  BY <1>0, <1>1, <1>4, <2>1, FS_RemoveElement, FS_CardinalityType
<1> QED  BY <1>3, <1>4

\* BudgetOvershoot over a step that records no spend and admits nobody.
LEMMA BudgetKept ==
    ASSUME PlannerInv, NEW i \in Invokes, NEW new \in Invoke,
           invoke' = [invoke EXCEPT ![i] = new],
           UNCHANGED <<spend, overlaps>>,
           UnderWay(i) \/ new.at \notin BusyAt
    PROVE  BudgetOvershoot'
<1>0. invoke \in [Invokes -> Invoke]
  BY DEF PlannerInv, PlannerTypeOK
<1>1. Cardinality(Busy) \in Nat /\ Cardinality(Busy') \in Nat /\ Cardinality(Busy') <= Cardinality(Busy)
  <2>1. /\ Cardinality(Busy) \in Nat /\ Cardinality(Busy') \in Nat
        /\ new.at \in BusyAt => Cardinality(Busy') = Cardinality(Busy) + (IF UnderWay(i) THEN 0 ELSE 1)
        /\ new.at \notin BusyAt => Cardinality(Busy') = Cardinality(Busy) - (IF UnderWay(i) THEN 1 ELSE 0)
    BY <1>0, BusyCount
  <2> QED  BY <2>1
<1>2. DailyBudget > 0 => spend + Cardinality(Busy) <= DailyBudget + overlaps
  BY DEF PlannerInv, BudgetOvershoot, Busy
<1>3. DailyBudget > 0 => spend + Cardinality(Busy') <= DailyBudget + overlaps
  BY <1>1, <1>2, InvokeAssumption DEF PlannerInv, PlannerTypeOK
<1> QED  BY <1>3 DEF BudgetOvershoot, Busy

\* A step of an invoke that has no satisfied run to be booked, before or after.
LEMMA BookedKept ==
    ASSUME NEW i \in Invokes, NEW k \in Numbers,
           \A j \in Invokes \ {i} : invoke'[j] = invoke[j],
           \A r \in Runs : r # <<i, k>> => Same(r),
           \A n \in Numbers : Satisfied(<<i, n>>) => invoke[i].at \in {"spend", "lost"},
           \A n \in Numbers : Satisfied(<<i, n>>)' => invoke'[i].at \in {"spend", "lost"}
    PROVE  Booked' = Booked
<1>1. ASSUME NEW r \in Attempts PROVE r \in Booked' <=> r \in Booked
  <2>1. PICK j \in Invokes, n \in Numbers : r = <<j, n>>
    BY NumberedRuns
  <2>2. CASE j = i
    BY <2>1, <2>2 DEF Booked
  <2>3. CASE j # i
    <3>1. Same(r) /\ invoke'[j] = invoke[j] /\ r[1] = j
      BY <2>1, <2>3, NumberedRuns
    <3> QED  BY <3>1 DEF Booked, Satisfied, Same
  <2> QED  BY <2>2, <2>3
<1> QED  BY <1>1 DEF Booked

\* What the steps of an invoke are shown to keep, but for the spend and the
\* budget.
PlannerCore == PlannerTypeOK /\ (\A i \in Invokes : InvokeInv(i)) /\ RecordsTrue

\* An attempt, the one under way or the next, that ends without a call.
LEMMA FailStep ==
    ASSUME PlannerInv, NEW i \in Invokes, NEW k \in Numbers, NEW m \in 0 .. RetryBudget,
           NEW run \in {Unrouted, Unpaid, PaidInVain}, Fail(i, k, m, run),
           \/ Awaits(i) /\ k = invoke[i].tries /\ m = invoke[i].retries
           \/ At(i, "retry") /\ k = invoke[i].tries + 1 /\ m = invoke[i].retries
           \/ At(i, "new") /\ k = 1,
           run.attempted => At(i, "second"),
           At(i, "execute") \/ At(i, "second") => run.attempted \/ <<i, k>> \in unsure',
           unsure \subseteq unsure', sent' = sent, swaps' = swaps, spend' \in Nat, overlaps' \in Nat
    PROVE  PlannerCore' /\ Booked' = Booked
<1> DEFINE new == [at |-> IF RetriesLeft(k, m) THEN "retry" ELSE "ended",
                   tries |-> k, retries |-> m]
<1>1. /\ new \in Invoke /\ new.tries = k /\ new.retries = m
      /\ new.at \in {"retry", "ended"} /\ (new.at = "retry" => k <= m)
      /\ run \in RunRecord /\ ~run.satisfied
  BY InvokeAssumption, Records
     DEF Invoke, Stage, RetriesLeft, Numbers, RunRecord, Unrouted, Unpaid, PaidInVain
<1>2. invoke' = [invoke EXCEPT ![i] = new] /\ runs' = [runs EXCEPT ![<<i, k>>] = run]
  BY DEF Fail
<1> HIDE DEF new
<1>3. /\ PlannerTypeOK' /\ invoke'[i] = new
      /\ \A j \in Invokes \ {i} : invoke'[j] = invoke[j] /\ InvokeInv(j)'
      /\ \A r \in Runs : r # <<i, k>> => Same(r)
  BY <1>1, <1>2, OneInvoke
<1>4. /\ runs'[<<i, k>>] = run /\ run # NoRun
      /\ invoke[i].tries \in Nat /\ invoke[i].retries \in Nat /\ k \in Nat /\ m \in Nat
  BY <1>1, <1>2, NumberedRuns, Records, InvokeAssumption
     DEF PlannerInv, PlannerTypeOK, Invoke, Numbers
<1>5. /\ k <= m + 1 /\ k >= 1
      /\ \A n \in Numbers : /\ n < k => runs[<<i, n>>] # NoRun
                            /\ n > k => /\ runs[<<i, n>>] = NoRun
                                        /\ <<i, n>> \notin sent /\ <<i, n>> \notin swaps
                            /\ ~Satisfied(<<i, n>>)
      /\ <<i, k>> \in sent \cup swaps => At(i, "execute") \/ At(i, "second")
      /\ At(i, "second") => <<i, k>> \in sent
  BY <1>4 DEF PlannerInv, InvokeInv, At, Awaits, Numbers
<1>6. \A n \in Numbers : ~Satisfied(<<i, n>>)'
  <2> SUFFICES ASSUME NEW n \in Numbers PROVE ~Satisfied(<<i, n>>)'
    OBVIOUS
  <2>1. CASE n = k
    BY <1>1, <1>4, <2>1 DEF Satisfied
  <2>2. CASE n # k
    <3>1. <<i, n>> # <<i, k>> /\ <<i, n>> \in Runs
      BY <2>2, NumberedRuns
    <3> QED  BY <1>3, <1>5, <3>1 DEF Satisfied, Same
  <2> QED  BY <2>1, <2>2
<1>7. InvokeInv(i)'
  <2>1. \A n \in Numbers : n # k => runs'[<<i, n>>] = runs[<<i, n>>]
    BY <1>3, NumberedRuns DEF Same
  <2> QED  BY <1>1, <1>3, <1>4, <1>5, <1>6, <2>1 DEF InvokeInv, At, Awaits, Numbers
<1>8. RecordsTrue'
  <2> SUFFICES ASSUME NEW r \in Attempts, runs'[r] # NoRun
               PROVE  /\ runs'[r].attempted => r \in sent
                      /\ r \in sent \cup swaps => runs'[r].attempted \/ r \in unsure'
    BY DEF RecordsTrue
  <2>1. CASE r = <<i, k>>
    BY <1>4, <1>5, <2>1
  <2>2. CASE r # <<i, k>>
    BY <1>3, <2>2 DEF PlannerInv, RecordsTrue, Same, Runs
  <2> QED  BY <2>1, <2>2
<1>9. Booked' = Booked
  BY <1>3, <1>5, <1>6, BookedKept
<1> QED  BY <1>3, <1>7, <1>8, <1>9 DEF PlannerCore

\* An attempt starts.
LEMMA FirstRequestStep ==
    ASSUME PlannerInv, NEW i \in Invokes, NEW k \in Numbers, NEW m \in 0 .. RetryBudget,
           invoke' = [invoke EXCEPT ![i] = [at |-> "first", tries |-> k, retries |-> m]],
           \/ At(i, "retry") /\ k = invoke[i].tries + 1 /\ m = invoke[i].retries
           \/ At(i, "new") /\ k = 1,
           UNCHANGED <<runs, sent, swaps, unsure>>, spend' \in Nat, overlaps' \in Nat
    PROVE  PlannerCore' /\ Booked' = Booked
<1> DEFINE new == [at |-> "first", tries |-> k, retries |-> m]
<1>1. /\ new \in Invoke /\ new.at = "first" /\ new.tries = k /\ new.retries = m
  BY InvokeAssumption DEF Invoke, Stage, Numbers
<1> HIDE DEF new
<1>2. invoke' = [invoke EXCEPT ![i] = new]
  BY DEF new
<1>3. /\ PlannerTypeOK' /\ invoke'[i] = new
      /\ \A j \in Invokes \ {i} : invoke'[j] = invoke[j] /\ InvokeInv(j)'
      /\ \A r \in Runs : r # <<i, k>> => Same(r)
  BY <1>1, <1>2, OneInvoke
<1>4. /\ invoke[i].tries \in Nat /\ invoke[i].retries \in Nat /\ k \in Nat /\ m \in Nat
  BY InvokeAssumption DEF PlannerInv, PlannerTypeOK, Invoke, Numbers
<1>5. /\ k <= m + 1 /\ k >= 1
      /\ \A n \in Numbers : /\ n < k => runs[<<i, n>>] # NoRun
                            /\ n >= k => /\ runs[<<i, n>>] = NoRun
                                         /\ <<i, n>> \notin sent /\ <<i, n>> \notin swaps
                            /\ ~Satisfied(<<i, n>>)
  BY <1>4 DEF PlannerInv, InvokeInv, At, Numbers
<1>6. \A n \in Numbers : ~Satisfied(<<i, n>>)'
  BY <1>5 DEF Satisfied
<1>7. InvokeInv(i)'
  BY <1>1, <1>3, <1>4, <1>5, <1>6 DEF InvokeInv, At, Awaits, Numbers
<1>8. RecordsTrue'
  BY DEF PlannerInv, RecordsTrue
<1>9. Booked' = Booked
  BY <1>3, <1>5, <1>6, BookedKept
<1> QED  BY <1>3, <1>7, <1>8, <1>9 DEF PlannerCore

\* An invoke moves on within its attempt.
LEMMA MoveStep ==
    ASSUME PlannerInv, NEW i \in Invokes, NEW to \in Stage, Move(i, to),
           \/ At(i, "new") /\ to = "refused" /\ UNCHANGED <<runs, sent, swaps>>
           \/ At(i, "first") /\ to = "settle" /\ UNCHANGED <<runs, sent, swaps>>
           \/ /\ At(i, "settle") /\ to = "execute"
              /\ swaps' = swaps \cup {RunOf(i)} /\ UNCHANGED <<runs, sent>>
           \/ /\ invoke[i].at \in {"first", "settle", "execute"} /\ to = "second"
              /\ sent' = sent \cup {RunOf(i)} /\ UNCHANGED <<runs, swaps>>
           \/ /\ At(i, "second") /\ to = "spend"
              /\ runs' = [runs EXCEPT ![RunOf(i)] = Completed] /\ UNCHANGED <<sent, swaps>>
           \/ At(i, "spend") /\ to = "ended" /\ UNCHANGED <<runs, sent, swaps>>,
           unsure' = unsure, spend' \in Nat, overlaps' \in Nat
    PROVE  PlannerCore' /\ (~At(i, "spend") => Booked' = Booked)
<1> DEFINE new == [invoke[i] EXCEPT !.at = to]
           k == invoke[i].tries
<1>1. /\ new \in Invoke /\ new.at = to
      /\ new.tries = k /\ new.retries = invoke[i].retries
      /\ invoke' = [invoke EXCEPT ![i] = new]
      /\ k \in 0 .. RetryBudget + 1 /\ invoke[i].retries \in 0 .. RetryBudget
  BY DEF Move, PlannerInv, PlannerTypeOK, Invoke
<1>2. InvokeInv(i) /\ RecordsTrue
  BY DEF PlannerInv
<1>3. Completed \in RunRecord /\ Completed # NoRun /\ Completed.attempted /\ Completed.satisfied
  BY Records DEF RunRecord
<1> HIDE DEF new
<1>4. CASE At(i, "new")
  <2>1. 1 \in Numbers /\ UNCHANGED <<runs, sent, swaps>> /\ to = "refused" /\ k = 0
    BY <1>2, <1>4, InvokeAssumption DEF Numbers, At, InvokeInv
  <2>2. /\ PlannerTypeOK' /\ invoke'[i] = new
        /\ \A j \in Invokes \ {i} : invoke'[j] = invoke[j] /\ InvokeInv(j)'
        /\ \A r \in Runs : r # <<i, 1>> => Same(r)
    BY <1>1, <2>1, OneInvoke
  <2>3. InvokeInv(i)'
    BY <1>1, <1>2, <1>4, <2>1, <2>2 DEF InvokeInv, At, Awaits, Satisfied
  <2>4. \A n \in Numbers : ~Satisfied(<<i, n>>) /\ ~Satisfied(<<i, n>>)'
    BY <1>2, <1>4, <2>1 DEF InvokeInv, At, Satisfied
  <2>5. Booked' = Booked
    BY <2>1, <2>2, <2>4, BookedKept
  <2> QED  BY <1>2, <2>1, <2>2, <2>3, <2>5 DEF RecordsTrue, PlannerCore
<1>5. CASE ~At(i, "new")
  <2>1. k \in Numbers /\ RunOf(i) = <<i, k>>
    BY <1>1, <1>2, <1>5, InvokeAssumption DEF Numbers, At, InvokeInv, RunOf
  <2>2. /\ runs' = runs \/ \E run \in RunRecord : runs' = [runs EXCEPT ![<<i, k>>] = run]
        /\ sent' \in {sent, sent \cup {<<i, k>>}}
        /\ swaps' \in {swaps, swaps \cup {<<i, k>>}}
    BY <1>3, <1>5, <2>1
  <2>3. /\ PlannerTypeOK' /\ invoke'[i] = new
        /\ \A j \in Invokes \ {i} : invoke'[j] = invoke[j] /\ InvokeInv(j)'
        /\ \A r \in Runs : r # <<i, k>> => Same(r)
    BY <1>1, <2>1, <2>2, OneInvoke
  <2>4. /\ At(i, "second") => runs'[<<i, k>>] = Completed
        /\ ~At(i, "second") => runs'[<<i, k>>] = runs[<<i, k>>]
        /\ <<i, k>> \in Runs
    BY <1>5, <2>1, NumberedRuns DEF At, PlannerInv, PlannerTypeOK
  <2>5. \A n \in Numbers : n # k => /\ Same(<<i, n>>)
                                    /\ Satisfied(<<i, n>>)' <=> Satisfied(<<i, n>>)
    BY <2>1, <2>3, NumberedRuns DEF Satisfied, Same
  <2>6. /\ invoke'[i].tries = k /\ invoke'[i].retries = invoke[i].retries /\ invoke'[i].at = to
    BY <1>1, <2>3
  <2>7. \A n \in Numbers : Satisfied(<<i, n>>)' => n = k /\ to \in {"spend", "ended"}
    BY <1>2, <1>5, <2>4, <2>5 DEF InvokeInv, At, Awaits, Satisfied
  <2>8. InvokeInv(i)'
    <3>1. /\ to \in {"settle", "execute", "second"} => runs'[<<i, k>>] = NoRun
          /\ to \in {"settle", "execute"} => <<i, k>> \notin sent'
          /\ to = "settle" => <<i, k>> \notin swaps'
          /\ to = "second" => <<i, k>> \in sent'
          /\ to \in {"spend", "ended"} => runs'[<<i, k>>] # NoRun
      BY <1>2, <1>3, <1>5, <2>1, <2>4 DEF InvokeInv, At, Awaits
    <3>2. to = "spend" => Satisfied(<<i, k>>)'
      BY <1>3, <1>5, <2>4, <2>6 DEF At, Satisfied
    <3> QED  BY <1>2, <1>5, <2>1, <2>5, <2>6, <2>7, <3>1, <3>2
             DEF InvokeInv, At, Awaits, Numbers, Same
  <2>9. RecordsTrue'
    <3> SUFFICES ASSUME NEW r \in Attempts, runs'[r] # NoRun
                 PROVE  /\ runs'[r].attempted => r \in sent'
                        /\ r \in sent' \cup swaps' => runs'[r].attempted \/ r \in unsure
      BY DEF RecordsTrue
    <3>1. CASE r # <<i, k>>
      BY <1>2, <2>3, <3>1 DEF RecordsTrue, Same, Runs
    <3>2. CASE r = <<i, k>> /\ At(i, "second")
      BY <1>2, <1>3, <2>1, <2>4, <3>2 DEF At, InvokeInv
    <3>3. CASE r = <<i, k>> /\ ~At(i, "second")
      <4>1. At(i, "spend") /\ UNCHANGED <<runs, sent, swaps>>
        BY <1>2, <1>5, <2>1, <2>4, <3>3 DEF At, Awaits, InvokeInv
      <4> QED  BY <1>2, <4>1 DEF RecordsTrue
    <3> QED  BY <3>1, <3>2, <3>3
  <2>10. ASSUME ~At(i, "spend") PROVE Booked' = Booked
    <3>1. \A n \in Numbers : ~Satisfied(<<i, n>>)
      BY <1>2, <1>5, <2>10 DEF InvokeInv, At
    <3>2. to # "ended"
      BY <1>5, <2>10 DEF At
    <3>3. \A n \in Numbers : Satisfied(<<i, n>>)' => invoke'[i].at \in {"spend", "lost"}
      BY <2>6, <2>7, <3>2
    <3> QED  BY <2>1, <2>3, <3>1, <3>3, BookedKept
  <2> QED  BY <2>3, <2>8, <2>9, <2>10 DEF PlannerCore
<1> QED  BY <1>4, <1>5

\* A refusal leaves everything but the request.
LEMMA RefuseStep ==
    ASSUME PlannerInv, NEW i \in Invokes, Refuse(i)
    PROVE  PlannerInv'
<1>1. /\ At(i, "new") /\ Move(i, "refused")
      /\ UNCHANGED <<runs, spend, sent, swaps, unsure, overlaps>>
      /\ spend \in Nat /\ overlaps \in Nat /\ invoke \in [Invokes -> Invoke]
  BY DEF Refuse, PlannerInv, PlannerTypeOK
<1>2. PlannerCore' /\ Booked' = Booked
  BY <1>1, MoveStep DEF Stage, At
<1>3. BudgetOvershoot'
  <2>1. /\ [invoke[i] EXCEPT !.at = "refused"] \in Invoke
        /\ [invoke[i] EXCEPT !.at = "refused"].at \notin BusyAt
    BY <1>1 DEF Invoke, Stage, BusyAt
  <2> QED  BY <1>1, <2>1, BudgetKept DEF Move
<1> QED  BY <1>1, <1>2, <1>3 DEF PlannerCore, PlannerInv, SpendTrue

\* Admission, which reads the budget: the first attempt of an invoke.
LEMMA AdmitStep ==
    ASSUME PlannerInv, NEW i \in Invokes, Admit(i)
    PROVE  PlannerInv'
<1>1. /\ At(i, "new") /\ ~UnderWay(i) /\ ~BudgetReached
      /\ spend \in Nat /\ overlaps \in Nat /\ overlaps' \in Nat
      /\ invoke \in [Invokes -> Invoke] /\ 1 \in Numbers
      /\ UNCHANGED <<spend, sent, swaps, unsure>>
  BY InvokeAssumption DEF Admit, PlannerInv, PlannerTypeOK, UnderWay, Awaits, At, Numbers
<1>2. PICK m \in 0 .. RetryBudget : Attempt(i, 1, m)
  BY DEF Admit
<1>3. overlaps' = IF Busy = {} THEN overlaps ELSE overlaps + 1
  BY DEF Admit, Busy
<1>4. PlannerCore' /\ Booked' = Booked
  <2>1. CASE Fail(i, 1, m, Unrouted)
    BY <1>1, <2>1, FailStep DEF At, Unrouted
  <2>2. CASE ~Fail(i, 1, m, Unrouted)
    BY <1>1, <1>2, <2>2, FirstRequestStep DEF Attempt
  <2> QED  BY <2>1, <2>2
<1>5. PICK new \in Invoke : invoke' = [invoke EXCEPT ![i] = new]
  BY <1>1, <1>2, InvokeAssumption DEF Attempt, Fail, Invoke, Stage
<1>6. /\ Cardinality(Busy) \in Nat /\ Cardinality(Busy') \in Nat
      /\ new.at \in BusyAt => Cardinality(Busy') = Cardinality(Busy) + (IF UnderWay(i) THEN 0 ELSE 1)
      /\ new.at \notin BusyAt => Cardinality(Busy') = Cardinality(Busy) - (IF UnderWay(i) THEN 1 ELSE 0)
  BY <1>1, <1>5, BusyCount
<1>7. Busy = {} => Cardinality(Busy) = 0
  BY FS_EmptySet
<1>8. DailyBudget > 0 => /\ spend < DailyBudget
                         /\ spend + Cardinality(Busy) <= DailyBudget + overlaps
  BY <1>1, InvokeAssumption DEF BudgetReached, PlannerInv, BudgetOvershoot, Busy
<1>9. DailyBudget > 0 => spend + Cardinality(Busy') <= DailyBudget + overlaps'
  BY <1>1, <1>3, <1>6, <1>7, <1>8, InvokeAssumption
<1> QED  BY <1>1, <1>4, <1>9 DEF PlannerCore, PlannerInv, SpendTrue, BudgetOvershoot, Busy

\* Every other step of an invoke but the last.
LEMMA AttemptStep ==
    ASSUME PlannerInv, NEW i \in Invokes,
           \/ Retry(i) \/ FirstAnswer(i) \/ Settle(i) \/ Execute(i) \/ SecondAnswer(i)
           \/ Throw(i)
    PROVE  PlannerInv'
<1> DEFINE k == invoke[i].tries
           m == invoke[i].retries
<1> USE DEF Pay
<1>1. /\ UnderWay(i) /\ ~At(i, "spend") /\ UNCHANGED <<spend, overlaps>>
      /\ spend \in Nat /\ overlaps \in Nat /\ invoke \in [Invokes -> Invoke]
      /\ m \in 0 .. RetryBudget /\ k \in 0 .. RetryBudget + 1
      /\ ~Unrouted.attempted /\ ~Unpaid.attempted /\ PaidInVain.attempted
  BY DEF Retry, FirstAnswer, Settle, Execute, SecondAnswer, Throw, TimesOut, UnderWay, Awaits, At,
     PlannerInv, PlannerTypeOK, Invoke, Unrouted, Unpaid, PaidInVain
<1>2. /\ k \in Numbers
      /\ At(i, "retry") => k + 1 \in Numbers
  BY <1>1, InvokeAssumption DEF PlannerInv, InvokeInv, At, UnderWay, Awaits, Numbers
<1>3. \E new \in Invoke : invoke' = [invoke EXCEPT ![i] = new]
  BY <1>1, <1>2, InvokeAssumption DEF Retry, FirstAnswer, Settle, Execute, SecondAnswer, Throw,
     FailHere, Fail, Attempt, Move, Invoke, Stage, Numbers
<1>4. BudgetOvershoot'
  BY <1>1, <1>3, BudgetKept
<1>5. PlannerCore' /\ Booked' = Booked
  <2>1. CASE Retry(i)
    <3>1. At(i, "retry") /\ k + 1 \in Numbers /\ UNCHANGED <<sent, swaps, unsure>>
      BY <1>2, <2>1 DEF Retry
    <3>2. CASE Fail(i, k + 1, m, Unrouted)
      BY <1>1, <3>1, <3>2, FailStep DEF At
    <3>3. CASE ~Fail(i, k + 1, m, Unrouted)
      BY <1>1, <2>1, <3>1, <3>3, FirstRequestStep DEF Retry, Attempt
    <3> QED  BY <3>2, <3>3
  <2>2. CASE FirstAnswer(i)
    <3>1. At(i, "first") /\ UNCHANGED <<swaps, unsure>>
      BY <2>2 DEF FirstAnswer
    <3>2. CASE Fail(i, k, m, Unpaid) /\ UNCHANGED sent
      BY <1>1, <1>2, <3>1, <3>2, FailStep DEF At, Awaits
    <3>3. CASE Move(i, "settle") /\ UNCHANGED <<runs, sent>>
      BY <1>1, <3>1, <3>3, MoveStep DEF Stage
    <3>4. CASE Pay(i)
      BY <1>1, <3>1, <3>4, MoveStep DEF Stage, At
    <3> QED  BY <2>2, <3>2, <3>3, <3>4 DEF FirstAnswer, FailHere
  <2>3. CASE Settle(i)
    <3>1. At(i, "settle") /\ UNCHANGED unsure
      BY <2>3 DEF Settle
    <3>2. CASE Fail(i, k, m, Unpaid) /\ UNCHANGED <<sent, swaps>>
      BY <1>1, <1>2, <3>1, <3>2, FailStep DEF At, Awaits
    <3>3. CASE Move(i, "execute") /\ swaps' = swaps \cup {RunOf(i)} /\ UNCHANGED <<runs, sent>>
      BY <1>1, <3>1, <3>3, MoveStep DEF Stage
    <3>4. CASE Pay(i) /\ UNCHANGED swaps
      BY <1>1, <3>1, <3>4, MoveStep DEF Stage, At
    <3> QED  BY <2>3, <3>2, <3>3, <3>4 DEF Settle, FailHere
  <2>4. CASE Execute(i)
    <3>1. At(i, "execute") /\ UNCHANGED swaps
      BY <2>4 DEF Execute
    <3>2. CASE Fail(i, k, m, Unpaid) /\ unsure' = unsure \cup {<<i, k>>} /\ UNCHANGED sent
      BY <1>1, <1>2, <3>1, <3>2, FailStep DEF At, Awaits
    <3>3. CASE Pay(i) /\ UNCHANGED unsure
      BY <1>1, <3>1, <3>3, MoveStep DEF Stage, At
    <3> QED  BY <2>4, <3>2, <3>3 DEF Execute, FailHere, RunOf
  <2>5. CASE SecondAnswer(i)
    <3>1. At(i, "second") /\ UNCHANGED <<sent, swaps, unsure>>
      BY <2>5 DEF SecondAnswer
    <3>2. CASE Fail(i, k, m, PaidInVain)
      BY <1>1, <1>2, <3>1, <3>2, FailStep DEF At, Awaits
    <3>3. CASE Move(i, "spend") /\ runs' = [runs EXCEPT ![RunOf(i)] = Completed]
      BY <1>1, <3>1, <3>3, MoveStep DEF Stage
    <3> QED  BY <2>5, <3>2, <3>3 DEF SecondAnswer, FailHere
  <2>6. CASE Throw(i)
    <3>1. /\ At(i, "first") \/ At(i, "second")
          /\ UNCHANGED <<sent, swaps>> /\ Fail(i, k, m, Unpaid) /\ unsure \subseteq unsure'
          /\ At(i, "second") => <<i, k>> \in unsure'
      BY <2>6 DEF Throw, TimesOut, FailHere, RunOf
    <3> QED  BY <1>1, <1>2, <3>1, FailStep DEF At, Awaits
  <2> QED  BY <2>1, <2>2, <2>3, <2>4, <2>5, <2>6
<1> QED  BY <1>1, <1>4, <1>5 DEF PlannerCore, PlannerInv, SpendTrue

\* What a completed call costs is booked when it is no longer under way.
LEMMA SpendStep ==
    ASSUME PlannerInv, NEW i \in Invokes, RecordSpend(i)
    PROVE  PlannerInv'
<1> DEFINE new == [invoke[i] EXCEPT !.at = "ended"]
<1>1. /\ At(i, "spend") /\ UnderWay(i) /\ Move(i, "ended")
      /\ spend' = spend + 1 /\ UNCHANGED <<runs, sent, swaps, unsure, overlaps>>
      /\ spend \in Nat /\ overlaps \in Nat /\ invoke \in [Invokes -> Invoke]
  BY DEF RecordSpend, At, UnderWay, PlannerInv, PlannerTypeOK
<1>2. PlannerCore'
  BY <1>1, MoveStep DEF Stage
<1>3. new \in Invoke /\ new.at = "ended" /\ invoke' = [invoke EXCEPT ![i] = new]
  BY <1>1 DEF Invoke, Stage, Move
<1> HIDE DEF new
<1>4. /\ Cardinality(Busy) \in Nat /\ Cardinality(Busy') \in Nat
      /\ new.at \in BusyAt => Cardinality(Busy') = Cardinality(Busy) + (IF UnderWay(i) THEN 0 ELSE 1)
      /\ new.at \notin BusyAt => Cardinality(Busy') = Cardinality(Busy) - (IF UnderWay(i) THEN 1 ELSE 0)
  BY <1>1, <1>3, BusyCount
<1>5. Cardinality(Busy') = Cardinality(Busy) - 1
  BY <1>1, <1>3, <1>4 DEF BusyAt
<1>6. DailyBudget > 0 => spend + Cardinality(Busy) <= DailyBudget + overlaps
  BY DEF PlannerInv, BudgetOvershoot, Busy
<1>7. DailyBudget > 0 => spend' + Cardinality(Busy') <= DailyBudget + overlaps'
  BY <1>1, <1>4, <1>5, <1>6, InvokeAssumption
<1>8. SpendTrue'
  <2>1. RunOf(i) \in Attempts /\ Satisfied(RunOf(i)) /\ RunOf(i)[1] = i
    <3>1. invoke[i].tries \in Numbers
      BY <1>1, InvokeAssumption DEF PlannerInv, PlannerTypeOK, InvokeInv, Invoke, At, Numbers
    <3> QED  BY <1>1, <3>1, NumberedRuns DEF PlannerInv, InvokeInv, At, RunOf
  <2>2. ASSUME NEW r \in Attempts, Satisfied(r), r[1] = i PROVE r = RunOf(i)
    <3>1. PICK j \in Invokes, n \in Numbers : r = <<j, n>>
      BY NumberedRuns
    <3> QED  BY <2>2, <3>1 DEF PlannerInv, InvokeInv, RunOf
  <2>3. /\ RunOf(i) \notin Booked
        /\ Booked' = Booked \cup {RunOf(i)}
    <3>1. ASSUME NEW r \in Attempts PROVE r \in Booked' <=> r \in Booked \cup {RunOf(i)}
      <4>1. r[1] \in Invokes /\ (Satisfied(r)' <=> Satisfied(r))
        BY <1>1, NumberedRuns DEF Satisfied
      <4>2. /\ r[1] = i => invoke'[r[1]].at = "ended"
            /\ r[1] # i => invoke'[r[1]] = invoke[r[1]]
        BY <1>1, <1>3, <4>1
      <4> QED  BY <1>1, <2>1, <2>2, <4>1, <4>2 DEF Booked, At
    <3> QED  BY <1>1, <2>1, <3>1 DEF Booked, At
  <2>4. IsFiniteSet(Booked)
    <3>1. IsFiniteSet(1 .. RetryBudget + 1)
      BY InvokeAssumption, FS_Interval
    <3>2. IsFiniteSet(Attempts)
      BY <3>1, InvokeAssumption, FS_Product DEF Attempts
    <3> QED  BY <3>2, FS_Subset DEF Booked
  <2>5. Cardinality(Booked') = Cardinality(Booked) + 1
    BY <2>3, <2>4, FS_AddElement
  <2> QED  BY <1>1, <2>5 DEF PlannerInv, SpendTrue
<1> QED  BY <1>2, <1>7, <1>8 DEF PlannerCore, PlannerInv, BudgetOvershoot, Busy

\* A crash ends every invoke under way.
LEMMA PlannerCrashStep ==
    ASSUME PlannerInv, PlannerCrash
    PROVE  PlannerInv'
<1>1. /\ UNCHANGED <<runs, spend, sent, swaps, unsure, overlaps>>
      /\ invoke \in [Invokes -> Invoke]
      /\ \A i \in Invokes :
            /\ invoke'[i].tries = invoke[i].tries /\ invoke'[i].retries = invoke[i].retries
            /\ invoke'[i].at = IF UnderWay(i) THEN "lost" ELSE invoke[i].at
  BY DEF PlannerCrash, PlannerInv, PlannerTypeOK, Invoke
<1>2. PlannerTypeOK'
  <2>1. \A i \in Invokes : [invoke[i] EXCEPT !.at = "lost"] \in Invoke
    BY <1>1 DEF Invoke, Stage
  <2> QED  BY <1>1, <2>1 DEF PlannerCrash, PlannerInv, PlannerTypeOK
<1>3. ASSUME NEW i \in Invokes PROVE InvokeInv(i)'
  BY <1>1 DEF PlannerInv, InvokeInv, At, Awaits, UnderWay, Satisfied
<1>4. BudgetOvershoot'
  <2>1. Busy' = {} /\ IsFiniteSet(Busy)
    BY <1>1, InvokeAssumption, FS_Subset DEF Busy, UnderWay, Awaits
  <2>2. Cardinality(Busy) \in Nat /\ Cardinality(Busy') = 0
    BY <2>1, FS_EmptySet, FS_CardinalityType
  <2>3. DailyBudget > 0 => spend + Cardinality(Busy) <= DailyBudget + overlaps
    BY DEF PlannerInv, BudgetOvershoot, Busy
  <2>4. DailyBudget > 0 => spend' + Cardinality(Busy') <= DailyBudget + overlaps'
    BY <1>1, <2>2, <2>3, InvokeAssumption DEF PlannerInv, PlannerTypeOK
  <2> QED  BY <2>4 DEF BudgetOvershoot, Busy
<1>5. Booked' = Booked
  <2>1. ASSUME NEW r \in Attempts PROVE r \in Booked' <=> r \in Booked
    <3>1. PICK i \in Invokes, n \in Numbers : r = <<i, n>>
      BY NumberedRuns
    <3>2. Satisfied(r) => invoke[i].at \in {"spend", "ended", "lost"}
      BY <3>1 DEF PlannerInv, InvokeInv
    <3>3. Satisfied(r)' <=> Satisfied(r)
      BY <1>1 DEF Satisfied
    <3> QED  BY <1>1, <3>1, <3>2, <3>3 DEF Booked, UnderWay, Awaits
  <2> QED  BY <2>1 DEF Booked
<1> QED  BY <1>1, <1>2, <1>3, <1>4, <1>5 DEF PlannerInv, RecordsTrue, SpendTrue

\* The records of the planner's runs and its spend over any step of the server.
THEOREM PlannerInvariant == Spec => []PlannerInv
<1>1. Init => PlannerInv
  BY PlannerInitInv DEF Init
<1>2. PlannerInv /\ [Next]_vars => PlannerInv'
  <2> SUFFICES ASSUME PlannerInv, [Next]_vars PROVE PlannerInv'
    OBVIOUS
  <2>1. CASE UNCHANGED plannerVars
    BY <2>1 DEF plannerVars, PlannerInv, PlannerTypeOK, InvokeInv, RecordsTrue, SpendTrue,
       Booked, BudgetOvershoot, At, UnderWay, Awaits, Satisfied
  <2>2. ASSUME NEW i \in Invokes, InvokeStep(i) PROVE PlannerInv'
    BY <2>2, RefuseStep, AdmitStep, AttemptStep, SpendStep DEF InvokeStep
  <2>3. CASE Crash
    BY <2>3, PlannerCrashStep DEF Crash
  <2> QED  BY <2>1, <2>2, <2>3 DEF Next, vars
<1> QED  BY <1>1, <1>2, PTL DEF Spec

\* The files of runs and of spend agree with one another and with what the runs
\* did: no record claims more, and one that claims less, or is missing, is of a
\* run that failed after its payment or that a crash met.
THEOREM BooksHold == Spec => []BooksAgree
<1>1. PlannerInv => BooksAgree
  <2> SUFFICES ASSUME PlannerInv, NEW i \in Invokes, NEW n \in 1 .. invoke[i].tries,
                      runs[<<i, n>>] = NoRun
               PROVE  n = invoke[i].tries /\ (Awaits(i) \/ At(i, "lost"))
    BY DEF PlannerInv, RecordsTrue, SpendTrue, Booked, BooksAgree
  <2>1. /\ n \in Numbers /\ (n < invoke[i].tries \/ n = invoke[i].tries)
        /\ invoke[i].tries # 0 /\ invoke[i].at \in Stage
    BY InvokeAssumption DEF PlannerInv, PlannerTypeOK, Invoke, Numbers
  <2> QED  BY <2>1 DEF PlannerInv, InvokeInv, At, Awaits, Stage
<1> QED  BY <1>1, PlannerInvariant, PTL

\* An invoke pays at most once for every attempt it was allowed, and its
\* answered attempt is its last.
THEOREM RetriesHold == Spec => []RetriesBounded
<1>1. ASSUME PlannerInv, NEW i \in Invokes
      PROVE  /\ Cardinality({r \in sent \cup swaps : r[1] = i}) <= invoke[i].retries + 1
             /\ \A n \in 1 .. invoke[i].tries : Satisfied(<<i, n>>) => n = invoke[i].tries
  <2> DEFINE Paid == {r \in sent \cup swaps : r[1] = i}
             tries == invoke[i].tries
             pair == [n \in 1 .. tries |-> <<i, n>>]
             Pairs == {pair[n] : n \in 1 .. tries}
  <2>1. /\ invoke[i] \in Invoke /\ InvokeInv(i) /\ sent \cup swaps \subseteq Attempts
    <3>1. PlannerTypeOK /\ InvokeInv(i)
      BY <1>1 DEF PlannerInv
    <3> QED  BY <3>1 DEF PlannerTypeOK
  <2>2. /\ tries \in Nat /\ invoke[i].retries \in Nat
        /\ tries <= invoke[i].retries + 1 /\ tries <= RetryBudget + 1
        /\ \A n \in Numbers : n > tries => <<i, n>> \notin sent \cup swaps
        /\ \A n \in Numbers : Satisfied(<<i, n>>) => n = tries
    <3>1. /\ tries \in 0 .. RetryBudget + 1 /\ invoke[i].retries \in 0 .. RetryBudget
      BY <2>1 DEF Invoke
    <3> QED  BY <2>1, <3>1, InvokeAssumption DEF InvokeInv
  <2>3. \A n \in 1 .. tries : n \in Numbers
    BY <2>2, InvokeAssumption DEF Numbers
  <2>4. Paid \subseteq Pairs
    <3> SUFFICES ASSUME NEW r \in Paid PROVE r \in Pairs
      OBVIOUS
    <3>1. PICK n \in Numbers : r = <<i, n>>
      BY <2>1 DEF Attempts, Numbers
    <3>2. n \in 1 .. tries
      BY <2>2, <3>1, InvokeAssumption DEF Numbers
    <3>3. r = pair[n]
      BY <3>1, <3>2
    <3> QED  BY <3>2, <3>3
  <2>5. IsFiniteSet(Pairs) /\ Cardinality(Pairs) <= tries
    <3>1. pair \in Surjection(1 .. tries, Pairs)
      <4>1. pair \in [1 .. tries -> Pairs]
        OBVIOUS
      <4> QED  BY <4>1 DEF Surjection
    <3>2. IsFiniteSet(1 .. tries) /\ Cardinality(1 .. tries) = tries
      <4>1. tries \in Nat
        BY <2>2
      <4> HIDE DEF tries
      <4> QED  BY <4>1, FS_Interval
    <3> HIDE DEF pair, Pairs
    <3> QED  BY <3>1, <3>2, FS_Surjection
  <2> HIDE DEF Paid, Pairs, tries
  <2>6. IsFiniteSet(Paid) /\ Cardinality(Paid) <= Cardinality(Pairs)
    BY <2>4, <2>5, FS_Subset
  <2>7. Cardinality(Paid) \in Nat /\ Cardinality(Pairs) \in Nat
    BY <2>5, <2>6, FS_CardinalityType
  <2>8. Cardinality(Paid) <= invoke[i].retries + 1
    BY <2>2, <2>5, <2>6, <2>7
  <2> QED  BY <2>2, <2>3, <2>8 DEF Paid, tries
<1>2. PlannerInv => RetriesBounded
  BY <1>1 DEF RetriesBounded
<1> QED  BY <1>2, PlannerInvariant, PTL

\* The day's budget is overrun only by calls admitted while others were under
\* way.
THEOREM BudgetHolds == Spec => []BudgetOvershoot
<1>1. PlannerInv => BudgetOvershoot
  BY DEF PlannerInv
<1> QED  BY <1>1, PlannerInvariant, PTL

-----------------------------------------------------------------------------
(* The ratings. *)

Feedback == [id : Nat, by : Signals, outcome : {"none", "committed", "failed"}]
Rating == [at : {"absent", "new", "commit", "done", "threw", "lost"}, run : Runs \cup {None},
           score : Scores \cup {None}, id : Nat \cup {None}, tx : Transaction]
File == [Runs -> Entry \cup {None}]
Opening == [at : {"absent", "new", "reveal", "done", "threw", "lost"}, run : Runs \cup {None},
            held : File \cup {None}, opens : Commitment \cup {None}, tx : Transaction]
Account == [commit : Commitment \cup {None}, other : {"none", "committed", "scored", "expired"},
            scored : BOOLEAN]

DeskTypeOK ==
    /\ clock \in Nat
    /\ feedback \in Seq(Feedback)
    /\ salts \in File
    /\ signal \in [Signals -> Rating]
    /\ reveal \in [Reveals -> Opening]
    /\ chain \in [Runs -> Account]

\* A taken signal names what it rates; it has a transaction only then, is done
\* without one or with one that landed, and that one is the commitment.
SignalInv(s) ==
    /\ Taken(s) => signal[s].run \in Runs /\ signal[s].score \in Scores /\ signal[s].id \in Nat
    /\ ~Taken(s) => signal[s].id = None /\ signal[s].tx = "none"
    /\ signal[s].at = "commit" => signal[s].tx # "none"
    /\ signal[s].at = "done" => signal[s].tx \in {"none", "landed"}
    /\ signal[s].tx = "landed" =>
          chain[signal[s].run].commit = [salt |-> s, score |-> signal[s].score]

ChainInv(r) ==
    chain[r].commit # None =>
        /\ signal[chain[r].commit.salt].run = r
        /\ signal[chain[r].commit.salt].tx = "landed"

\* What the file, or a copy of it that a reveal holds, says of a run.
Opens(file, r) ==
    file[r] # None =>
        /\ chain[r].commit = [salt |-> file[r].salt, score |-> file[r].score]
        /\ file[r].revealed => chain[r].scored

\* A reveal that awaits holds the file as it was: for runs not exposed, with
\* the entries it has now.
RevealInv(v) ==
    /\ reveal[v].tx # "none" => reveal[v].run \in Runs
    /\ v \in Awaiting =>
        /\ reveal[v].run \in Runs /\ reveal[v].held \in File
        /\ Unrevealed(reveal[v].run, reveal[v].held)
        /\ RevealDone(v) => chain[reveal[v].run].scored
        /\ \A r \in Runs :
              /\ Opens(reveal[v].held, r)
              /\ r \notin exposed => (reveal[v].held[r] = None <=> salts[r] = None)

\* Every record is of a taken signal under its id, every taken signal's id has
\* a record.
RecordsInv ==
    /\ \A n \in DOMAIN feedback : /\ Taken(feedback[n].by)
                                  /\ feedback[n].id = signal[feedback[n].by].id
    /\ \A s \in Signals : Taken(s) => \E n \in DOMAIN feedback : feedback[n].id = signal[s].id

DeskInv ==
    /\ DeskTypeOK
    /\ \A s \in Signals : SignalInv(s)
    /\ \A r \in Runs : ChainInv(r) /\ Opens(salts, r)
    /\ \A v \in Reveals : RevealInv(v)
    /\ CommitmentsOpenable
    /\ RecordsInv
    /\ FeedbackKept

LEMMA RecordFields ==
    ASSUME feedback \in Seq(Feedback), NEW n \in DOMAIN feedback
    PROVE  feedback[n] \in Feedback /\ feedback[n].by \in Signals /\ n \in Nat
<1>1. feedback[n] \in Feedback /\ n \in Nat
  OBVIOUS
<1> QED  BY <1>1 DEF Feedback

\* The record that is written again is one with the signal's id.
LEMMA FirstFound ==
    ASSUME NEW file \in Seq(Feedback), NEW id, NEW k \in DOMAIN file, file[k].id = id
    PROVE  First(file, id) \in DOMAIN file /\ file[First(file, id)].id = id
<1> DEFINE Alike == {n \in DOMAIN file : file[n].id = id}
           Less == OpToRel(<, Nat)
<1>1. Alike \subseteq Nat /\ Alike # {}
  OBVIOUS
<1>2. \E n \in Alike : \A m \in Alike : <<m, n>> \notin Less
  <2> HIDE DEF Alike, Less
  <2>1. IsWellFoundedOn(Less, Nat)
    BY NatLessThanWellFounded DEF Less
  <2> QED  BY <1>1, <2>1, WFMin
<1>3. PICK n \in Alike : \A m \in Alike : <<m, n>> \notin Less
  BY <1>2
<1>4. \A m \in Alike : n <= m
  <2> TAKE m \in Alike
  <2>1. n \in Nat /\ m \in Nat /\ ~(m < n)
    BY <1>1, <1>3 DEF OpToRel
  <2> HIDE DEF Alike
  <2> QED  BY <2>1
<1>5. \E f \in DOMAIN file :
          /\ file[f].id = id
          /\ \A m \in DOMAIN file : file[m].id = id => f <= m
  BY <1>4
<1> QED  BY <1>5 DEF First

\* The records are untouched and so is what they say of the signals.
LEMMA RecordsKept ==
    ASSUME DeskInv, feedback' = feedback,
           \A s \in Signals :
              /\ Taken(s)' <=> Taken(s)
              /\ signal'[s].id = signal[s].id
              /\ signal'[s].at = "done" =>
                    signal[s].at = "done" /\ signal'[s].tx = signal[s].tx
              /\ signal[s].tx = "landed" => signal'[s].tx = "landed"
    PROVE  RecordsInv' /\ FeedbackKept'
<1>1. \A n \in DOMAIN feedback : feedback[n].by \in Signals
  BY RecordFields DEF DeskInv, DeskTypeOK
<1>2. RecordsInv'
  BY <1>1 DEF DeskInv, RecordsInv, Taken
<1>3. FeedbackKept'
  BY <1>1 DEF DeskInv, FeedbackKept
<1> QED  BY <1>2, <1>3

\* A signal's record is written again, over one with its id.
LEMMA RecordsRewritten ==
    ASSUME DeskInv, NEW t \in Signals, Taken(t), NEW outcome \in {"committed", "failed"},
           feedback' = Rewritten(feedback, signal[t].id, t, outcome), signal[t].at # "done",
           \A s \in Signals :
              /\ Taken(s)' <=> Taken(s)
              /\ signal'[s].id = signal[s].id
              /\ s # t => signal'[s] = signal[s]
           , signal'[t].at = "done" => outcome = "committed",
           outcome = "committed" => signal'[t].tx = "landed"
    PROVE  feedback' \in Seq(Feedback) /\ RecordsInv' /\ FeedbackKept'
<1> DEFINE id == signal[t].id
           new == [id |-> id, by |-> t, outcome |-> outcome]
           f == First(feedback, id)
<1>1. feedback \in Seq(Feedback) /\ id \in Nat /\ RecordsInv /\ FeedbackKept
  BY DEF DeskInv, DeskTypeOK, SignalInv
<1>2. f \in DOMAIN feedback /\ feedback[f].id = id
  <2>1. PICK k \in DOMAIN feedback : feedback[k].id = id
    BY <1>1 DEF RecordsInv
  <2> QED  BY <1>1, <2>1, FirstFound
<1>3. /\ new \in Feedback /\ feedback' = [feedback EXCEPT ![f] = new]
      /\ new.id = id /\ new.by = t /\ new.outcome = outcome
  BY <1>1 DEF Feedback, Rewritten
<1> HIDE DEF new, f
<1>4. /\ feedback' \in Seq(Feedback) /\ DOMAIN feedback' = DOMAIN feedback
      /\ feedback'[f] = new
      /\ \A n \in DOMAIN feedback : n # f => feedback'[n] = feedback[n]
  BY <1>1, <1>2, <1>3
<1>5. \A n \in DOMAIN feedback : feedback[n] \in Feedback /\ feedback[n].by \in Signals
  BY <1>1, RecordFields
<1>6. RecordsInv'
  <2>1. ASSUME NEW n \in DOMAIN feedback
        PROVE  feedback'[n].by \in Signals /\ Taken(feedback'[n].by)
               /\ feedback'[n].id = signal[feedback'[n].by].id /\ feedback'[n].id = feedback[n].id
    BY <1>1, <1>2, <1>3, <1>4, <1>5 DEF RecordsInv
  <2>2. (\A n \in DOMAIN feedback : /\ Taken(feedback[n].by)
                                     /\ feedback[n].id = signal[feedback[n].by].id)'
    BY <1>4, <2>1 DEF Taken
  <2>3. \A s \in Signals : Taken(s)' => \E n \in DOMAIN feedback' : feedback'[n].id = signal'[s].id
    BY <1>1, <1>4, <2>1 DEF RecordsInv
  <2> QED  BY <2>2, <2>3 DEF RecordsInv
<1>7. FeedbackKept'
  <2> SUFFICES ASSUME NEW s \in Signals, Taken(s),
                      \A u \in Signals \ {s} : signal[u].id # signal[s].id
               PROVE  \E n \in DOMAIN feedback :
                         /\ \A k \in DOMAIN feedback : feedback'[k].by = s <=> k = n
                         /\ feedback'[n].outcome = "committed" => signal'[s].tx = "landed"
                         /\ signal'[s].at = "done" /\ signal'[s].tx = "landed" =>
                               feedback'[n].outcome = "committed"
    BY <1>4 DEF FeedbackKept
  <2>1. PICK n \in DOMAIN feedback :
            /\ \A k \in DOMAIN feedback : feedback[k].by = s <=> k = n
            /\ feedback[n].outcome = "committed" => signal[s].tx = "landed"
            /\ signal[s].at = "done" /\ signal[s].tx = "landed" =>
                  feedback[n].outcome = "committed"
    BY <1>1 DEF FeedbackKept
  <2>2. feedback[n].id = signal[s].id
    BY <1>1, <2>1 DEF RecordsInv
  <2>3. CASE s # t
    <3>1. n # f
      BY <1>2, <2>2, <2>3
    <3>2. \A k \in DOMAIN feedback : feedback'[k].by = s <=> k = n
      BY <1>2, <1>3, <1>4, <2>1, <2>3, <3>1
    <3>3. feedback'[n] = feedback[n] /\ signal'[s] = signal[s]
      BY <1>4, <2>3, <3>1
    <3> QED  BY <2>1, <3>2, <3>3
  <2>4. CASE s = t
    <3>1. n = f
      <4>1. feedback[f].by \in Signals /\ signal[feedback[f].by].id = signal[s].id
        BY <1>1, <1>2, <1>5, <2>4 DEF RecordsInv
      <4> QED  BY <1>2, <2>1, <4>1
    <3> QED  BY <1>3, <1>4, <2>1, <2>4, <3>1
  <2> QED  BY <2>3, <2>4
<1> QED  BY <1>4, <1>6, <1>7

\* A signal is taken: its record is appended, and at a refusal written again
\* with the outcome, over one with its id.
LEMMA RecordAdded ==
    ASSUME feedback \in Seq(Feedback), clock \in Nat, NEW t \in Signals,
           NEW r \in Runs, NEW score \in Scores, Signal(t, r, score)
    PROVE  \E f \in 1 .. Len(feedback) + 1, fresh \in Feedback :
              /\ fresh.id = clock /\ fresh.by = t /\ fresh.outcome # "committed"
              /\ f # Len(feedback) + 1 => feedback[f].id = clock
              /\ feedback' \in Seq(Feedback) /\ DOMAIN feedback' = 1 .. Len(feedback) + 1
              /\ feedback'[f] = fresh
              /\ \A n \in 1 .. Len(feedback) : n # f => feedback'[n] = feedback[n]
              /\ f # Len(feedback) + 1 => feedback'[Len(feedback) + 1].id = clock
              /\ f # Len(feedback) + 1 => feedback'[Len(feedback) + 1].by = t
              /\ f # Len(feedback) + 1 => feedback'[Len(feedback) + 1].outcome # "committed"
<1> DEFINE new == [id |-> clock, by |-> t, outcome |-> "none"]
           again == [id |-> clock, by |-> t, outcome |-> "failed"]
           written == Append(feedback, new)
           last == Len(feedback) + 1
<1>1. /\ new \in Feedback /\ new.id = clock /\ new.by = t /\ new.outcome # "committed"
      /\ again \in Feedback /\ again.id = clock /\ again.by = t /\ again.outcome # "committed"
  BY DEF Feedback
<1>2. feedback' = written \/ feedback' = [written EXCEPT ![First(written, clock)] = again]
  BY DEF Signal, Rewritten
<1> HIDE DEF new, again
<1>3. /\ written \in Seq(Feedback) /\ DOMAIN written = 1 .. last /\ last \in 1 .. last
      /\ last \in Nat /\ \A n \in 1 .. Len(feedback) : n # last /\ n \in 1 .. last
      /\ written[last] = new
      /\ \A n \in 1 .. Len(feedback) : written[n] = feedback[n]
      /\ \A n \in 1 .. last : n = last \/ n \in 1 .. Len(feedback)
  BY <1>1
<1>4. CASE feedback' = written
  BY <1>1, <1>3, <1>4
<1>5. CASE feedback' = [written EXCEPT ![First(written, clock)] = again]
  <2> DEFINE f == First(written, clock)
  <2>1. f \in 1 .. last /\ written[f].id = clock
    <3> HIDE DEF written
    <3> QED  BY <1>1, <1>3, FirstFound
  <2> HIDE DEF f, written
  <2>2. /\ feedback' \in Seq(Feedback) /\ DOMAIN feedback' = 1 .. last
        /\ feedback'[f] = again
        /\ \A n \in 1 .. last : n # f => feedback'[n] = written[n]
    BY <1>1, <1>3, <1>5, <2>1 DEF f
  <2> HIDE DEF last
  <2> QED  BY <1>1, <1>3, <2>1, <2>2 DEF last
<1> QED  BY <1>2, <1>4, <1>5

LEMMA RecordsAppended ==
    ASSUME DeskInv, NEW t \in Signals, NEW r \in Runs, NEW score \in Scores, Signal(t, r, score)
    PROVE  feedback' \in Seq(Feedback) /\ RecordsInv' /\ FeedbackKept'
<1> DEFINE last == Len(feedback) + 1
<1>1. feedback \in Seq(Feedback) /\ clock \in Nat /\ RecordsInv /\ FeedbackKept /\ ~Taken(t)
  BY DEF DeskInv, DeskTypeOK, Signal, Taken
<1>2. PICK f \in 1 .. last, fresh \in Feedback :
          /\ fresh.id = clock /\ fresh.by = t /\ fresh.outcome # "committed"
          /\ f # last => feedback[f].id = clock
          /\ feedback' \in Seq(Feedback) /\ DOMAIN feedback' = 1 .. last
          /\ feedback'[f] = fresh
          /\ \A n \in 1 .. Len(feedback) : n # f => feedback'[n] = feedback[n]
          /\ f # last => feedback'[last].id = clock
          /\ f # last => feedback'[last].by = t
          /\ f # last => feedback'[last].outcome # "committed"
  BY <1>1, RecordAdded
<1>3. /\ DOMAIN feedback = 1 .. Len(feedback) /\ last \in 1 .. last
      /\ \A n \in 1 .. Len(feedback) : n # last /\ n \in 1 .. last
      /\ \A n \in 1 .. last : n = last \/ n \in 1 .. Len(feedback)
  BY <1>1
<1> HIDE DEF last
<1>4. /\ feedback'[last].id = clock /\ feedback'[last].by = t
      /\ feedback'[last].outcome # "committed"
  BY <1>2
<1>5. /\ \A s \in Signals : s # t => signal'[s] = signal[s]
      /\ signal'[t].id = clock
      /\ Taken(t)' /\ (signal'[t].at = "done" => signal'[t].tx = "none")
      /\ \A s \in Signals : s # t => (Taken(s)' <=> Taken(s))
  BY DEF Signal, Took, Taken, DeskInv, DeskTypeOK
<1>6. \A n \in 1 .. Len(feedback) : feedback[n].by \in Signals /\ feedback[n].by # t
  BY <1>1, <1>3, RecordFields DEF RecordsInv
<1>7. RecordsInv'
  <2>1. (\A n \in DOMAIN feedback : /\ Taken(feedback[n].by)
                                     /\ feedback[n].id = signal[feedback[n].by].id)'
    <3> SUFFICES ASSUME NEW n \in 1 .. last
                 PROVE  /\ signal'[feedback'[n].by].at \notin {"absent", "new"}
                        /\ feedback'[n].id = signal'[feedback'[n].by].id
      BY <1>2 DEF Taken
    <3>1. CASE n = last
      BY <1>4, <1>5, <3>1 DEF Taken
    <3>2. CASE n = f
      BY <1>2, <1>5, <3>2 DEF Taken
    <3>3. CASE n \in 1 .. Len(feedback) /\ n # f
      BY <1>1, <1>2, <1>3, <1>5, <1>6, <3>3 DEF RecordsInv, Taken
    <3> QED  BY <1>3, <3>1, <3>2, <3>3
  <2>2. \A s \in Signals : Taken(s)' => \E n \in DOMAIN feedback' : feedback'[n].id = signal'[s].id
    <3> SUFFICES ASSUME NEW s \in Signals, Taken(s)'
                 PROVE  \E n \in 1 .. last : feedback'[n].id = signal'[s].id
      BY <1>2
    <3>1. CASE s = t
      BY <1>3, <1>4, <1>5, <3>1
    <3>2. CASE s # t
      <4>1. PICK n \in 1 .. Len(feedback) : feedback[n].id = signal[s].id
        BY <1>1, <1>3, <1>5, <3>2 DEF RecordsInv
      <4>2. feedback'[n].id = feedback[n].id
        BY <1>2, <1>3, <4>1
      <4> QED  BY <1>3, <1>5, <3>2, <4>1, <4>2
    <3> QED  BY <3>1, <3>2
  <2> QED  BY <2>1, <2>2 DEF RecordsInv
<1>8. FeedbackKept'
  <2> SUFFICES ASSUME NEW s \in Signals, Taken(s)',
                      \A u \in Signals \ {s} : signal'[u].id # signal'[s].id
               PROVE  \E n \in DOMAIN feedback' :
                         /\ \A k \in DOMAIN feedback' : feedback'[k].by = s <=> k = n
                         /\ feedback'[n].outcome = "committed" => signal'[s].tx = "landed"
                         /\ signal'[s].at = "done" /\ signal'[s].tx = "landed" =>
                               feedback'[n].outcome = "committed"
    BY DEF FeedbackKept
  <2>1. CASE s = t
    <3>1. f = last
      <4> SUFFICES ASSUME f # last PROVE FALSE
        OBVIOUS
      <4>1. f \in 1 .. Len(feedback) /\ feedback[f].id = clock
        BY <1>2, <1>3
      <4>2. /\ feedback[f].by \in Signals \ {t}
            /\ signal'[feedback[f].by].id = clock
        BY <1>1, <1>3, <1>5, <1>6, <4>1 DEF RecordsInv
      <4> QED  BY <1>5, <2>1, <4>2
    <3>2. \A k \in 1 .. last : feedback'[k].by = t <=> k = last
      BY <1>2, <1>3, <1>4, <1>6, <3>1
    <3> QED  BY <1>2, <1>3, <1>4, <1>5, <2>1, <3>2
  <2>2. CASE s # t
    <3>1. \A u \in Signals \ {s} : signal[u].id # signal[s].id
      <4>1. signal[t].id = None /\ signal[s].id \in Nat
        BY <1>1, <1>5, <2>2 DEF DeskInv, SignalInv
      <4> QED  BY <1>5, <2>2, <4>1, ScoreAssumption
    <3>2. PICK n \in DOMAIN feedback :
            /\ \A k \in DOMAIN feedback : feedback[k].by = s <=> k = n
            /\ feedback[n].outcome = "committed" => signal[s].tx = "landed"
            /\ signal[s].at = "done" /\ signal[s].tx = "landed" =>
                  feedback[n].outcome = "committed"
      BY <1>1, <1>5, <2>2, <3>1 DEF FeedbackKept
    <3>3. n # f
      <4>1. feedback[n].id = signal[s].id /\ signal[s].id # clock
        BY <1>1, <1>5, <2>2, <3>2 DEF RecordsInv
      <4> QED  BY <1>2, <1>3, <3>2, <4>1
    <3>4. \A k \in 1 .. last : feedback'[k].by = s <=> k = n
      BY <1>2, <1>3, <1>4, <2>2, <3>2, <3>3
    <3>5. feedback'[n] = feedback[n] /\ n \in 1 .. last
      BY <1>2, <1>3, <3>2, <3>3
    <3> QED  BY <1>2, <1>5, <2>2, <3>2, <3>4, <3>5
  <2> QED  BY <2>1, <2>2
<1> QED  BY <1>2, <1>7, <1>8

\* The part of the invariant that is about salts and commitments.
SaltsInv ==
    /\ \A s \in Signals : SignalInv(s)
    /\ \A r \in Runs : ChainInv(r) /\ Opens(salts, r)
    /\ \A v \in Reveals : RevealInv(v)
    /\ CommitmentsOpenable

LEMMA CommitTypes ==
    ASSUME DeskTypeOK, NEW r \in Runs, chain[r].commit # None
    PROVE  /\ chain[r].commit \in Commitment /\ chain[r].commit.salt \in Signals
           /\ chain[r].commit.score \in Scores
<1>1. chain[r] \in Account
  BY DEF DeskTypeOK
<1>2. chain[r].commit \in Commitment
  BY <1>1 DEF Account
<1> QED  BY <1>2 DEF Commitment

\* Signals may come and go, reveals may end: the file and what the chain has
\* taken from the operator are untouched.
LEMMA SaltsKept ==
    ASSUME DeskInv, UNCHANGED <<salts, exposed>>,
           \A r \in Runs : chain'[r].commit = chain[r].commit /\ chain'[r].scored = chain[r].scored,
           \A v \in Reveals : reveal'[v].tx = reveal[v].tx /\ reveal'[v].run = reveal[v].run,
           \A v \in Reveals : v \in Awaiting' =>
              /\ v \in Awaiting
              /\ reveal'[v].run = reveal[v].run /\ reveal'[v].held = reveal[v].held
              /\ RevealDone(v)' => RevealDone(v),
           \A s \in Signals : SignalInv(s)',
           \A s \in Signals : signal[s].tx = "landed" =>
              /\ signal'[s].tx = "landed" /\ signal'[s].run = signal[s].run
              /\ signal'[s].at = signal[s].at \/ signal'[s].at \in {"threw", "lost"}
    PROVE  SaltsInv'
<1>1. \A r \in Runs : chain[r].commit # None => chain[r].commit.salt \in Signals
  BY CommitTypes DEF DeskInv
<1>2. ASSUME NEW r \in Runs PROVE ChainInv(r)' /\ Opens(salts, r)'
  BY <1>1 DEF DeskInv, ChainInv, Opens
<1>3. ASSUME NEW v \in Reveals PROVE RevealInv(v)'
  BY DEF DeskInv, RevealInv, Opens, Unrevealed
<1>4. CommitmentsOpenable'
  <2> SUFFICES ASSUME NEW r \in Runs, chain[r].commit # None, salts[r] = None, r \notin exposed
               PROVE  signal'[chain[r].commit.salt].at \in {"commit", "threw", "lost"}
    BY DEF CommitmentsOpenable
  <2>1. /\ chain[r].commit.salt \in Signals
        /\ signal[chain[r].commit.salt].tx = "landed"
        /\ signal[chain[r].commit.salt].at \in {"commit", "threw", "lost"}
    BY <1>1 DEF DeskInv, ChainInv, CommitmentsOpenable
  <2> QED  BY <2>1
<1> QED  BY <1>2, <1>3, <1>4 DEF SaltsInv

\* One signal changes and no commitment.
LEMMA OneSignal ==
    ASSUME DeskInv, NEW t \in Signals, NEW new \in Rating,
           signal' = [signal EXCEPT ![t] = new], UNCHANGED <<salts, reveal, chain, exposed>>,
           SignalInv(t)',
           signal[t].tx = "landed" =>
              /\ new.tx = "landed" /\ new.run = signal[t].run
              /\ new.at = signal[t].at \/ new.at \in {"threw", "lost"}
    PROVE  SaltsInv' /\ signal' \in [Signals -> Rating]
<1>1. /\ signal \in [Signals -> Rating] /\ signal' \in [Signals -> Rating] /\ signal'[t] = new
      /\ \A s \in Signals \ {t} : signal'[s] = signal[s]
  BY DEF DeskInv, DeskTypeOK
<1>2. ASSUME NEW s \in Signals PROVE SignalInv(s)'
  BY <1>1 DEF DeskInv, SignalInv, Taken
<1>3. \A v \in Reveals : v \in Awaiting' <=> v \in Awaiting
  BY DEF Awaiting
<1>4. \A v \in Reveals : RevealDone(v)' => RevealDone(v)
  BY DEF RevealDone
<1>5. SaltsInv'
  BY <1>1, <1>2, <1>3, <1>4, SaltsKept
<1> QED  BY <1>1, <1>5

LEMMA SignalStep ==
    ASSUME DeskInv, NEW t \in Signals, NEW r \in Runs, NEW score \in Scores, Signal(t, r, score)
    PROVE  DeskInv'
<1>0. PICK at \in {"commit", "threw", "done"}, tx \in {"none", "sent"} :
          Took(t, r, score, at, tx) /\ (at = "commit" <=> tx = "sent")
  BY DEF Signal
<1> DEFINE new == [at |-> at, run |-> r, score |-> score, id |-> clock, tx |-> tx]
<1>1. /\ signal' = [signal EXCEPT ![t] = new]
      /\ UNCHANGED <<clock, salts, reveal, chain, exposed>>
      /\ signal[t].at = "new" /\ signal \in [Signals -> Rating] /\ clock \in Nat
  BY <1>0 DEF Signal, Took, DeskInv, DeskTypeOK
<1>2. /\ new \in Rating /\ new.run \in Runs /\ new.score \in Scores /\ new.id \in Nat
      /\ \/ new.at = "commit" /\ new.tx = "sent"
         \/ new.at \in {"threw", "done"} /\ new.tx = "none"
  BY <1>0, <1>1 DEF Rating, Transaction
<1> HIDE DEF new
<1>3. signal'[t] = new
  BY <1>1
<1>4. SignalInv(t)'
  BY <1>2, <1>3 DEF SignalInv, Taken
<1>5. signal[t].tx # "landed"
  BY <1>1 DEF DeskInv, SignalInv, Taken
<1>6. SaltsInv' /\ signal' \in [Signals -> Rating]
  BY <1>1, <1>2, <1>4, <1>5, OneSignal
<1>7. feedback' \in Seq(Feedback) /\ RecordsInv' /\ FeedbackKept'
  BY RecordsAppended
<1> QED  BY <1>1, <1>6, <1>7 DEF DeskInv, DeskTypeOK, SaltsInv

LEMMA CommitThrowsStep ==
    ASSUME DeskInv, NEW t \in Signals, CommitThrows(t)
    PROVE  DeskInv'
<1> DEFINE new == [signal[t] EXCEPT !.at = "threw"]
<1>1. /\ signal' = [signal EXCEPT ![t] = new] /\ feedback' = Rewritten(feedback, signal[t].id, t, "failed")
      /\ UNCHANGED <<clock, salts, reveal, chain, exposed>>
      /\ signal[t].at = "commit" /\ signal \in [Signals -> Rating] /\ SignalInv(t)
  BY DEF CommitThrows, DeskInv, DeskTypeOK
<1>2. /\ new \in Rating /\ new.at = "threw" /\ new.run = signal[t].run
      /\ new.score = signal[t].score /\ new.id = signal[t].id /\ new.tx = signal[t].tx
  BY <1>1 DEF Rating
<1> HIDE DEF new
<1>3. signal'[t] = new /\ \A s \in Signals \ {t} : signal'[s] = signal[s]
  BY <1>1
<1>4. SignalInv(t)' /\ Taken(t)
  BY <1>1, <1>2, <1>3 DEF SignalInv, Taken
<1>5. SaltsInv' /\ signal' \in [Signals -> Rating]
  BY <1>1, <1>2, <1>4, OneSignal
<1>6. \A s \in Signals : /\ Taken(s)' <=> Taken(s)
                         /\ signal'[s].id = signal[s].id
                         /\ s # t => signal'[s] = signal[s]
  BY <1>1, <1>2, <1>3 DEF Taken
<1>7. feedback' \in Seq(Feedback) /\ RecordsInv' /\ FeedbackKept'
  BY <1>1, <1>2, <1>3, <1>4, <1>6, RecordsRewritten
<1> QED  BY <1>1, <1>5, <1>7 DEF DeskInv, DeskTypeOK, SaltsInv

\* The salt is stored and the record says so.
LEMMA CommitConfirmedStep ==
    ASSUME DeskInv, NEW t \in Signals, CommitConfirmed(t)
    PROVE  DeskInv'
<1> DEFINE new == [signal[t] EXCEPT !.at = "done"]
           run == signal[t].run
           entry == [salt |-> t, score |-> signal[t].score, revealed |-> FALSE]
<1>1. /\ signal' = [signal EXCEPT ![t] = new] 
      /\ feedback' = Rewritten(feedback, signal[t].id, t, "committed")
      /\ salts' = [salts EXCEPT ![run] = entry]
      /\ exposed' = exposed \cup (IF Awaiting # {} THEN {run} ELSE {})
      /\ UNCHANGED <<clock, reveal, chain>>
      /\ signal[t].at = "commit" /\ signal[t].tx = "landed"
      /\ signal \in [Signals -> Rating] /\ SignalInv(t) /\ salts \in File
  BY DEF CommitConfirmed, Stored, DeskInv, DeskTypeOK
<1>2. /\ new \in Rating /\ new.at = "done" /\ new.run = run
      /\ new.score = signal[t].score /\ new.id = signal[t].id /\ new.tx = "landed"
      /\ run \in Runs /\ signal[t].score \in Scores
      /\ chain[run].commit = [salt |-> t, score |-> signal[t].score]
  BY <1>1 DEF Rating, SignalInv, Taken
<1>3. /\ entry \in Entry /\ entry # None /\ ~entry.revealed
      /\ chain[run].commit = [salt |-> entry.salt, score |-> entry.score]
  <2>1. entry \in Entry
    BY <1>2 DEF Entry
  <2>2. ~entry.revealed /\ entry.salt = t /\ entry.score = signal[t].score
    OBVIOUS
  <2> HIDE DEF entry
  <2> QED  BY <1>2, <2>1, <2>2, ScoreAssumption
<1> HIDE DEF new, run, entry
<1>4. /\ signal' \in [Signals -> Rating] /\ signal'[t] = new
      /\ \A s \in Signals \ {t} : signal'[s] = signal[s]
      /\ salts' \in File /\ salts'[run] = entry
      /\ \A r \in Runs \ {run} : salts'[r] = salts[r]
  <2>1. /\ signal' \in [Signals -> Rating] /\ signal'[t] = new
        /\ \A s \in Signals \ {t} : signal'[s] = signal[s]
    BY <1>1, <1>2
  <2>2. /\ salts' \in File /\ salts'[run] = entry
        /\ \A r \in Runs \ {run} : salts'[r] = salts[r]
    BY <1>1, <1>2, <1>3 DEF File
  <2> QED  BY <2>1, <2>2
<1>5. ASSUME NEW s \in Signals PROVE SignalInv(s)'
  <2>1. CASE s = t
    BY <1>1, <1>2, <1>4, <2>1 DEF SignalInv, Taken
  <2>2. CASE s # t
    BY <1>1, <1>4, <2>2 DEF DeskInv, SignalInv, Taken
  <2> QED  BY <2>1, <2>2
<1>6. \A r \in Runs : chain[r].commit # None => chain[r].commit.salt \in Signals
  BY CommitTypes DEF DeskInv
<1>7. ASSUME NEW r \in Runs PROVE ChainInv(r)' /\ Opens(salts, r)'
  <2>1. ChainInv(r) /\ Opens(salts, r)
    BY DEF DeskInv
  <2>2. ChainInv(r)'
    BY <1>1, <1>2, <1>4, <1>6, <2>1 DEF ChainInv, run
  <2>3. Opens(salts, r)'
    BY <1>1, <1>3, <1>4, <2>1 DEF Opens
  <2> QED  BY <2>2, <2>3
<1>8. ASSUME NEW v \in Reveals PROVE RevealInv(v)'
  <2>1. RevealInv(v) /\ (v \in Awaiting' <=> v \in Awaiting) /\ (RevealDone(v)' <=> RevealDone(v))
    BY <1>1 DEF DeskInv, Awaiting, RevealDone
  <2>2. v \in Awaiting => run \in exposed'
    BY <1>1
  <2>3. v \in Awaiting => \A r \in Runs : Opens(reveal[v].held, r)'
    BY <1>1, <2>1 DEF RevealInv, Opens
  <2> QED  BY <1>1, <1>4, <2>1, <2>2, <2>3 DEF RevealInv, Unrevealed
<1>9. CommitmentsOpenable'
  <2> SUFFICES ASSUME NEW r \in Runs, chain[r].commit # None, salts'[r] = None, r \notin exposed'
               PROVE  signal'[chain[r].commit.salt].at \in {"commit", "threw", "lost"}
    BY <1>1 DEF CommitmentsOpenable
  <2>1. r # run /\ salts[r] = None /\ r \notin exposed
    BY <1>1, <1>3, <1>4
  <2>2. /\ chain[r].commit.salt \in Signals
        /\ signal[chain[r].commit.salt].run = r
        /\ signal[chain[r].commit.salt].at \in {"commit", "threw", "lost"}
    BY <1>6, <2>1 DEF DeskInv, ChainInv, CommitmentsOpenable
  <2> QED  BY <1>4, <2>1, <2>2 DEF run
<1>10. feedback' \in Seq(Feedback) /\ RecordsInv' /\ FeedbackKept'
  <2>1. \A s \in Signals : /\ Taken(s)' <=> Taken(s)
                           /\ signal'[s].id = signal[s].id
                           /\ s # t => signal'[s] = signal[s]
    BY <1>1, <1>2, <1>4 DEF Taken
  <2>2. Taken(t)
    BY <1>1 DEF Taken
  <2> QED  BY <1>1, <1>2, <1>4, <2>1, <2>2, RecordsRewritten
<1>11. clock' \in Nat /\ reveal' \in [Reveals -> Opening] /\ chain' \in [Runs -> Account]
  BY <1>1 DEF DeskInv, DeskTypeOK
<1> QED  BY <1>4, <1>5, <1>7, <1>8, <1>9, <1>10, <1>11 DEF DeskInv, DeskTypeOK

\* A commitment is taken: nobody holds a salt for its run yet.
LEMMA CommitLandsStep ==
    ASSUME DeskInv, NEW t \in Signals, CommitLands(t)
    PROVE  DeskInv'
<1> DEFINE new == [signal[t] EXCEPT !.tx = "landed"]
           run == signal[t].run
           commit == [salt |-> t, score |-> signal[t].score]
           account == [chain[run] EXCEPT !.commit = commit]
<1>1. /\ signal' = [signal EXCEPT ![t] = new] /\ signal[t].tx = "sent"
      /\ chain' = [chain EXCEPT ![run] = account] /\ chain[run].commit = None
      /\ UNCHANGED <<clock, feedback, salts, reveal, exposed>>
      /\ signal \in [Signals -> Rating] /\ SignalInv(t) /\ chain \in [Runs -> Account]
  BY DEF CommitLands, CommitTaken, DeskInv, DeskTypeOK
<1>2. /\ new \in Rating /\ new.at = signal[t].at /\ new.run = run
      /\ new.score = signal[t].score /\ new.id = signal[t].id /\ new.tx = "landed"
      /\ Taken(t) /\ run \in Runs /\ signal[t].score \in Scores /\ signal[t].id \in Nat
      /\ new.at \in {"commit", "threw", "lost"}
  BY <1>1 DEF Rating, SignalInv, Taken, Transaction
<1>3. commit \in Commitment /\ commit.salt = t /\ commit.score = signal[t].score
  BY <1>2 DEF Commitment
<1>4. account \in Account /\ account.commit = commit /\ account.scored = chain[run].scored
  <2> HIDE DEF commit
  <2>1. chain[run] \in Account
    BY <1>1, <1>2
  <2> QED  BY <1>3, <2>1 DEF Account
<1>5. commit # None
  BY <1>3, ScoreAssumption
<1> HIDE DEF new, run, account
<1>6. /\ signal' \in [Signals -> Rating] /\ signal'[t] = new
      /\ \A s \in Signals \ {t} : signal'[s] = signal[s]
  BY <1>1, <1>2
<1>7. /\ chain' \in [Runs -> Account] /\ chain'[run].commit = commit
      /\ \A r \in Runs : chain'[r].scored = chain[r].scored
      /\ \A r \in Runs : r # run => chain'[r].commit = chain[r].commit
  BY <1>1, <1>2, <1>4
<1>8. \A s \in Signals : signal[s].tx = "landed" => signal[s].run # run
  <2> TAKE s \in Signals
  <2> HAVE signal[s].tx = "landed"
  <2>1. signal[s].score \in Scores /\ chain[signal[s].run].commit = [salt |-> s, score |-> signal[s].score]
    BY DEF DeskInv, SignalInv
  <2>2. [salt |-> s, score |-> signal[s].score] \in Commitment
    BY <2>1 DEF Commitment
  <2> QED  BY <1>1, <2>1, <2>2, ScoreAssumption
<1>9. ASSUME NEW file \in File, Opens(file, run) PROVE file[run] = None
  <2> SUFFICES ASSUME file[run] # None PROVE FALSE
    OBVIOUS
  <2>1. file[run] \in Entry
    BY <1>2 DEF File
  <2>2. [salt |-> file[run].salt, score |-> file[run].score] \in Commitment
    BY <2>1 DEF Entry, Commitment
  <2> QED  BY <1>1, <1>9, <2>2, ScoreAssumption DEF Opens
<1>10. ASSUME NEW s \in Signals PROVE SignalInv(s)'
  <2>1. CASE s = t
    <3>1. signal'[t].run = run /\ chain'[run].commit = [salt |-> t, score |-> signal'[t].score]
      BY <1>2, <1>6, <1>7
    <3> QED  BY <1>1, <1>2, <1>6, <2>1, <3>1 DEF SignalInv, Taken
  <2>2. CASE s # t
    <3>1. SignalInv(s) /\ signal'[s] = signal[s]
      BY <1>6, <2>2 DEF DeskInv
    <3>2. signal[s].tx = "landed" => signal[s].run \in Runs
      BY <3>1 DEF SignalInv
    <3> QED  BY <1>7, <1>8, <3>1, <3>2 DEF SignalInv, Taken
  <2> QED  BY <2>1, <2>2
<1>11. \A r \in Runs : chain[r].commit # None => chain[r].commit.salt \in Signals
  BY CommitTypes DEF DeskInv
<1>12. ASSUME NEW r \in Runs PROVE ChainInv(r)' /\ Opens(salts, r)'
  <2>1. ChainInv(r) /\ Opens(salts, r) /\ salts \in File
    BY DEF DeskInv, DeskTypeOK
  <2>2. CASE r = run
    BY <1>1, <1>2, <1>3, <1>6, <1>7, <1>9, <2>1, <2>2 DEF ChainInv, Opens
  <2>3. CASE r # run
    <3>1. chain'[r].commit = chain[r].commit /\ chain'[r].scored = chain[r].scored
      BY <1>7, <2>3
    <3>2. chain[r].commit # None => chain[r].commit.salt # t
      BY <2>1, <2>3 DEF ChainInv, run
    <3>3. ChainInv(r)'
      BY <1>6, <1>11, <2>1, <3>1, <3>2 DEF ChainInv
    <3>4. Opens(salts, r)'
      BY <1>1, <2>1, <3>1 DEF Opens
    <3> QED  BY <3>3, <3>4
  <2> QED  BY <2>2, <2>3
<1>13. ASSUME NEW v \in Reveals PROVE RevealInv(v)'
  <2>1. RevealInv(v) /\ (v \in Awaiting' <=> v \in Awaiting) /\ (RevealDone(v)' <=> RevealDone(v))
    BY <1>1 DEF DeskInv, Awaiting, RevealDone
  <2>2. ASSUME v \in Awaiting, NEW r \in Runs PROVE Opens(reveal[v].held, r)'
    <3>1. Opens(reveal[v].held, r) /\ reveal[v].held \in File
      BY <2>1, <2>2 DEF RevealInv
    <3>2. CASE r = run
      BY <1>1, <1>9, <3>1, <3>2 DEF Opens
    <3>3. CASE r # run
      BY <1>1, <1>7, <3>1, <3>3 DEF Opens
    <3> QED  BY <3>2, <3>3
  <2> QED  BY <1>1, <1>7, <2>1, <2>2 DEF RevealInv, Unrevealed
<1>14. CommitmentsOpenable'
  <2> SUFFICES ASSUME NEW r \in Runs, chain'[r].commit # None, salts[r] = None, r \notin exposed
               PROVE  signal'[chain'[r].commit.salt].at \in {"commit", "threw", "lost"}
    BY <1>1 DEF CommitmentsOpenable
  <2>1. CASE r = run
    BY <1>2, <1>3, <1>6, <1>7, <2>1
  <2>2. CASE r # run
    <3>1. chain'[r].commit = chain[r].commit
      BY <1>7, <2>2
    <3>2. /\ chain[r].commit.salt \in Signals
          /\ signal[chain[r].commit.salt].at \in {"commit", "threw", "lost"}
      BY <1>11, <3>1 DEF DeskInv, CommitmentsOpenable
    <3> QED  BY <1>2, <1>6, <3>1, <3>2
  <2> QED  BY <2>1, <2>2
<1>15. RecordsInv' /\ FeedbackKept'
  <2>1. \A s \in Signals :
              /\ Taken(s)' <=> Taken(s)
              /\ signal'[s].id = signal[s].id
              /\ signal'[s].at = "done" =>
                    signal[s].at = "done" /\ signal'[s].tx = signal[s].tx
              /\ signal[s].tx = "landed" => signal'[s].tx = "landed"
    BY <1>2, <1>6 DEF Taken
  <2> QED  BY <1>1, <2>1, RecordsKept
<1>16. clock' \in Nat /\ feedback' \in Seq(Feedback) /\ salts' \in File /\ reveal' \in [Reveals -> Opening]
  BY <1>1 DEF DeskInv, DeskTypeOK
<1> QED  BY <1>6, <1>7, <1>10, <1>12, <1>13, <1>14, <1>15, <1>16 DEF DeskInv, DeskTypeOK

\* A step of one reveal that leaves the signals, their records and the
\* commitments alone, and the file too.
LEMMA OneReveal ==
    ASSUME DeskInv, NEW v \in Reveals, NEW new \in Opening,
           reveal' = [reveal EXCEPT ![v] = new],
           UNCHANGED <<clock, feedback, salts, signal, exposed>>,
           chain' \in [Runs -> Account],
           \A r \in Runs : /\ chain'[r].commit = chain[r].commit
                           /\ chain[r].scored => chain'[r].scored,
           RevealInv(v)'
    PROVE  DeskInv'
<1>1. /\ reveal' \in [Reveals -> Opening]
      /\ \A u \in Reveals : u # v => reveal'[u] = reveal[u]
  BY DEF DeskInv, DeskTypeOK
<1>2. DeskTypeOK'
  BY <1>1 DEF DeskInv, DeskTypeOK
<1>3. ASSUME NEW s \in Signals PROVE SignalInv(s)'
  BY DEF DeskInv, SignalInv, Taken
<1>4. ASSUME NEW r \in Runs PROVE ChainInv(r)' /\ Opens(salts, r)'
  BY DEF DeskInv, ChainInv, Opens
<1>5. ASSUME NEW u \in Reveals PROVE RevealInv(u)'
  <2>1. CASE u # v
    <3>1. RevealInv(u) /\ reveal'[u] = reveal[u]
      BY <1>1, <2>1 DEF DeskInv
    <3> QED  BY <3>1 DEF RevealInv, Awaiting, RevealDone, Unrevealed, Opens
  <2> QED  BY <2>1
<1>6. CommitmentsOpenable'
  BY DEF DeskInv, CommitmentsOpenable
<1>7. RecordsInv' /\ FeedbackKept'
  BY RecordsKept DEF Taken
<1> QED  BY <1>2, <1>3, <1>4, <1>5, <1>6, <1>7 DEF DeskInv

LEMMA RevealStartsStep ==
    ASSUME DeskInv, NEW v \in Reveals, NEW r \in Runs, RevealStarts(v, r)
    PROVE  DeskInv'
<1> DEFINE opens == [salt |-> salts[r].salt, score |-> salts[r].score]
           new == [at |-> "reveal", run |-> r, held |-> salts, tx |-> "sent", opens |-> opens]
<1>1. /\ reveal' = [reveal EXCEPT ![v] = new] /\ Unrevealed(r, salts)
      /\ UNCHANGED <<clock, feedback, salts, signal, chain, exposed>>
      /\ reveal \in [Reveals -> Opening] /\ salts \in File /\ chain \in [Runs -> Account]
  BY DEF RevealStarts, DeskInv, DeskTypeOK
<1>2. /\ new \in Opening /\ new.run = r /\ new.held = salts /\ new.tx = "sent"
  <2>1. salts[r] \in Entry
    BY <1>1 DEF File, Unrevealed
  <2>2. opens \in Commitment
    BY <2>1 DEF Entry, Commitment
  <2> HIDE DEF opens
  <2> QED  BY <1>1, <2>2 DEF Opening, Transaction
<1> HIDE DEF new
<1>3. reveal'[v] = new
  BY <1>1
<1>4. \A q \in Runs : Opens(salts, q)
  BY DEF DeskInv
<1>5. RevealInv(v)'
  <2>1. \A q \in Runs : Opens(reveal[v].held, q)'
    BY <1>1, <1>2, <1>3, <1>4 DEF Opens
  <2> QED  BY <1>1, <1>2, <1>3, <2>1 DEF RevealInv, RevealDone, Unrevealed
<1> QED  BY <1>1, <1>2, <1>5, OneReveal

\* A reveal that ends without the chain's answer.
LEMMA RevealThrowsStep ==
    ASSUME DeskInv, NEW v \in Reveals, RevealThrows(v)
    PROVE  DeskInv'
<1> DEFINE new == [reveal[v] EXCEPT !.at = "threw", !.held = None]
<1>1. /\ reveal' = [reveal EXCEPT ![v] = new]
      /\ UNCHANGED <<clock, feedback, salts, signal, chain, exposed>>
      /\ reveal \in [Reveals -> Opening] /\ chain \in [Runs -> Account]
  BY DEF RevealThrows, DeskInv, DeskTypeOK
<1>2. /\ new \in Opening /\ new.at = "threw"
      /\ new.tx = reveal[v].tx /\ new.run = reveal[v].run
  BY <1>1 DEF Opening
<1> HIDE DEF new
<1>3. v \notin Awaiting' /\ reveal'[v] = new
  BY <1>1, <1>2 DEF Awaiting
<1>4. RevealInv(v)'
  BY <1>2, <1>3 DEF DeskInv, RevealInv
<1> QED  BY <1>1, <1>2, <1>4, OneReveal

\* The chain takes the score.
LEMMA RevealLandsStep ==
    ASSUME DeskInv, NEW v \in Reveals, RevealLands(v)
    PROVE  DeskInv'
<1> DEFINE new == [reveal[v] EXCEPT !.tx = "landed"]
           run == reveal[v].run
           account == [chain[run] EXCEPT !.scored = TRUE]
<1>1. /\ reveal' = [reveal EXCEPT ![v] = new] /\ chain' = [chain EXCEPT ![run] = account]
      /\ UNCHANGED <<clock, feedback, salts, signal, exposed>>
      /\ reveal \in [Reveals -> Opening] /\ chain \in [Runs -> Account]
      /\ RevealInv(v) /\ reveal[v].tx = "sent"
  BY DEF RevealLands, DeskInv, DeskTypeOK
<1>2. /\ new \in Opening /\ new.run = run /\ new.held = reveal[v].held
      /\ new.at = reveal[v].at /\ run \in Runs
  BY <1>1 DEF Opening, Transaction, RevealInv
<1>3. account \in Account /\ account.commit = chain[run].commit /\ account.scored
  BY <1>1, <1>2 DEF Account
<1> HIDE DEF new, run, account
<1>4. reveal'[v] = new
  BY <1>1
<1>5. /\ chain' \in [Runs -> Account] /\ chain'[run].scored
      /\ \A r \in Runs : /\ chain'[r].commit = chain[r].commit
                         /\ chain[r].scored => chain'[r].scored
  BY <1>1, <1>2, <1>3
<1>6. RevealInv(v)'
  <2>1. v \in Awaiting' => v \in Awaiting
    BY <1>2, <1>4 DEF Awaiting
  <2>2. v \in Awaiting => \A q \in Runs : Opens(reveal[v].held, q)'
    BY <1>1, <1>2, <1>4, <1>5 DEF RevealInv, Opens
  <2> QED  BY <1>1, <1>2, <1>4, <1>5, <2>1, <2>2 DEF RevealInv, Unrevealed, run
<1> QED  BY <1>1, <1>2, <1>5, <1>6, OneReveal

\* The file is written back, as it was read but for the reveal.
LEMMA RevealConfirmedStep ==
    ASSUME DeskInv, NEW v \in Reveals, RevealConfirmed(v)
    PROVE  DeskInv'
<1> DEFINE new == [reveal[v] EXCEPT !.at = "done", !.held = None]
           run == reveal[v].run
           held == reveal[v].held
           entry == [held[run] EXCEPT !.revealed = TRUE]
<1>1. /\ reveal' = [reveal EXCEPT ![v] = new] /\ salts' = [held EXCEPT ![run] = entry]
      /\ UNCHANGED <<clock, feedback, signal, chain, exposed>>
      /\ reveal \in [Reveals -> Opening] /\ chain \in [Runs -> Account]
      /\ v \in Awaiting /\ RevealInv(v) /\ RevealDone(v)
  BY DEF RevealConfirmed, Marked, DeskInv, DeskTypeOK, Awaiting
<1>2. /\ new \in Opening /\ new.at = "done" /\ new.run = run
      /\ held \in File /\ run \in Runs /\ held[run] # None /\ chain[run].scored
      /\ \A r \in Runs : Opens(held, r) /\ (r \notin exposed => (held[r] = None <=> salts[r] = None))
  BY <1>1 DEF Opening, RevealInv, Unrevealed
<1>3. /\ entry \in Entry /\ entry.salt = held[run].salt /\ entry.score = held[run].score
  <2>1. held[run] \in Entry
    BY <1>2 DEF File
  <2> HIDE DEF held, run
  <2> QED  BY <2>1 DEF Entry
<1> HIDE DEF new, run, held, entry
<1>4. entry # None
  BY <1>3, ScoreAssumption
<1>5. /\ salts' \in File /\ salts'[run] = entry
      /\ \A r \in Runs \ {run} : salts'[r] = held[r]
  BY <1>1, <1>2, <1>3 DEF File
<1>6. /\ reveal' \in [Reveals -> Opening] /\ v \notin Awaiting' /\ reveal'[v].run \in Runs
      /\ \A u \in Reveals \ {v} : reveal'[u] = reveal[u]
  BY <1>1, <1>2 DEF Awaiting
<1>7. \A r \in Runs : r \notin exposed => (salts'[r] = None <=> salts[r] = None)
  BY <1>2, <1>4, <1>5
<1>8. ASSUME NEW s \in Signals PROVE SignalInv(s)'
  BY <1>1 DEF DeskInv, SignalInv, Taken
<1>9. ASSUME NEW r \in Runs PROVE ChainInv(r)' /\ Opens(salts, r)'
  <2>1. ChainInv(r)'
    BY <1>1 DEF DeskInv, ChainInv
  <2>2. Opens(salts, r)'
    BY <1>1, <1>2, <1>3, <1>5 DEF Opens
  <2> QED  BY <2>1, <2>2
<1>10. ASSUME NEW u \in Reveals PROVE RevealInv(u)'
  <2> SUFFICES ASSUME u # v PROVE RevealInv(u)'
    BY <1>6 DEF RevealInv
  <2>1. RevealInv(u) /\ (u \in Awaiting' <=> u \in Awaiting) /\ reveal'[u] = reveal[u]
    BY <1>6 DEF DeskInv, Awaiting
  <2> QED  BY <1>1, <1>7, <2>1 DEF RevealInv, RevealDone, Unrevealed, Opens
<1>11. CommitmentsOpenable'
  BY <1>1, <1>7 DEF DeskInv, CommitmentsOpenable
<1>12. RecordsInv' /\ FeedbackKept'
  BY <1>1, RecordsKept DEF Taken
<1>13. DeskTypeOK'
  BY <1>1, <1>5, <1>6 DEF DeskInv, DeskTypeOK
<1> QED  BY <1>8, <1>9, <1>10, <1>11, <1>12, <1>13 DEF DeskInv

LEMMA DropStep ==
    ASSUME DeskInv, Drop
    PROVE  DeskInv'
<1>1. UNCHANGED <<clock, feedback, counted, salts, chain, exposed>>
  BY DEF Drop
<1>2. ASSUME NEW t \in Signals, signal[t].tx = "sent", UNCHANGED reveal,
             signal' = [signal EXCEPT ![t].tx = "dropped"]
      PROVE  DeskInv'
  <2> DEFINE new == [signal[t] EXCEPT !.tx = "dropped"]
  <2>1. signal \in [Signals -> Rating] /\ SignalInv(t) /\ signal' = [signal EXCEPT ![t] = new]
    BY <1>2 DEF DeskInv, DeskTypeOK
  <2>2. /\ new \in Rating /\ new.at = signal[t].at /\ new.run = signal[t].run
        /\ new.score = signal[t].score /\ new.id = signal[t].id /\ new.tx = "dropped"
        /\ Taken(t) /\ signal[t].at # "done"
    BY <1>2, <2>1 DEF Rating, Transaction, SignalInv
  <2> HIDE DEF new
  <2>3. signal'[t] = new /\ \A s \in Signals \ {t} : signal'[s] = signal[s]
    BY <2>1
  <2>4. SignalInv(t)'
    BY <2>1, <2>2, <2>3 DEF SignalInv, Taken
  <2>5. SaltsInv' /\ signal' \in [Signals -> Rating]
    BY <1>1, <1>2, <2>1, <2>2, <2>4, OneSignal
  <2>6. RecordsInv' /\ FeedbackKept'
    <3>1. \A s \in Signals :
              /\ Taken(s)' <=> Taken(s)
              /\ signal'[s].id = signal[s].id
              /\ signal'[s].at = "done" =>
                    signal[s].at = "done" /\ signal'[s].tx = signal[s].tx
              /\ signal[s].tx = "landed" => signal'[s].tx = "landed"
      BY <1>2, <2>2, <2>3 DEF Taken
    <3> QED  BY <1>1, <3>1, RecordsKept
  <2> QED  BY <1>1, <1>2, <2>5, <2>6 DEF DeskInv, DeskTypeOK, SaltsInv
<1>3. ASSUME NEW v \in Reveals, reveal[v].tx = "sent", UNCHANGED signal,
             reveal' = [reveal EXCEPT ![v].tx = "dropped"]
      PROVE  DeskInv'
  <2> DEFINE new == [reveal[v] EXCEPT !.tx = "dropped"]
  <2>1. /\ reveal \in [Reveals -> Opening] /\ RevealInv(v)
        /\ chain \in [Runs -> Account] /\ reveal' = [reveal EXCEPT ![v] = new]
    BY <1>3 DEF DeskInv, DeskTypeOK
  <2>2. /\ new \in Opening /\ new.run = reveal[v].run /\ new.held = reveal[v].held
        /\ new.tx = "dropped" /\ new.at = reveal[v].at
    BY <2>1 DEF Opening, Transaction
  <2> HIDE DEF new
  <2>3. reveal'[v] = new /\ (v \in Awaiting' => v \in Awaiting)
    BY <2>1, <2>2 DEF Awaiting
  <2>4. RevealInv(v)'
    BY <1>1, <1>3, <2>1, <2>2, <2>3 DEF RevealInv, RevealDone, Unrevealed, Opens
  <2> QED  BY <1>1, <1>3, <2>1, <2>2, <2>4, OneReveal
<1> QED  BY <1>2, <1>3 DEF Drop

\* Nothing of the operator's changes.
LEMMA OthersStep ==
    ASSUME DeskInv, Tick \/ \E r \in Runs : OtherParty(r)
    PROVE  DeskInv'
<1>1. /\ UNCHANGED <<feedback, salts, signal, reveal, exposed>> /\ clock' \in Nat
      /\ chain' \in [Runs -> Account]
      /\ \A r \in Runs : chain'[r].commit = chain[r].commit /\ chain'[r].scored = chain[r].scored
  <2>1. CASE Tick
    BY <2>1 DEF Tick, DeskInv, DeskTypeOK
  <2>2. ASSUME NEW r \in Runs, OtherParty(r)
        PROVE  /\ UNCHANGED <<clock, feedback, salts, signal, reveal, exposed>>
               /\ \E other \in {"committed", "scored", "expired"} :
                     chain' = [chain EXCEPT ![r].other = other]
    BY <2>2 DEF OtherParty
  <2>3. ASSUME NEW r \in Runs, NEW other \in {"committed", "scored", "expired"},
               chain' = [chain EXCEPT ![r].other = other]
        PROVE  /\ chain' \in [Runs -> Account]
               /\ \A q \in Runs : chain'[q].commit = chain[q].commit
                                  /\ chain'[q].scored = chain[q].scored
    <3> DEFINE new == [chain[r] EXCEPT !.other = other]
    <3>1. chain \in [Runs -> Account]
      BY DEF DeskInv, DeskTypeOK
    <3>2. new \in Account /\ new.commit = chain[r].commit /\ new.scored = chain[r].scored
      BY <3>1 DEF Account
    <3>3. chain' = [chain EXCEPT ![r] = new]
      BY <2>3, <3>1
    <3> HIDE DEF new
    <3> QED  BY <3>1, <3>2, <3>3
  <2>4. clock \in Nat
    BY DEF DeskInv, DeskTypeOK
  <2> QED  BY <2>1, <2>2, <2>3, <2>4
<1>2. \A s \in Signals : SignalInv(s)'
  BY <1>1 DEF DeskInv, SignalInv, Taken
<1>3. SaltsInv'
  BY <1>1, <1>2, SaltsKept DEF Awaiting, RevealDone
<1>4. RecordsInv' /\ FeedbackKept'
  BY <1>1, RecordsKept DEF Taken
<1> QED  BY <1>1, <1>3, <1>4 DEF DeskInv, DeskTypeOK, SaltsInv

LEMMA DeskCrashStep ==
    ASSUME DeskInv, DeskCrash
    PROVE  DeskInv'
<1>1. /\ UNCHANGED <<clock, feedback, salts, chain, exposed>>
      /\ signal \in [Signals -> Rating] /\ reveal \in [Reveals -> Opening]
  BY DEF DeskCrash, DeskInv, DeskTypeOK
<1>2. ASSUME NEW s \in Signals
      PROVE  /\ signal'[s] \in Rating /\ signal'[s].id = signal[s].id
             /\ signal'[s].tx = signal[s].tx /\ signal'[s].run = signal[s].run
             /\ signal'[s].score = signal[s].score
             /\ signal'[s].at = IF signal[s].at = "commit" THEN "lost" ELSE signal[s].at
  BY <1>1 DEF DeskCrash, Rating
<1>3. ASSUME NEW v \in Reveals
      PROVE  /\ reveal'[v] \in Opening /\ v \notin Awaiting'
             /\ reveal'[v].tx = reveal[v].tx /\ reveal'[v].run = reveal[v].run
  BY <1>1 DEF DeskCrash, Opening, Awaiting
<1>4. DeskTypeOK'
  <2>1. signal' \in [Signals -> Rating]
    BY <1>2 DEF DeskCrash
  <2>2. reveal' \in [Reveals -> Opening]
    BY <1>3 DEF DeskCrash
  <2> QED  BY <1>1, <2>1, <2>2 DEF DeskInv, DeskTypeOK
<1>5. \A s \in Signals : SignalInv(s)'
  BY <1>1, <1>2 DEF DeskInv, SignalInv, Taken
<1>6. SaltsInv'
  BY <1>1, <1>2, <1>3, <1>5, SaltsKept
<1>7. RecordsInv' /\ FeedbackKept'
  BY <1>1, <1>2, RecordsKept DEF Taken
<1> QED  BY <1>4, <1>6, <1>7 DEF DeskInv, SaltsInv

LEMMA DeskInitInv ==
    ASSUME NEW come, DeskInit(come)
    PROVE  DeskInv
<1> USE DEF DeskInit
<1>1. \A s \in Signals : ~Taken(s)
  BY DEF Taken
<1>2. Awaiting = {}
  BY DEF Awaiting
<1>3. DeskTypeOK
  BY DEF DeskTypeOK, Rating, Opening, Account, File, Transaction
<1>4. /\ \A s \in Signals : SignalInv(s)
      /\ \A r \in Runs : ChainInv(r) /\ Opens(salts, r)
      /\ \A v \in Reveals : RevealInv(v)
      /\ CommitmentsOpenable
  BY <1>1, <1>2 DEF SignalInv, ChainInv, Opens, RevealInv, CommitmentsOpenable
<1>5. RecordsInv /\ FeedbackKept
  BY <1>1 DEF RecordsInv, FeedbackKept
<1> QED  BY <1>3, <1>4, <1>5 DEF DeskInv

\* Salts, commitments and records over any step of the server.
THEOREM DeskInvariant == Spec => []DeskInv
<1>1. Init => DeskInv
  BY DeskInitInv DEF Init
<1>2. DeskInv /\ [Next]_vars => DeskInv'
  <2> SUFFICES ASSUME DeskInv, [Next]_vars PROVE DeskInv'
    OBVIOUS
  <2>1. CASE UNCHANGED deskVars
    BY <2>1 DEF deskVars, DeskInv, DeskTypeOK, SignalInv, ChainInv, Opens, RevealInv,
       CommitmentsOpenable, RecordsInv, FeedbackKept, Awaiting, Unrevealed, RevealDone, Taken
  <2>2. CASE DeskStep
    BY <2>2, DropStep, OthersStep, SignalStep, CommitConfirmedStep, CommitThrowsStep,
       CommitLandsStep, RevealStartsStep, RevealConfirmedStep, RevealThrowsStep, RevealLandsStep
       DEF DeskStep
  <2>3. CASE DeskCrash
    BY <2>3, DeskCrashStep
  <2> QED  BY <2>1, <2>2, <2>3 DEF Next, Crash, vars
<1> QED  BY <1>1, <1>2, PTL DEF Spec

\* What the file says opens the commitment on chain.
THEOREM SaltsHold == Spec => []SaltsOpen
<1>1. DeskInv => SaltsOpen
  BY DEF DeskInv, SaltsOpen, Opens
<1> QED  BY <1>1, DeskInvariant, PTL

\* A commitment on chain can be opened from the file, but for the three ways
\* to lose its salt.
THEOREM CommitmentsHold == Spec => []CommitmentsOpenable
<1>1. DeskInv => CommitmentsOpenable
  BY DEF DeskInv
<1> QED  BY <1>1, DeskInvariant, PTL

\* A signal with an id of its own has one record with its outcome.
THEOREM FeedbackHolds == Spec => []FeedbackKept
<1>1. DeskInv => FeedbackKept
  BY DEF DeskInv
<1> QED  BY <1>1, DeskInvariant, PTL

-----------------------------------------------------------------------------
(* The endpoint profile. *)

Token == Rotations \cup {NoProfile}
EndpointTypeOK ==
    /\ profile \in [token : Token, online : BOOLEAN] \cup {NoProfile}
    /\ request \in [Requests ->
                      [at : {"absent", "new", "runtime", "proxy", "tunnel", "done", "lost"},
                       token : Token, localOk : BOOLEAN]]
    /\ newest \in Token

\* Requests that probe side by side have met; the newest rotation, unless it
\* met one, probes alone and is followed by requests with its token only.
EndpointInv ==
    /\ EndpointTypeOK
    /\ \A p, q \in Requests : Probing(p) /\ Probing(q) => p = q \/ p \in met
    /\ newest # NoProfile =>
          /\ request[newest].at \notin {"absent", "new"}
          /\ newest \notin met =>
                /\ Probing(newest) => request[newest].token = newest
                /\ request[newest].at = "done" =>
                      /\ profile.token = newest
                      /\ \A q \in Requests : Probing(q) => request[q].token = newest

LEMMA EndpointInitInv ==
    ASSUME NEW come, EndpointInit(come)
    PROVE  EndpointInv
BY DEF EndpointInit, EndpointInv, EndpointTypeOK, Token, Probing

\* A request starts, with the newest token.
LEMMA StartStep ==
    ASSUME EndpointInv, NEW q \in Requests, NEW token \in Token, Start(q, token),
           \/ q \in Rotations /\ token = q /\ newest' = q
           \/ token = profile.token /\ newest' = newest,
           UNCHANGED profile
    PROVE  EndpointInv'
<1> DEFINE running == {p \in Requests : Probing(p)}
<1>1. EndpointTypeOK'
  BY DEF Start, EndpointInv, EndpointTypeOK, Token
<1>2. /\ request[q].at = "new"
      /\ request'[q].at = "runtime" /\ request'[q].token = token
      /\ \A p \in Requests \ {q} : request'[p] = request[p]
      /\ \A p \in Requests : Probing(p)' <=> p = q \/ p \in running
      /\ q \notin running
  BY DEF Start, EndpointInv, EndpointTypeOK, Probing
<1>3. met' = IF running = {} THEN met ELSE met \cup running \cup {q}
  BY DEF Start
<1> HIDE DEF running
<1>4. \A p, r \in Requests : Probing(p)' /\ Probing(r)' => p = r \/ p \in met'
  BY <1>2, <1>3
<1>5. newest' \in Requests \cup {NoProfile}
  BY <1>1 DEF EndpointTypeOK, Token, Requests
<1>6. ASSUME newest' # NoProfile
      PROVE  /\ request'[newest'].at \notin {"absent", "new"}
             /\ newest' \notin met' =>
                  /\ Probing(newest)' => request'[newest'].token = newest'
                  /\ request'[newest'].at = "done" =>
                        /\ profile'.token = newest'
                        /\ \A r \in Requests : Probing(r)' => request'[r].token = newest'
  <2>1. CASE newest' = q /\ token = q
    BY <1>2, <2>1
  <2>2. CASE token = profile.token /\ newest' = newest /\ newest # q
    BY <1>2, <1>3, <1>5, <1>6, <2>2 DEF EndpointInv, running, Probing
  <2>3. newest = q => newest = NoProfile
    BY <1>2 DEF EndpointInv
  <2> QED  BY <1>6, <2>1, <2>2, <2>3
<1> QED  BY <1>1, <1>4, <1>6 DEF EndpointInv

\* A request moves on, to its next probe or to its end.
LEMMA ProbeStep ==
    ASSUME EndpointInv, NEW q \in Requests,
           ProbeRuntime(q) \/ ProbeProxy(q) \/ Write(q)
    PROVE  EndpointInv'
<1>1. /\ EndpointTypeOK' /\ UNCHANGED <<newest, met>> /\ Probing(q)
      /\ request'[q].token = request[q].token
      /\ request'[q].at \in {"proxy", "tunnel", "done"}
      /\ request'[q].at = "done" => profile'.token = request[q].token
      /\ request'[q].at # "done" => profile' = profile
      /\ \A p \in Requests \ {q} : request'[p] = request[p]
  BY DEF ProbeRuntime, ProbeProxy, Write, Probing, EndpointInv, EndpointTypeOK
<1>2. \A p \in Requests : Probing(p)' => Probing(p)
  BY <1>1 DEF Probing
<1>3. newest \in Requests \cup {NoProfile}
  BY DEF EndpointInv, EndpointTypeOK, Token, Requests
<1>4. ASSUME newest # NoProfile
      PROVE  /\ request'[newest].at \notin {"absent", "new"}
             /\ newest \notin met =>
                  /\ Probing(newest)' => request'[newest].token = newest
                  /\ request'[newest].at = "done" =>
                        /\ profile'.token = newest
                        /\ \A r \in Requests : Probing(r)' => request'[r].token = newest
  <2>1. CASE newest = q
    <3>1. newest \notin met => \A r \in Requests : Probing(r) => r = q
      BY <1>1, <2>1 DEF EndpointInv
    <3> QED  BY <1>1, <1>2, <1>4, <2>1, <3>1 DEF EndpointInv, Probing
  <2>2. CASE newest # q
    BY <1>1, <1>2, <1>3, <1>4, <2>2 DEF EndpointInv, Probing
  <2> QED  BY <2>1, <2>2
<1> QED  BY <1>1, <1>2, <1>4 DEF EndpointInv

\* The profile of the endpoint over any step of the server.
THEOREM EndpointInvariant == Spec => []EndpointInv
<1>1. Init => EndpointInv
  BY EndpointInitInv DEF Init
<1>2. EndpointInv /\ [Next]_vars => EndpointInv'
  <2> SUFFICES ASSUME EndpointInv, [Next]_vars PROVE EndpointInv'
    OBVIOUS
  <2>1. CASE UNCHANGED endpointVars
    BY <2>1 DEF endpointVars, EndpointInv, EndpointTypeOK, Probing
  <2>2. ASSUME NEW q \in Requests,
               Rotate(q) \/ Heartbeat(q) \/ ProbeRuntime(q) \/ ProbeProxy(q) \/ Write(q)
        PROVE  EndpointInv'
    <3>1. CASE Rotate(q)
      BY <3>1, StartStep DEF Rotate, Token
    <3>2. CASE Heartbeat(q)
      <4>1. profile.token \in Token
        BY <3>2 DEF Heartbeat, EndpointInv, EndpointTypeOK
      <4> QED  BY <3>2, <4>1, StartStep DEF Heartbeat, HeldToken
    <3> QED  BY <2>2, <3>1, <3>2, ProbeStep
  <2>3. CASE EndpointCrash
    <3>1. /\ UNCHANGED <<profile, newest, met>>
          /\ \A q \in Requests :
                /\ ~Probing(q)' /\ request'[q].token = request[q].token
                /\ request'[q].at = IF Probing(q) THEN "lost" ELSE request[q].at
      BY <2>3 DEF EndpointCrash, EndpointInv, EndpointTypeOK, Probing
    <3>2. EndpointTypeOK'
      BY <2>3 DEF EndpointCrash, EndpointInv, EndpointTypeOK
    <3>3. newest \in Requests \cup {NoProfile}
      BY DEF EndpointInv, EndpointTypeOK, Token, Requests
    <3> QED  BY <3>1, <3>2, <3>3 DEF EndpointInv, Probing
  <2> QED  BY <2>1, <2>2, <2>3 DEF Next, EndpointStep, Crash, vars
<1> QED  BY <1>1, <1>2, PTL DEF Spec

\* The profile names the token issued last, unless its rotation met another
\* request.
THEOREM TokenHolds == Spec => []NewestTokenKept
<1>1. EndpointInv => NewestTokenKept
  BY DEF EndpointInv, NewestTokenKept
<1> QED  BY <1>1, EndpointInvariant, PTL
=============================================================================
