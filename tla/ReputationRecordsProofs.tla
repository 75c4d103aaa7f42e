----------------------- MODULE ReputationRecordsProofs ----------------------
(* What the counters and the reputation of an AgentAccount owe to final      *)
(* ratings and attestations: every change has its record, and no record      *)
(* counts twice.                                                             *)
EXTENDS AnchorReputationProofs, FiniteSetTheorems

\* The records that become final for wallet v in a step.
NewlyCompleted(v) == \E j \in CompletedJobs(v)' : j \notin CompletedJobs(v)
NewlyGhosted(v) == \E j \in GhostedJobs(v)' : j \notin GhostedJobs(v)
NewlyConfirmed(v) == \E j \in ConfirmedJobs(v)' : j \notin ConfirmedJobs(v)
NewlyDisputed(v) ==
    \E j \in AttestedJobs : HasAttestation(j) /\ attestation[j].judge = v
        /\ attestation[j].confirmed = "None" /\ attestation'[j].confirmed = "False"

\* A step changes what a wallet's account counts only with such a record.
Unscored(old, new) ==
    /\ new.reputation_score = old.reputation_score
    /\ new.jobs_completed = old.jobs_completed
    /\ new.jobs_failed = old.jobs_failed
    /\ new.attestation_accuracy = old.attestation_accuracy
Caused(v) ==
    LET old == agent[v]
        new == agent'[v]
    IN  \/ Unscored(old, new)
        \/ /\ NewlyCompleted(v)
           /\ new.jobs_completed = old.jobs_completed + 1
           /\ new.jobs_failed = old.jobs_failed
           /\ new.attestation_accuracy = old.attestation_accuracy
        \/ /\ NewlyGhosted(v)
           /\ new.jobs_completed = old.jobs_completed
           /\ new.jobs_failed = old.jobs_failed + 1
           /\ new.attestation_accuracy = old.attestation_accuracy
        \/ /\ NewlyConfirmed(v)
           /\ new.jobs_completed = old.jobs_completed
           /\ new.jobs_failed = old.jobs_failed
           /\ new.attestation_accuracy <= old.attestation_accuracy + ATTESTATION_CONFIRM_WEIGHT
        \/ /\ NewlyDisputed(v)
           /\ new.jobs_completed = old.jobs_completed
           /\ new.jobs_failed = old.jobs_failed
           /\ new.attestation_accuracy = old.attestation_accuracy

Fresh(account) ==
    account.jobs_completed = 0 /\ account.jobs_failed = 0 /\ account.attestation_accuracy = 0

-----------------------------------------------------------------------------
(* The instructions. *)

LEMMA RegistryCauses ==
    ASSUME IInv, RegistryNext, NEW v \in Wallets, IsRegistered(v)'
    PROVE  IF IsRegistered(v) THEN Caused(v) ELSE Fresh(agent'[v])
<1>0. agent \in [Wallets -> AgentAccount \cup {NoAgent}]
  BY DEF IInv, TypeOK, RegistryTypeOK
<1>1. ASSUME NEW w \in Wallets, NEW t \in AgentType, NEW l \in ModelLengths,
             RegisterAgent(w, t, l)
      PROVE  IF IsRegistered(v) THEN Caused(v) ELSE Fresh(agent'[v])
  <2>1. Fresh(FreshAgent(t))
    BY DEF FreshAgent, Fresh
  <2>2. CASE v = w
    BY <1>0, <1>1, <2>1, <2>2 DEF RegisterAgent, IsRegistered
  <2>3. CASE v # w
    BY <1>0, <1>1, <2>3 DEF RegisterAgent, IsRegistered, Caused, Unscored
  <2> QED  BY <2>2, <2>3
<1>2. ASSUME NEW w \in Wallets, NEW b \in BOOLEAN, UpdateAgent(w, b)
      PROVE  IsRegistered(v) /\ Caused(v)
  <2> DEFINE x == [agent[w] EXCEPT !.active = b]
  <2>1. agent[w] \in AgentAccount
    BY <1>0, <1>2 DEF UpdateAgent, IsRegistered
  <2>2. Unscored(agent[w], x)
    BY <2>1 DEF AgentAccount, Unscored
  <2>3. agent' = [agent EXCEPT ![w] = x] /\ IsRegistered(w)
    BY <1>2 DEF UpdateAgent
  <2> HIDE DEF x
  <2> QED  BY <1>0, <2>2, <2>3 DEF Caused, Unscored, IsRegistered
<1>3. ASSUME NEW w \in Wallets, DeregisterAgent(w)
      PROVE  IsRegistered(v) /\ Caused(v)
  BY <1>0, <1>3 DEF DeregisterAgent, IsRegistered, Caused, Unscored
<1> QED  BY <1>1, <1>2, <1>3 DEF RegistryNext

LEMMA RevealCauses ==
    ASSUME IInv, NEW w \in Wallets, NEW j \in RatingJobs, NEW score \in Scores,
           NEW salt \in Salts, RevealRating(w, j, score, salt), NEW v \in Wallets
    PROVE  IsRegistered(v)' => IsRegistered(v) /\ Caused(v)
<1> DEFINE r == rating[j]
           role == IF w = r.party["Consumer"] THEN "Consumer" ELSE "Specialist"
           scored == [r EXCEPT !.score[role] = score]
           both == \A x \in RatingRole : scored.score[x] # NoScore
           p == r.party["Specialist"]
           q == r.party["Consumer"]
<1>0. /\ agent \in [Wallets -> AgentAccount \cup {NoAgent}]
      /\ rating \in [RatingJobs -> RatingAccount \cup {NoRating}]
      /\ NoRating \notin RatingAccount
  BY ReputationConstants DEF IInv, TypeOK, RegistryTypeOK, RatingTypeOK
<1>1. /\ r \in RatingAccount /\ role \in RatingRole /\ AgentsLoad(r) /\ r.state = "BothCommitted"
      /\ agent' = IF both THEN ApplyScores(scored) ELSE agent
      /\ rating' = [rating EXCEPT ![j] = [scored EXCEPT !.state = IF both THEN "Revealed" ELSE @]]
  BY <1>0 DEF RevealRating, CanReveal, RoleOf, HasRating, RatingRole, RevealOpen
<1>2. scored.party = r.party /\ scored \in [party : [RatingRole -> Wallets],
         commitment : [RatingRole -> Commitment], score : [RatingRole -> Scores \cup {NoScore}],
         state : RatingState, created_slot : Slots]
  BY <1>1 DEF RatingAccount, RatingRole
<1>3. /\ p \in Wallets /\ q \in Wallets /\ p # q
      /\ agent[p] \in AgentAccount /\ agent[q] \in AgentAccount
  BY <1>0, <1>1 DEF RatingAccount, RatingRole, AgentsLoad, IsRegistered
<1>4. CASE both
  <2> DEFINE final == [scored EXCEPT !.state = "Revealed"]
             b == Rated(agent[p], scored.score["Consumer"])
             d == Rated(agent[q], scored.score["Specialist"])
  <2>1. /\ rating'[j] = final /\ final.state = "Revealed" /\ final.party = r.party
        /\ final # NoRating
    <3>1. final \in RatingAccount /\ final.state = "Revealed" /\ final.party = r.party
      BY <1>2 DEF RatingAccount, RatingState
    <3>2. rating'[j] = final
      BY <1>0, <1>1, <1>4
    <3> QED  BY <1>0, <3>1, <3>2
  <2> HIDE DEF final
  <2>2. \A u \in {p, q} : j \in CompletedJobs(u)' /\ j \notin CompletedJobs(u)
    BY <1>1, <2>1 DEF CompletedJobs, HasRating, Parties, RatingRole
  <2>3. \A u \in {p, q} : NewlyCompleted(u)
    BY <2>2 DEF NewlyCompleted
  <2>4. agent' = [agent EXCEPT ![p] = b, ![q] = d]
    BY <1>0, <1>1, <1>2, <1>3, <1>4 DEF ApplyScores
  <2>5. /\ b.jobs_completed = agent[p].jobs_completed + 1
        /\ b.jobs_failed = agent[p].jobs_failed
        /\ b.attestation_accuracy = agent[p].attestation_accuracy
        /\ d.jobs_completed = agent[q].jobs_completed + 1
        /\ d.jobs_failed = agent[q].jobs_failed
        /\ d.attestation_accuracy = agent[q].attestation_accuracy
    BY <1>3 DEF Rated, AgentAccount
  <2>6. IsRegistered(p) /\ IsRegistered(q)
    BY <1>3, ReputationConstants DEF IsRegistered
  <2> HIDE DEF b, d, p, q
  <2>7. CASE v = p
    BY <1>0, <1>3, <2>3, <2>4, <2>5, <2>6, <2>7 DEF Caused
  <2>8. CASE v = q
    BY <1>0, <1>3, <2>3, <2>4, <2>5, <2>6, <2>8 DEF Caused
  <2>9. CASE v # p /\ v # q
    BY <1>0, <2>4, <2>9 DEF Caused, Unscored, IsRegistered
  <2> QED  BY <2>7, <2>8, <2>9
<1>5. CASE ~both
  BY <1>1, <1>5 DEF Caused, Unscored, IsRegistered
<1> QED  BY <1>4, <1>5

LEMMA ExpireCauses ==
    ASSUME IInv, NEW w \in Wallets, NEW j \in RatingJobs, ExpireRating(w, j),
           NEW v \in Wallets, IsRegistered(v)'
    PROVE  IsRegistered(v) /\ Caused(v)
<1> DEFINE r == rating[j]
           s == [r EXCEPT !.state = "Expired"]
<1>0. /\ agent \in [Wallets -> AgentAccount \cup {NoAgent}]
      /\ rating \in [RatingJobs -> RatingAccount \cup {NoRating}]
      /\ NoRating \notin RatingAccount /\ NoAgent \notin AgentAccount
  BY ReputationConstants DEF IInv, TypeOK, RegistryTypeOK, RatingTypeOK
<1>1. /\ r \in RatingAccount /\ AgentsLoad(r) /\ r.state = "Pending"
      /\ rating'[j] = s
      /\ agent'[v] = IF \E x \in Ghosts(r) : r.party[x] = v
                     THEN Ghosted(agent[v]) ELSE agent[v]
  BY <1>0 DEF ExpireRating, HasRating
<1>2. CASE \E x \in Ghosts(r) : r.party[x] = v
  <2>1. agent[v] \in AgentAccount /\ IsRegistered(v)
    BY <1>0, <1>1, <1>2 DEF Ghosts, AgentsLoad, IsRegistered
  <2>2. /\ s.state = "Expired" /\ s.party = r.party /\ s.commitment = r.commitment
        /\ s # NoRating
    <3>1. s \in RatingAccount /\ s.state = "Expired" /\ s.party = r.party
            /\ s.commitment = r.commitment
      BY <1>1 DEF RatingAccount, RatingState
    <3> QED  BY <1>0, <3>1
  <2> HIDE DEF s
  <2>3. j \in GhostedJobs(v)' /\ j \notin GhostedJobs(v)
    BY <1>1, <1>2, <2>2 DEF GhostedJobs, HasRating, Ghosts, Committed
  <2>4. NewlyGhosted(v)
    BY <2>3 DEF NewlyGhosted
  <2>5. /\ Ghosted(agent[v]).jobs_completed = agent[v].jobs_completed
        /\ Ghosted(agent[v]).jobs_failed = agent[v].jobs_failed + 1
        /\ Ghosted(agent[v]).attestation_accuracy = agent[v].attestation_accuracy
    BY <2>1 DEF Ghosted, AgentAccount
  <2> QED  BY <1>1, <1>2, <2>1, <2>4, <2>5 DEF Caused
<1>3. CASE ~\E x \in Ghosts(r) : r.party[x] = v
  BY <1>1, <1>3 DEF Caused, Unscored, IsRegistered
<1> QED  BY <1>2, <1>3

LEMMA AccuracyStep ==
    ASSUME NEW old \in 0 .. MAX_SCORE
    PROVE  MoreAccurate(old) <= old + ATTESTATION_CONFIRM_WEIGHT
<1>1. old \in Nat
  BY DEF MAX_SCORE
<1> QED  BY <1>1 DEF MoreAccurate, AtMost, MAX_SCORE, ATTESTATION_CONFIRM_WEIGHT

LEMMA CountersAreNumbers ==
    ASSUME NEW a \in AgentAccount
    PROVE  a.jobs_completed \in Nat /\ a.jobs_failed \in Nat /\ a.attestation_accuracy \in Nat
<1>1. a.jobs_completed \in Nat /\ a.jobs_failed \in Nat /\ a.attestation_accuracy \in 0 .. MAX_SCORE
  BY DEF AgentAccount
<1>2. \A x \in 0 .. MAX_SCORE : x \in Nat
  BY DEF MAX_SCORE
<1> QED  BY <1>1, <1>2

\* An answered attestation moves its judge's account and nobody else's.
LEMMA AttestationCauses ==
    ASSUME IInv, AttestationNext, NEW v \in Wallets, IsRegistered(v)'
    PROVE  IsRegistered(v) /\ Caused(v)
<1>0. /\ agent \in [Wallets -> AgentAccount \cup {NoAgent}]
      /\ attestation \in [AttestedJobs -> AttestationAccount \cup {NoAttestation}]
      /\ NoAgent \notin AgentAccount /\ NoAttestation \notin AttestationAccount
  BY ReputationConstants DEF IInv, TypeOK, RegistryTypeOK, AttestationTypeOK
<1>1. ASSUME NEW w \in Wallets, NEW j \in AttestedJobs, MayResolve(w, j)
      PROVE  /\ attestation[j] \in AttestationAccount /\ attestation[j].confirmed = "None"
             /\ HasAttestation(j)
             /\ attestation[j].judge \in Wallets
             /\ agent[attestation[j].judge] \in AgentAccount
             /\ IsRegistered(attestation[j].judge)
  <2>1. attestation[j] \in AttestationAccount
    BY <1>0, <1>1 DEF MayResolve, HasAttestation
  <2> QED  BY <1>0, <1>1, <2>1 DEF MayResolve, IsRegistered, AttestationAccount
<1>2. ASSUME NEW w \in Wallets, NEW j \in AttestedJobs, ConfirmAttestation(w, j)
      PROVE  IsRegistered(v) /\ Caused(v)
  <2> DEFINE u == attestation[j].judge
             x == MoreAccurate(agent[u].attestation_accuracy)
             y == RollingAverage(agent[u].reputation_score, 10)
             b == [agent[u] EXCEPT !.attestation_accuracy = x, !.reputation_score = y]
             t == [attestation[j] EXCEPT !.confirmed = "True"]
  <2>1. /\ u \in Wallets /\ agent[u] \in AgentAccount /\ IsRegistered(u)
        /\ attestation[j] \in AttestationAccount /\ attestation[j].confirmed = "None"
    BY <1>1, <1>2 DEF ConfirmAttestation
  <2>2. agent' = [agent EXCEPT ![u] = b]
    BY <1>0, <1>2, <2>1 DEF ConfirmAttestation, AgentAccount
  <2>3. attestation'[j] = t
    BY <1>0, <1>2 DEF ConfirmAttestation
  <2>4. t.judge = u /\ t.confirmed = "True" /\ t # NoAttestation
    <3>1. t \in AttestationAccount /\ t.judge = u /\ t.confirmed = "True"
      BY <2>1 DEF AttestationAccount, Confirmed
    <3> QED  BY <1>0, <3>1
  <2> HIDE DEF t
  <2>5. j \in ConfirmedJobs(u)' /\ j \notin ConfirmedJobs(u)
    BY <1>2, <2>1, <2>3, <2>4 DEF ConfirmedJobs, HasAttestation
  <2>6. NewlyConfirmed(u)
    BY <2>5 DEF NewlyConfirmed
  <2>7. x <= agent[u].attestation_accuracy + ATTESTATION_CONFIRM_WEIGHT
    <3>1. agent[u].attestation_accuracy \in 0 .. MAX_SCORE
      BY <2>1 DEF AgentAccount
    <3> QED  BY <3>1, AccuracyStep
  <2>8. /\ b.jobs_completed = agent[u].jobs_completed
        /\ b.jobs_failed = agent[u].jobs_failed
        /\ b.attestation_accuracy = x
    <3> HIDE DEF x, y, u
    <3> QED  BY <2>1 DEF AgentAccount
  <2> HIDE DEF x, b, u
  <2>9. CASE v = u
    <3>1. agent'[v] = b
      BY <1>0, <2>1, <2>2, <2>9
    <3> QED  BY <2>1, <2>6, <2>7, <2>8, <2>9, <3>1 DEF Caused
  <2>10. CASE v # u
    BY <1>0, <2>2, <2>10 DEF Caused, Unscored, IsRegistered
  <2> QED  BY <2>9, <2>10
<1>3. ASSUME NEW w \in Wallets, NEW j \in AttestedJobs, DisputeAttestation(w, j)
      PROVE  IsRegistered(v) /\ Caused(v)
  <2> DEFINE u == attestation[j].judge
             y == Penalised(agent[u].reputation_score)
             b == [agent[u] EXCEPT !.reputation_score = y]
             t == [attestation[j] EXCEPT !.confirmed = "False"]
  <2>1. /\ u \in Wallets /\ agent[u] \in AgentAccount /\ IsRegistered(u) /\ HasAttestation(j)
        /\ attestation[j] \in AttestationAccount /\ attestation[j].confirmed = "None"
    BY <1>1, <1>3 DEF DisputeAttestation
  <2>2. agent' = [agent EXCEPT ![u] = b] /\ attestation'[j] = t
    BY <1>0, <1>3 DEF DisputeAttestation
  <2>3. t.confirmed = "False"
    BY <2>1 DEF AttestationAccount
  <2> HIDE DEF t
  <2>4. NewlyDisputed(u)
    BY <1>3, <2>1, <2>2, <2>3 DEF NewlyDisputed
  <2>5. /\ b.jobs_completed = agent[u].jobs_completed
        /\ b.jobs_failed = agent[u].jobs_failed
        /\ b.attestation_accuracy = agent[u].attestation_accuracy
    <3> HIDE DEF y, u
    <3> QED  BY <2>1 DEF AgentAccount
  <2> HIDE DEF b, u
  <2>6. CASE v = u
    <3>1. agent'[v] = b
      BY <1>0, <2>1, <2>2, <2>6
    <3> QED  BY <2>1, <2>4, <2>5, <2>6, <3>1 DEF Caused
  <2>7. CASE v # u
    BY <1>0, <2>2, <2>7 DEF Caused, Unscored, IsRegistered
  <2> QED  BY <2>6, <2>7
<1>4. CASE agent' = agent
  BY <1>4 DEF Caused, Unscored, IsRegistered
<1> QED  BY <1>2, <1>3, <1>4 DEF AttestationNext, AttestQuality, registryVars

\* Every step of the three groups.
LEMMA EveryChangeHasCause ==
    ASSUME IInv, [Next]_vars, NEW v \in Wallets, IsRegistered(v)'
    PROVE  IF IsRegistered(v) THEN Caused(v) ELSE Fresh(agent'[v])
<1>1. CASE agent' = agent
  BY <1>1 DEF Caused, Unscored, IsRegistered
<1>2. CASE RegistryNext
  BY <1>2, RegistryCauses
<1>3. CASE RatingNext
  <2>1. ASSUME NEW w \in Wallets, NEW j \in RatingJobs, NEW score \in Scores,
               NEW salt \in Salts, RevealRating(w, j, score, salt)
        PROVE  IsRegistered(v) /\ Caused(v)
    BY <2>1, RevealCauses
  <2>2. ASSUME NEW w \in Wallets, NEW j \in RatingJobs, ExpireRating(w, j)
        PROVE  IsRegistered(v) /\ Caused(v)
    BY <2>2, ExpireCauses
  <2>3. ASSUME NEW w \in Wallets, NEW j \in RatingJobs, NEW c \in Commitment,
               NEW role \in RatingRole, NEW consumer \in Wallets, NEW specialist \in Wallets,
               CommitRating(w, j, c, role, consumer, specialist)
        PROVE  agent' = agent
    BY <2>3 DEF CommitRating, registryVars
  <2>4. AdvanceSlot => agent' = agent
    BY DEF AdvanceSlot, registryVars
  <2> QED  BY <1>1, <1>3, <2>1, <2>2, <2>3, <2>4 DEF RatingNext
<1>4. CASE AttestationNext
  BY <1>4, AttestationCauses
<1> QED  BY <1>1, <1>2, <1>3, <1>4 DEF Next, vars, registryVars

-----------------------------------------------------------------------------
(* Final records stay final, so the sets only grow. *)

LEMMA RecordsGrow ==
    ASSUME IInv, [Next]_vars, NEW v \in Wallets
    PROVE  /\ CompletedJobs(v) \subseteq CompletedJobs(v)'
           /\ GhostedJobs(v) \subseteq GhostedJobs(v)'
           /\ ConfirmedJobs(v) \subseteq ConfirmedJobs(v)'
<1>1. \A j \in RatingJobs : HasRating(j) /\ rating[j].state \in {"Revealed", "Expired"} =>
         rating'[j] = rating[j]
  BY RatingKeptByAll DEF KeepsRecord
<1>2. \A j \in AttestedJobs : HasAttestation(j) /\ attestation[j].confirmed # "None" =>
         attestation'[j] = attestation[j]
  BY AttestationKept
<1>3. CompletedJobs(v) \subseteq CompletedJobs(v)'
  BY <1>1 DEF CompletedJobs, HasRating, Parties
<1>4. GhostedJobs(v) \subseteq GhostedJobs(v)'
  BY <1>1 DEF GhostedJobs, HasRating, Committed
<1>5. ConfirmedJobs(v) \subseteq ConfirmedJobs(v)'
  BY <1>2 DEF ConfirmedJobs, HasAttestation
<1> QED  BY <1>3, <1>4, <1>5

LEMMA Grows ==
    ASSUME NEW S, NEW T, IsFiniteSet(T), S \subseteq T
    PROVE  /\ Cardinality(S) \in Nat /\ Cardinality(T) \in Nat
           /\ Cardinality(S) <= Cardinality(T)
           /\ (\E x \in T : x \notin S) => Cardinality(S) + 1 <= Cardinality(T)
<1>1. IsFiniteSet(S) /\ Cardinality(S) <= Cardinality(T)
           /\ (Cardinality(S) = Cardinality(T) => T = S)
  BY FS_Subset
<1>2. Cardinality(S) \in Nat /\ Cardinality(T) \in Nat
  BY <1>1, FS_CardinalityType
<1> QED  BY <1>1, <1>2

LEMMA RecordsFinite ==
    ASSUME NEW v \in Wallets
    PROVE  /\ IsFiniteSet(CompletedJobs(v)) /\ IsFiniteSet(CompletedJobs(v)')
           /\ IsFiniteSet(GhostedJobs(v)) /\ IsFiniteSet(GhostedJobs(v)')
           /\ IsFiniteSet(ConfirmedJobs(v)) /\ IsFiniteSet(ConfirmedJobs(v)')
<1>1. IsFiniteSet(RatingJobs) /\ IsFiniteSet(AttestedJobs)
  BY ReputationConstants
<1>2. /\ CompletedJobs(v) \in SUBSET RatingJobs /\ CompletedJobs(v)' \in SUBSET RatingJobs
      /\ GhostedJobs(v) \in SUBSET RatingJobs /\ GhostedJobs(v)' \in SUBSET RatingJobs
      /\ ConfirmedJobs(v) \in SUBSET AttestedJobs /\ ConfirmedJobs(v)' \in SUBSET AttestedJobs
  BY DEF CompletedJobs, GhostedJobs, ConfirmedJobs
<1> QED  BY <1>1, <1>2, FS_Subset

-----------------------------------------------------------------------------
(* The two theorems. *)

\* One wallet's part of CountedOnce.
Counted(v) ==
    /\ agent[v].jobs_completed <= Cardinality(CompletedJobs(v))
    /\ agent[v].jobs_failed <= Cardinality(GhostedJobs(v))
    /\ agent[v].attestation_accuracy <= ATTESTATION_CONFIRM_WEIGHT * Cardinality(ConfirmedJobs(v))

\* A count and what bounds it, in steps that raise the count.
LEMMA CountArithmetic ==
    ASSUME NEW a \in Nat, NEW x \in Nat, NEW d \in Nat, NEW y \in Nat, a <= x,
           \/ d = a /\ x <= y
           \/ d = a + 1 /\ x + 1 <= y
    PROVE  d <= y
OBVIOUS

LEMMA WeightArithmetic ==
    ASSUME NEW c \in Nat, NEW z \in Nat, NEW e \in Nat, NEW u \in Nat,
           c <= ATTESTATION_CONFIRM_WEIGHT * z,
           \/ e = c /\ z <= u
           \/ e <= c + ATTESTATION_CONFIRM_WEIGHT /\ z + 1 <= u
    PROVE  e <= ATTESTATION_CONFIRM_WEIGHT * u
BY DEF ATTESTATION_CONFIRM_WEIGHT

LEMMA CountsKept ==
    ASSUME IInv, CountedOnce, [Next]_vars, NEW v \in Wallets, IsRegistered(v)'
    PROVE  Counted(v)'
<1> DEFINE a == agent[v].jobs_completed
           b == agent[v].jobs_failed
           c == agent[v].attestation_accuracy
           x == Cardinality(CompletedJobs(v))
           y == Cardinality(GhostedJobs(v))
           z == Cardinality(ConfirmedJobs(v))
<1>1. /\ x \in Nat /\ x' \in Nat /\ x <= x' /\ (NewlyCompleted(v) => x + 1 <= x')
      /\ y \in Nat /\ y' \in Nat /\ y <= y' /\ (NewlyGhosted(v) => y + 1 <= y')
      /\ z \in Nat /\ z' \in Nat /\ z <= z' /\ (NewlyConfirmed(v) => z + 1 <= z')
  <2>1. x \in Nat /\ x' \in Nat /\ x <= x' /\ (NewlyCompleted(v) => x + 1 <= x')
    BY RecordsFinite, RecordsGrow, Grows DEF NewlyCompleted
  <2>2. y \in Nat /\ y' \in Nat /\ y <= y' /\ (NewlyGhosted(v) => y + 1 <= y')
    BY RecordsFinite, RecordsGrow, Grows DEF NewlyGhosted
  <2>3. z \in Nat /\ z' \in Nat /\ z <= z' /\ (NewlyConfirmed(v) => z + 1 <= z')
    BY RecordsFinite, RecordsGrow, Grows DEF NewlyConfirmed
  <2> QED  BY <2>1, <2>2, <2>3
<1>2. agent'[v] \in AgentAccount
  BY StepIInv DEF IInv, TypeOK, RegistryTypeOK, IsRegistered
<1>3. a' \in Nat /\ b' \in Nat /\ c' \in Nat
  BY <1>2, CountersAreNumbers
<1>4. CASE ~IsRegistered(v)
  <2>1. a' = 0 /\ b' = 0 /\ c' = 0
    BY <1>4, EveryChangeHasCause DEF Fresh
  <2>2. \A n \in Nat : 0 <= n /\ 0 <= ATTESTATION_CONFIRM_WEIGHT * n
    BY DEF ATTESTATION_CONFIRM_WEIGHT
  <2>3. 0 <= x' /\ 0 <= y' /\ 0 <= ATTESTATION_CONFIRM_WEIGHT * z'
    BY <1>1, <2>2
  <2> QED  BY <2>1, <2>3 DEF Counted
<1>5. CASE IsRegistered(v)
  <2>1. Caused(v)
    BY <1>5, EveryChangeHasCause
  <2>2. a <= x /\ b <= y /\ c <= ATTESTATION_CONFIRM_WEIGHT * z
    BY <1>5 DEF CountedOnce
  <2>3. agent[v] \in AgentAccount
    BY <1>5 DEF IInv, TypeOK, RegistryTypeOK, IsRegistered
  <2>4. a \in Nat /\ b \in Nat /\ c \in Nat
    BY <2>3, CountersAreNumbers
  <2>5. a' = a \/ (NewlyCompleted(v) /\ a' = a + 1)
    BY <2>1 DEF Caused, Unscored
  <2>6. b' = b \/ (NewlyGhosted(v) /\ b' = b + 1)
    BY <2>1 DEF Caused, Unscored
  <2>7. c' = c \/ (NewlyConfirmed(v) /\ c' <= c + ATTESTATION_CONFIRM_WEIGHT)
    BY <2>1 DEF Caused, Unscored
  <2> HIDE DEF a, b, c, x, y, z
  <2>8. a' <= x'
    BY <1>1, <1>3, <2>2, <2>4, <2>5, CountArithmetic
  <2>9. b' <= y'
    BY <1>1, <1>3, <2>2, <2>4, <2>6, CountArithmetic
  <2>10. c' <= ATTESTATION_CONFIRM_WEIGHT * z'
    BY <1>1, <1>3, <2>2, <2>4, <2>7, WeightArithmetic
  <2> QED  BY <2>8, <2>9, <2>10 DEF Counted, a, b, c, x, y, z
<1> QED  BY <1>4, <1>5

\* Every final rating and attestation counts at most once for an account.
THEOREM RecordsCountOnce == Spec => []CountedOnce
<1>1. Init => CountedOnce
  BY DEF Init, RegistryInit, CountedOnce, IsRegistered
<1>2. IInv /\ CountedOnce /\ [Next]_vars => CountedOnce'
  BY CountsKept DEF CountedOnce, Counted
<1> QED  BY <1>1, <1>2, IInvHolds, PTL DEF Spec

\* A wallet's reputation and counters move only in the step that makes one of
\* its records final, and it is penalised only by its own missing commitment
\* or by a dispute.
THEOREM ChangesHaveCause == Spec => ReputationHasCause
<1>1. ASSUME IInv, [Next]_vars, NEW w \in Wallets, IsRegistered(w), IsRegistered(w)'
      PROVE  /\ agent'[w].reputation_score # agent[w].reputation_score => ScoredBy(w) \/ FaultedBy(w)
             /\ agent'[w].jobs_failed # agent[w].jobs_failed => FaultedBy(w)
             /\ agent'[w].jobs_completed # agent[w].jobs_completed => ScoredBy(w)
  <2>1. Caused(w)
    BY <1>1, EveryChangeHasCause
  <2>2. /\ NewlyCompleted(w) \/ NewlyConfirmed(w) => ScoredBy(w)
        /\ NewlyGhosted(w) \/ NewlyDisputed(w) => FaultedBy(w)
    BY DEF NewlyCompleted, NewlyConfirmed, NewlyGhosted, NewlyDisputed, ScoredBy, FaultedBy
  <2> QED  BY <2>1, <2>2 DEF Caused, Unscored
<1>2. IInv /\ [Next]_vars =>
        \A w \in Wallets : IsRegistered(w) /\ IsRegistered(w)' =>
          /\ agent'[w].reputation_score # agent[w].reputation_score => ScoredBy(w) \/ FaultedBy(w)
          /\ agent'[w].jobs_failed # agent[w].jobs_failed => FaultedBy(w)
          /\ agent'[w].jobs_completed # agent[w].jobs_completed => ScoredBy(w)
  BY <1>1
<1> QED  BY <1>2, IInvHolds, PTL DEF Spec, ReputationHasCause

-----------------------------------------------------------------------------
(* Nothing goes uncounted: the sets of final records and the counts move     *)
(* together, one record at a time.                                           *)

\* What a step does to one set of records and the count that goes with it.
InStep(S, T, a, b) ==
    \/ T = S /\ b = a
    \/ \E j : j \notin S /\ T = S \cup {j} /\ b = a + 1

\* The two pairs of wallet v.
Together(v) ==
    /\ InStep(CompletedJobs(v), CompletedJobs(v)', CountedByNow(v).completed, CountedByNow(v).completed')
    /\ InStep(GhostedJobs(v), GhostedJobs(v)', CountedByNow(v).failed, CountedByNow(v).failed')

\* The accounts' counters are numbers, and so are those of closed accounts.
LEMMA CountsAreNumbers ==
    ASSUME IInv, NEW v \in Wallets
    PROVE  /\ retired[v] \in [completed : Nat, failed : Nat]
           /\ IsRegistered(v) => agent[v] \in AgentAccount
           /\ IsRegistered(v) => agent[v].jobs_completed \in Nat /\ agent[v].jobs_failed \in Nat
           /\ CountedByNow(v).completed \in Nat /\ CountedByNow(v).failed \in Nat
<1>1. retired[v] \in [completed : Nat, failed : Nat]
  BY DEF IInv, TypeOK, RegistryTypeOK
<1>2. IsRegistered(v) => agent[v] \in AgentAccount
  BY DEF IInv, TypeOK, RegistryTypeOK, IsRegistered
<1>3. IsRegistered(v) => agent[v].jobs_completed \in Nat /\ agent[v].jobs_failed \in Nat
  BY <1>2, CountersAreNumbers
<1> QED  BY <1>1, <1>2, <1>3 DEF CountedByNow

\* Registration, update and deregistration move no record, and no count is lost
\* when an account is closed.
LEMMA RegistryKeepsCounts ==
    ASSUME IInv, RegistryNext, UNCHANGED rating, NEW v \in Wallets
    PROVE  Together(v)
<1>0. /\ agent \in [Wallets -> AgentAccount \cup {NoAgent}]
      /\ retired \in [Wallets -> [completed : Nat, failed : Nat]]
      /\ NoAgent \notin AgentAccount
  BY ReputationConstants DEF IInv, TypeOK, RegistryTypeOK
<1>1. CompletedJobs(v)' = CompletedJobs(v) /\ GhostedJobs(v)' = GhostedJobs(v)
  BY DEF CompletedJobs, GhostedJobs, HasRating, Parties, Committed
<1>2. ASSUME NEW w \in Wallets, NEW t \in AgentType, NEW l \in ModelLengths,
             RegisterAgent(w, t, l)
      PROVE  CountedByNow(v)' = CountedByNow(v)
  <2>1. /\ FreshAgent(t) \in AgentAccount
        /\ FreshAgent(t).jobs_completed = 0 /\ FreshAgent(t).jobs_failed = 0
    BY DEF FreshAgent, AgentAccount, MAX_SCORE
  <2>2. retired[v].completed \in Nat /\ retired[v].failed \in Nat
    BY <1>0
  <2>3. retired' = retired /\ agent' = [agent EXCEPT ![w] = FreshAgent(t)] /\ ~IsRegistered(w)
    BY <1>2 DEF RegisterAgent
  <2>4. CASE v = w
    BY <1>0, <2>1, <2>2, <2>3, <2>4 DEF CountedByNow, IsRegistered
  <2>5. CASE v # w
    BY <1>0, <2>3, <2>5 DEF CountedByNow, IsRegistered
  <2> QED  BY <2>4, <2>5
<1>3. ASSUME NEW w \in Wallets, NEW b \in BOOLEAN, UpdateAgent(w, b)
      PROVE  CountedByNow(v)' = CountedByNow(v)
  <2> DEFINE x == [agent[w] EXCEPT !.active = b]
  <2>1. agent[w] \in AgentAccount /\ IsRegistered(w)
    BY <1>0, <1>3 DEF UpdateAgent, IsRegistered
  <2>2. /\ x \in AgentAccount
        /\ x.jobs_completed = agent[w].jobs_completed /\ x.jobs_failed = agent[w].jobs_failed
    BY <2>1 DEF AgentAccount
  <2>3. retired' = retired /\ agent' = [agent EXCEPT ![w] = x]
    BY <1>3 DEF UpdateAgent
  <2> HIDE DEF x
  <2>4. CASE v = w
    BY <1>0, <2>1, <2>2, <2>3, <2>4 DEF CountedByNow, IsRegistered
  <2>5. CASE v # w
    BY <1>0, <2>3, <2>5 DEF CountedByNow, IsRegistered
  <2> QED  BY <2>4, <2>5
<1>4. ASSUME NEW w \in Wallets, DeregisterAgent(w)
      PROVE  CountedByNow(v)' = CountedByNow(v)
  <2> DEFINE r == [completed |-> retired[w].completed + agent[w].jobs_completed,
                   failed |-> retired[w].failed + agent[w].jobs_failed]
  <2>1. IsRegistered(w) /\ agent' = [agent EXCEPT ![w] = NoAgent]
        /\ retired' = [retired EXCEPT ![w] = r]
    BY <1>4 DEF DeregisterAgent
  <2>2. /\ agent[w].jobs_completed \in Nat /\ agent[w].jobs_failed \in Nat
        /\ retired[w].completed \in Nat /\ retired[w].failed \in Nat
    BY <2>1, CountsAreNumbers
  <2>3. CASE v = w
    BY <1>0, <2>1, <2>2, <2>3 DEF CountedByNow, IsRegistered
  <2>4. CASE v # w
    BY <1>0, <2>1, <2>4 DEF CountedByNow, IsRegistered
  <2> QED  BY <2>3, <2>4
<1> QED  BY <1>1, <1>2, <1>3, <1>4 DEF RegistryNext, Together, InStep

\* A commitment makes no record final.
LEMMA CommitKeepsCounts ==
    ASSUME IInv, NEW w \in Wallets, NEW j \in RatingJobs, NEW c \in Commitment,
           NEW role \in RatingRole, NEW consumer \in Wallets, NEW specialist \in Wallets,
           CommitRating(w, j, c, role, consumer, specialist), NEW v \in Wallets
    PROVE  Together(v)
<1> DEFINE r == IF HasRating(j) THEN rating[j] ELSE FreshRating(consumer, specialist)
           written == [r EXCEPT !.commitment[role] = c]
           both == \A x \in RatingRole : Committed(written, x)
           final == [written EXCEPT !.state = IF both THEN "BothCommitted" ELSE @]
<1>0. /\ rating \in [RatingJobs -> RatingAccount \cup {NoRating}] /\ slot \in Slots
      /\ NoRating \notin RatingAccount
  BY ReputationConstants DEF IInv, TypeOK, RatingTypeOK
<1>1. /\ rating' = [rating EXCEPT ![j] = final] /\ CommitOpen(r)
      /\ UNCHANGED <<agent, retired>>
  BY DEF CommitRating, registryVars
<1>2. r \in RatingAccount
  BY <1>0 DEF HasRating, FreshRating, RatingAccount, RatingRole, RatingState, Commitment
<1>3. final.state \notin {"Revealed", "Expired"}
  BY <1>1, <1>2 DEF CommitOpen, RatingAccount
<1>4. HasRating(j) => rating[j].state \notin {"Revealed", "Expired"}
  BY <1>1 DEF CommitOpen
<1> HIDE DEF final
<1>5. \A k \in RatingJobs : rating'[k] = IF k = j THEN final ELSE rating[k]
  BY <1>0, <1>1
<1>6. CompletedJobs(v)' = CompletedJobs(v)
  BY <1>3, <1>4, <1>5 DEF CompletedJobs, HasRating, Parties
<1>7. GhostedJobs(v)' = GhostedJobs(v)
  BY <1>3, <1>4, <1>5 DEF GhostedJobs, HasRating, Committed
<1>8. CountedByNow(v)' = CountedByNow(v)
  BY <1>1 DEF CountedByNow, IsRegistered
<1> QED  BY <1>6, <1>7, <1>8 DEF Together, InStep

\* The reveal that completes a pair completes the job for both parties, and is
\* counted for both; any other reveal completes nothing.
LEMMA RevealKeepsCounts ==
    ASSUME IInv, NEW w \in Wallets, NEW j \in RatingJobs, NEW score \in Scores,
           NEW salt \in Salts, RevealRating(w, j, score, salt), NEW v \in Wallets
    PROVE  Together(v)
<1> DEFINE r == rating[j]
           role == IF w = r.party["Consumer"] THEN "Consumer" ELSE "Specialist"
           scored == [r EXCEPT !.score[role] = score]
           both == \A x \in RatingRole : scored.score[x] # NoScore
           final == [scored EXCEPT !.state = IF both THEN "Revealed" ELSE @]
           p == r.party["Specialist"]
           q == r.party["Consumer"]
<1>0. /\ agent \in [Wallets -> AgentAccount \cup {NoAgent}]
      /\ rating \in [RatingJobs -> RatingAccount \cup {NoRating}]
      /\ NoRating \notin RatingAccount
  BY ReputationConstants DEF IInv, TypeOK, RegistryTypeOK, RatingTypeOK
<1>1. /\ r \in RatingAccount /\ role \in RatingRole /\ AgentsLoad(r)
      /\ r.state = "BothCommitted" /\ HasRating(j) /\ score \in 1 .. 10
      /\ agent' = IF both THEN ApplyScores(scored) ELSE agent
      /\ rating' = [rating EXCEPT ![j] = final] /\ retired' = retired
  BY <1>0 DEF RevealRating, CanReveal, RoleOf, HasRating, RatingRole, RevealOpen
<1>2. /\ scored.party = r.party /\ scored.state = r.state
      /\ scored \in [party : [RatingRole -> Wallets], commitment : [RatingRole -> Commitment],
            score : [RatingRole -> Scores \cup {NoScore}], state : RatingState,
            created_slot : Slots]
  BY <1>1 DEF RatingAccount, RatingRole
<1>3. /\ p \in Wallets /\ q \in Wallets /\ p # q /\ Parties(r) = {p, q}
      /\ agent[p] \in AgentAccount /\ agent[q] \in AgentAccount
      /\ IsRegistered(p) /\ IsRegistered(q)
  BY <1>0, <1>1 DEF RatingAccount, RatingRole, AgentsLoad, IsRegistered, Parties
<1>4. /\ final \in RatingAccount /\ final.party = r.party /\ final # NoRating
      /\ final.state = IF both THEN "Revealed" ELSE "BothCommitted"
  <2>1. /\ final \in RatingAccount /\ final.party = r.party
        /\ final.state = IF both THEN "Revealed" ELSE "BothCommitted"
    BY <1>1, <1>2 DEF RatingAccount, RatingState
  <2> QED  BY <1>0, <2>1
<1>5. \A k \in RatingJobs : rating'[k] = IF k = j THEN final ELSE rating[k]
  BY <1>0, <1>1
<1> HIDE DEF final
<1>6. GhostedJobs(v)' = GhostedJobs(v)
  BY <1>1, <1>4, <1>5 DEF GhostedJobs, HasRating, Committed
<1>7. CASE ~both
  <2>1. CompletedJobs(v)' = CompletedJobs(v)
    BY <1>1, <1>4, <1>5, <1>7 DEF CompletedJobs, HasRating, Parties
  <2>2. CountedByNow(v)' = CountedByNow(v)
    BY <1>1, <1>7 DEF CountedByNow, IsRegistered
  <2> QED  BY <1>6, <2>1, <2>2 DEF Together, InStep
<1>8. CASE both
  <2> DEFINE b == Rated(agent[p], scored.score["Consumer"])
             d == Rated(agent[q], scored.score["Specialist"])
  <2>1. agent' = [agent EXCEPT ![p] = b, ![q] = d]
    BY <1>0, <1>1, <1>2, <1>3, <1>8 DEF ApplyScores
  <2>2. /\ b.jobs_completed = agent[p].jobs_completed + 1 /\ b.jobs_failed = agent[p].jobs_failed
        /\ d.jobs_completed = agent[q].jobs_completed + 1 /\ d.jobs_failed = agent[q].jobs_failed
    BY <1>3 DEF Rated, AgentAccount
  <2>3. b # NoAgent /\ d # NoAgent
    <3>1. \A x \in RatingRole : scored.score[x] = IF x = role THEN score ELSE r.score[x]
      BY <1>1 DEF RatingAccount
    <3>2. \A x \in RatingRole : r.score[x] # NoScore => r.score[x] \in 1 .. 10
      BY <1>1 DEF IInv, CommitReveal
    <3>3. \A x \in RatingRole : scored.score[x] \in 1 .. 10
      BY <1>1, <1>8, <3>1, <3>2
    <3>4. b \in AgentAccount /\ d \in AgentAccount
      BY <1>3, <3>3, RatedAccount DEF RatingRole
    <3> QED  BY <3>4, ReputationConstants
  <2> HIDE DEF b, d, both, scored
  <2>4. Parties(rating[j])' = {p, q} /\ Parties(rating[j]) = {p, q}
    BY <1>3, <1>4, <1>5 DEF Parties
  <2>5. /\ HasRating(j) /\ HasRating(j)' /\ rating[j].state # "Revealed"
        /\ rating'[j].state = "Revealed"
    BY <1>1, <1>4, <1>5, <1>8 DEF HasRating
  <2>6. j \notin CompletedJobs(v)
    BY <2>5 DEF CompletedJobs
  <2>7. CASE v \in {p, q}
    <3>1. CompletedJobs(v)' = CompletedJobs(v) \cup {j}
      BY <1>5, <2>4, <2>5, <2>7 DEF CompletedJobs, HasRating, Parties
    <3>2. /\ IsRegistered(v) /\ IsRegistered(v)'
          /\ agent'[v].jobs_completed = agent[v].jobs_completed + 1
          /\ agent'[v].jobs_failed = agent[v].jobs_failed
      BY <1>0, <1>3, <2>1, <2>2, <2>3, <2>7 DEF IsRegistered
    <3>3. /\ CountedByNow(v).completed' = CountedByNow(v).completed + 1
          /\ CountedByNow(v).failed' = CountedByNow(v).failed
      BY <1>1, <3>2, CountsAreNumbers DEF CountedByNow
    <3> QED  BY <1>6, <2>6, <3>1, <3>3 DEF Together, InStep
  <2>8. CASE v \notin {p, q}
    <3>1. CompletedJobs(v)' = CompletedJobs(v)
      BY <1>5, <2>4, <2>8 DEF CompletedJobs, HasRating, Parties
    <3>2. agent'[v] = agent[v]
      BY <1>0, <2>1, <2>8
    <3>3. CountedByNow(v)' = CountedByNow(v)
      BY <1>1, <3>2 DEF CountedByNow, IsRegistered
    <3> QED  BY <1>6, <3>1, <3>3 DEF Together, InStep
  <2> QED  BY <2>7, <2>8
<1> QED  BY <1>7, <1>8

\* An expiry makes the job a ghosted one for the party that did not commit, if
\* the other did, and is counted for that party.
LEMMA ExpireKeepsCounts ==
    ASSUME IInv, NEW w \in Wallets, NEW j \in RatingJobs, ExpireRating(w, j),
           NEW v \in Wallets
    PROVE  Together(v)
<1> DEFINE r == rating[j]
           s == [r EXCEPT !.state = "Expired"]
<1>0. /\ agent \in [Wallets -> AgentAccount \cup {NoAgent}]
      /\ rating \in [RatingJobs -> RatingAccount \cup {NoRating}]
      /\ NoRating \notin RatingAccount /\ NoAgent \notin AgentAccount
  BY ReputationConstants DEF IInv, TypeOK, RegistryTypeOK, RatingTypeOK
<1>1. /\ r \in RatingAccount /\ AgentsLoad(r) /\ r.state = "Pending" /\ HasRating(j)
      /\ rating' = [rating EXCEPT ![j] = s] /\ retired' = retired
      /\ agent'[v] = IF \E x \in Ghosts(r) : r.party[x] = v
                     THEN Ghosted(agent[v]) ELSE agent[v]
  BY <1>0 DEF ExpireRating, HasRating
<1>2. /\ s.state = "Expired" /\ s.party = r.party /\ s.commitment = r.commitment
      /\ s # NoRating
  <2>1. /\ s \in RatingAccount /\ s.state = "Expired" /\ s.party = r.party
        /\ s.commitment = r.commitment
    BY <1>1 DEF RatingAccount, RatingState
  <2> QED  BY <1>0, <2>1
<1> HIDE DEF s
<1>3. \A k \in RatingJobs : rating'[k] = IF k = j THEN s ELSE rating[k]
  BY <1>0, <1>1
<1>4. CompletedJobs(v)' = CompletedJobs(v)
  BY <1>1, <1>2, <1>3 DEF CompletedJobs, HasRating, Parties
<1>5. j \notin GhostedJobs(v)
  BY <1>1 DEF GhostedJobs
<1>6. CASE \E x \in Ghosts(r) : r.party[x] = v
  <2>1. GhostedJobs(v)' = GhostedJobs(v) \cup {j}
    <3>1. j \in GhostedJobs(v)'
      BY <1>1, <1>2, <1>3, <1>6 DEF GhostedJobs, HasRating, Ghosts, Committed
    <3>2. \A k \in RatingJobs : k # j => (k \in GhostedJobs(v)' <=> k \in GhostedJobs(v))
      BY <1>3 DEF GhostedJobs, HasRating, Committed
    <3>3. GhostedJobs(v) \subseteq RatingJobs /\ GhostedJobs(v)' \subseteq RatingJobs
      BY DEF GhostedJobs
    <3> QED  BY <3>1, <3>2, <3>3
  <2>2. agent[v] \in AgentAccount /\ IsRegistered(v)
    BY <1>0, <1>1, <1>6 DEF Ghosts, AgentsLoad, IsRegistered
  <2>3. /\ Ghosted(agent[v]).jobs_completed = agent[v].jobs_completed
        /\ Ghosted(agent[v]).jobs_failed = agent[v].jobs_failed + 1
    BY <2>2 DEF Ghosted, AgentAccount
  <2>4. Ghosted(agent[v]) # NoAgent
    BY <1>0, <2>2, GhostedAccount
  <2>5. /\ CountedByNow(v).failed' = CountedByNow(v).failed + 1
        /\ CountedByNow(v).completed' = CountedByNow(v).completed
    BY <1>1, <1>6, <2>2, <2>3, <2>4, CountsAreNumbers DEF CountedByNow, IsRegistered
  <2> QED  BY <1>4, <1>5, <2>1, <2>5 DEF Together, InStep
<1>7. CASE ~\E x \in Ghosts(r) : r.party[x] = v
  <2>1. GhostedJobs(v)' = GhostedJobs(v)
    <3>1. j \notin GhostedJobs(v)'
      BY <1>2, <1>3, <1>7 DEF GhostedJobs, HasRating, Ghosts, Committed
    <3>2. \A k \in RatingJobs : k # j => (k \in GhostedJobs(v)' <=> k \in GhostedJobs(v))
      BY <1>3 DEF GhostedJobs, HasRating, Committed
    <3>3. GhostedJobs(v) \subseteq RatingJobs /\ GhostedJobs(v)' \subseteq RatingJobs
      BY DEF GhostedJobs
    <3> QED  BY <1>5, <3>1, <3>2, <3>3
  <2>2. CountedByNow(v)' = CountedByNow(v)
    BY <1>1, <1>7 DEF CountedByNow, IsRegistered
  <2> QED  BY <1>4, <2>1, <2>2 DEF Together, InStep
<1> QED  BY <1>6, <1>7

\* An attestation is no job: it moves neither set and neither count.
LEMMA AttestationKeepsCounts ==
    ASSUME IInv, AttestationNext, UNCHANGED rating, NEW v \in Wallets
    PROVE  Together(v)
<1>0. /\ agent \in [Wallets -> AgentAccount \cup {NoAgent}]
      /\ attestation \in [AttestedJobs -> AttestationAccount \cup {NoAttestation}]
      /\ NoAgent \notin AgentAccount
  BY ReputationConstants DEF IInv, TypeOK, RegistryTypeOK, AttestationTypeOK
<1>1. CompletedJobs(v)' = CompletedJobs(v) /\ GhostedJobs(v)' = GhostedJobs(v)
  BY DEF CompletedJobs, GhostedJobs, HasRating, Parties, Committed
<1>2. ASSUME NEW w \in Wallets, NEW j \in AttestedJobs, MayResolve(w, j)
      PROVE  /\ attestation[j].judge \in Wallets
             /\ agent[attestation[j].judge] \in AgentAccount
  <2>1. attestation[j] \in AttestationAccount
    BY <1>0, <1>2 DEF MayResolve, HasAttestation
  <2> QED  BY <1>0, <1>2, <2>1 DEF MayResolve, IsRegistered, AttestationAccount
<1>3. ASSUME NEW u \in Wallets, NEW b, agent[u] \in AgentAccount, b \in AgentAccount,
             b.jobs_completed = agent[u].jobs_completed, b.jobs_failed = agent[u].jobs_failed,
             agent' = [agent EXCEPT ![u] = b], retired' = retired
      PROVE  CountedByNow(v)' = CountedByNow(v)
  <2>1. CASE v = u
    BY <1>0, <1>3, <2>1 DEF CountedByNow, IsRegistered
  <2>2. CASE v # u
    BY <1>0, <1>3, <2>2 DEF CountedByNow, IsRegistered
  <2> QED  BY <2>1, <2>2
<1>4. ASSUME NEW w \in Wallets, NEW j \in AttestedJobs, ConfirmAttestation(w, j)
      PROVE  CountedByNow(v)' = CountedByNow(v)
  <2> DEFINE u == attestation[j].judge
             x == MoreAccurate(agent[u].attestation_accuracy)
             y == RollingAverage(agent[u].reputation_score, 10)
             b == [agent[u] EXCEPT !.attestation_accuracy = x, !.reputation_score = y]
  <2>1. u \in Wallets /\ agent[u] \in AgentAccount
    BY <1>2, <1>4 DEF ConfirmAttestation
  <2>2. x \in 0 .. MAX_SCORE /\ y \in 0 .. MAX_SCORE
    <3>1. /\ agent[u].attestation_accuracy \in 0 .. MAX_SCORE
          /\ agent[u].reputation_score \in 0 .. MAX_SCORE
      BY <2>1 DEF AgentAccount
    <3>2. 10 \in 1 .. 10
      OBVIOUS
    <3> QED  BY <3>1, <3>2, ScoresInRange
  <2>3. agent' = [agent EXCEPT ![u] = b] /\ retired' = retired
    BY <1>0, <1>4, <2>1 DEF ConfirmAttestation, AgentAccount
  <2> HIDE DEF x, y, u
  <2>4. /\ b \in AgentAccount
        /\ b.jobs_completed = agent[u].jobs_completed /\ b.jobs_failed = agent[u].jobs_failed
    BY <2>1, <2>2 DEF AgentAccount
  <2> HIDE DEF b
  <2> QED  BY <1>3, <2>1, <2>3, <2>4
<1>5. ASSUME NEW w \in Wallets, NEW j \in AttestedJobs, DisputeAttestation(w, j)
      PROVE  CountedByNow(v)' = CountedByNow(v)
  <2> DEFINE u == attestation[j].judge
             y == Penalised(agent[u].reputation_score)
             b == [agent[u] EXCEPT !.reputation_score = y]
  <2>1. u \in Wallets /\ agent[u] \in AgentAccount
    BY <1>2, <1>5 DEF DisputeAttestation
  <2>2. y \in 0 .. MAX_SCORE
    <3>1. agent[u].reputation_score \in 0 .. MAX_SCORE
      BY <2>1 DEF AgentAccount
    <3>2. 10 \in 1 .. 10
      OBVIOUS
    <3> QED  BY <3>1, <3>2, ScoresInRange
  <2>3. agent' = [agent EXCEPT ![u] = b] /\ retired' = retired
    BY <1>0, <1>5 DEF DisputeAttestation
  <2> HIDE DEF y, u
  <2>4. /\ b \in AgentAccount
        /\ b.jobs_completed = agent[u].jobs_completed /\ b.jobs_failed = agent[u].jobs_failed
    BY <2>1, <2>2 DEF AgentAccount
  <2> HIDE DEF b
  <2> QED  BY <1>3, <2>1, <2>3, <2>4
<1>6. UNCHANGED registryVars => CountedByNow(v)' = CountedByNow(v)
  BY DEF registryVars, CountedByNow, IsRegistered
<1>7. ASSUME NEW w \in Wallets, NEW j \in AttestedJobs, NEW scores \in ScoreVectors,
             NEW consumer \in Wallets, AttestQuality(w, j, scores, consumer)
      PROVE  CountedByNow(v)' = CountedByNow(v)
  BY <1>6, <1>7 DEF AttestQuality
<1>8. CountedByNow(v)' = CountedByNow(v)
  BY <1>4, <1>5, <1>7 DEF AttestationNext
<1> QED  BY <1>1, <1>8 DEF Together, InStep

\* Every step of the three groups moves records and counts together.
LEMMA RecordsAndCounts ==
    ASSUME IInv, [Next]_vars, NEW v \in Wallets
    PROVE  Together(v)
<1>1. CASE UNCHANGED <<registryVars, rating>>
  BY <1>1 DEF registryVars, Together, InStep, CountedByNow, IsRegistered, CompletedJobs,
     GhostedJobs, HasRating, Parties, Committed
<1>2. CASE RegistryNext /\ UNCHANGED rating
  BY <1>2, RegistryKeepsCounts
<1>3. CASE RatingNext
  <2>1. AdvanceSlot => UNCHANGED <<registryVars, rating>>
    BY DEF AdvanceSlot
  <2> QED  BY <1>1, <1>3, <2>1, CommitKeepsCounts, RevealKeepsCounts, ExpireKeepsCounts
           DEF RatingNext
<1>4. CASE AttestationNext /\ UNCHANGED rating
  BY <1>4, AttestationKeepsCounts
<1> QED  BY <1>1, <1>2, <1>3, <1>4 DEF Next, vars

\* A count that is the size of its set stays so.
LEMMA InStepKeepsSize ==
    ASSUME NEW S, NEW T, NEW a, NEW b, IsFiniteSet(S), InStep(S, T, a, b), a = Cardinality(S)
    PROVE  b = Cardinality(T)
BY FS_AddElement DEF InStep

\* Whatever the registrations and the order of the instructions, the accounts a
\* wallet has and has had count every completed job and every missing commitment.
THEOREM RecordsAllCount == Spec => []NothingUncounted
<1> DEFINE Sized(v) == /\ CountedByNow(v).completed = Cardinality(CompletedJobs(v))
                       /\ CountedByNow(v).failed = Cardinality(GhostedJobs(v))
<1>1. NothingUncounted <=> \A v \in Wallets : Sized(v)
  BY DEF NothingUncounted, CountedByNow
<1>2. Init => \A v \in Wallets : Sized(v)
  <2> SUFFICES ASSUME Init, NEW v \in Wallets PROVE Sized(v)
    OBVIOUS
  <2>1. CompletedJobs(v) = {} /\ GhostedJobs(v) = {}
    BY DEF Init, RatingInit, CompletedJobs, GhostedJobs, HasRating
  <2>2. CountedByNow(v) = [completed |-> 0, failed |-> 0]
    BY DEF Init, RegistryInit, CountedByNow, IsRegistered
  <2> QED  BY <2>1, <2>2, FS_EmptySet
<1>3. ASSUME IInv, [Next]_vars, NEW v \in Wallets, Sized(v) PROVE Sized(v)'
  <2>1. IsFiniteSet(CompletedJobs(v)) /\ IsFiniteSet(GhostedJobs(v))
    BY RecordsFinite
  <2>2. Together(v)
    BY <1>3, RecordsAndCounts
  <2> QED  BY <1>3, <2>1, <2>2, InStepKeepsSize DEF Together
<1>4. NothingUncounted' <=> \A v \in Wallets : Sized(v)'
  BY DEF NothingUncounted, CountedByNow
<1>5. IInv /\ NothingUncounted /\ [Next]_vars => NothingUncounted'
  BY <1>1, <1>3, <1>4
<1>6. Init => NothingUncounted
  BY <1>1, <1>2
<1> QED  BY <1>5, <1>6, IInvHolds, PTL DEF Spec
=============================================================================
