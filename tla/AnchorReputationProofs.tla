----------------------- MODULE AnchorReputationProofs -----------------------
(* Proofs about AnchorReputation, for any number of wallets, jobs, scores    *)
(* and slots: types, the commit-reveal discipline and the finality of        *)
(* records.                                                                  *)
EXTENDS AnchorReputation, TLAPS

\* One record of the board, as CommitReveal wants it.
GoodRating(r) ==
    /\ \A x \in RatingRole : r.score[x] # NoScore =>
          /\ \A y \in RatingRole : Committed(r, y)
          /\ r.commitment[x].score = r.score[x]
          /\ r.score[x] \in 1 .. 10
    /\ r.state = "Revealed" <=> \A x \in RatingRole : r.score[x] # NoScore
    /\ r.state = "BothCommitted" => \A x \in RatingRole : Committed(r, x)
    /\ r.state \in {"Pending", "Expired"} => \E x \in RatingRole : ~Committed(r, x)

LEMMA CommitRevealIsGood ==
    CommitReveal <=> \A j \in RatingJobs : HasRating(j) => GoodRating(rating[j])
BY DEF CommitReveal, GoodRating

IInv == TypeOK /\ CommitReveal

-----------------------------------------------------------------------------
(* What each instruction makes of the record it writes. *)

LEMMA FreshRatingGood ==
    ASSUME NEW c \in Wallets, NEW s \in Wallets, slot \in Slots
    PROVE  FreshRating(c, s) \in RatingAccount /\ GoodRating(FreshRating(c, s))
BY ReputationConstants DEF FreshRating, RatingAccount, RatingRole, RatingState, Commitment,
   GoodRating, Committed

\* The record a commit writes.
WrittenRating(r, role, c) ==
    LET written == [r EXCEPT !.commitment[role] = c] IN
    [written EXCEPT !.state = IF \A x \in RatingRole : Committed(written, x)
                              THEN "BothCommitted" ELSE @]

LEMMA CommitRecord ==
    ASSUME NEW r \in RatingAccount, GoodRating(r), NEW role \in RatingRole,
           NEW c \in Commitment, CommitOpen(r), CommitFree(r, role)
    PROVE  WrittenRating(r, role, c) \in RatingAccount /\ GoodRating(WrittenRating(r, role, c))
<1> DEFINE w == WrittenRating(r, role, c)
<1>0. /\ r.commitment \in [RatingRole -> Commitment] /\ r.score \in [RatingRole -> Scores \cup {NoScore}]
      /\ r.state \in RatingState /\ ~Committed(r, role)
  BY DEF RatingAccount, CommitFree
<1>1. /\ w.commitment = [r.commitment EXCEPT ![role] = c]
      /\ w.score = r.score /\ w.party = r.party /\ w.created_slot = r.created_slot
      /\ w.state = IF \A x \in RatingRole : w.commitment[x] # ZeroHash
                   THEN "BothCommitted" ELSE r.state
      /\ w.commitment \in [RatingRole -> Commitment]
      /\ w \in RatingAccount
  BY <1>0 DEF WrittenRating, Committed, RatingAccount, RatingState
<1>2. r.state = "Pending" /\ \A x \in RatingRole : r.score[x] = NoScore
  BY <1>0 DEF GoodRating, CommitOpen, RatingState
<1>3. GoodRating(w)
  BY <1>0, <1>1, <1>2 DEF GoodRating, Committed, RatingState, RatingRole
<1> QED  BY <1>1, <1>3

\* The record a reveal writes.
ScoredRating(r, role, score) ==
    LET scored == [r EXCEPT !.score[role] = score] IN
    [scored EXCEPT !.state = IF \A x \in RatingRole : scored.score[x] # NoScore
                             THEN "Revealed" ELSE @]

LEMMA RevealRecord ==
    ASSUME NEW r \in RatingAccount, GoodRating(r), NEW role \in RatingRole,
           NEW score \in Scores, NEW salt \in Salts, RevealOpen(r), score \in 1 .. 10,
           r.commitment[role] = Hash(score, salt)
    PROVE  /\ ScoredRating(r, role, score) \in RatingAccount
           /\ GoodRating(ScoredRating(r, role, score))
<1> DEFINE w == ScoredRating(r, role, score)
<1>0. /\ r.score \in [RatingRole -> Scores \cup {NoScore}]
      /\ r.state = "BothCommitted"
      /\ r.commitment[role].score = score
  BY DEF RatingAccount, RevealOpen, Hash
<1>1. /\ w.score = [r.score EXCEPT ![role] = score]
      /\ w.commitment = r.commitment /\ w.party = r.party /\ w.created_slot = r.created_slot
      /\ w.state = IF \A x \in RatingRole : w.score[x] # NoScore THEN "Revealed" ELSE r.state
      /\ w \in RatingAccount
  BY <1>0 DEF ScoredRating, RatingAccount, RatingState
<1>2. GoodRating(w)
  BY <1>0, <1>1 DEF GoodRating, Committed
<1> QED  BY <1>1, <1>2

\* The record an expiry writes.
LEMMA ExpireRecord ==
    ASSUME NEW r \in RatingAccount, GoodRating(r), r.state = "Pending"
    PROVE  /\ [r EXCEPT !.state = "Expired"] \in RatingAccount
           /\ GoodRating([r EXCEPT !.state = "Expired"])
<1> DEFINE w == [r EXCEPT !.state = "Expired"]
<1>1. /\ w.score = r.score /\ w.commitment = r.commitment /\ w.state = "Expired"
      /\ w \in RatingAccount
  BY DEF RatingAccount, RatingState
<1>2. GoodRating(w)
  BY <1>1 DEF GoodRating, Committed
<1> QED  BY <1>1, <1>2

-----------------------------------------------------------------------------
(* What each instruction makes of an account. *)

LEMMA ScoresInRange ==
    ASSUME NEW old \in 0 .. MAX_SCORE, NEW score \in 1 .. 10
    PROVE  /\ RollingAverage(old, score) \in 0 .. MAX_SCORE
           /\ Penalised(old) \in 0 .. MAX_SCORE
           /\ MoreAccurate(old) \in 0 .. MAX_SCORE
<1>0. old \in Int /\ 0 <= old /\ old <= 10000 /\ score \in Int /\ 1 <= score /\ score <= 10
  BY DEF MAX_SCORE
<1>1. RollingAverage(old, score) \in 0 .. MAX_SCORE
  BY SMTT(30), <1>0 DEF RollingAverage, AtMost, MAX_SCORE
<1>2. Penalised(old) \in 0 .. MAX_SCORE
  BY <1>0 DEF Penalised, MAX_SCORE, RATING_EXPIRE_PENALTY
<1>3. MoreAccurate(old) \in 0 .. MAX_SCORE
  BY <1>0 DEF MoreAccurate, AtMost, MAX_SCORE, ATTESTATION_CONFIRM_WEIGHT
<1> QED  BY <1>1, <1>2, <1>3

LEMMA RatedAccount ==
    ASSUME NEW a \in AgentAccount, NEW score \in 1 .. 10
    PROVE  Rated(a, score) \in AgentAccount
<1>1. a.reputation_score \in 0 .. MAX_SCORE /\ a.jobs_completed \in Nat
  BY DEF AgentAccount
<1>2. RollingAverage(a.reputation_score, score) \in 0 .. MAX_SCORE
  BY <1>1, ScoresInRange
<1>3. a.jobs_completed + 1 \in Nat
  BY <1>1
<1> DEFINE v == RollingAverage(a.reputation_score, score)
           n == a.jobs_completed + 1
<1>4. Rated(a, score) = [a EXCEPT !.reputation_score = v, !.jobs_completed = n]
  BY DEF Rated
<1>5. v \in 0 .. MAX_SCORE /\ n \in Nat
  BY <1>2, <1>3
<1> HIDE DEF v, n
<1> QED  BY <1>4, <1>5 DEF AgentAccount

LEMMA GhostedAccount ==
    ASSUME NEW a \in AgentAccount
    PROVE  Ghosted(a) \in AgentAccount
<1>1. a.reputation_score \in 0 .. MAX_SCORE /\ a.jobs_failed \in Nat
  BY DEF AgentAccount
<1>2. 1 \in 1 .. 10
  OBVIOUS
<1>3. Penalised(a.reputation_score) \in 0 .. MAX_SCORE
  BY <1>1, <1>2, ScoresInRange
<1> DEFINE v == Penalised(a.reputation_score)
           n == a.jobs_failed + 1
<1>4. Ghosted(a) = [a EXCEPT !.reputation_score = v, !.jobs_failed = n]
  BY DEF Ghosted
<1>5. v \in 0 .. MAX_SCORE /\ n \in Nat
  BY <1>1, <1>3
<1> HIDE DEF v, n
<1> QED  BY <1>4, <1>5 DEF AgentAccount

-----------------------------------------------------------------------------
(* The invariant is inductive: one lemma per group of instructions. *)

LEMMA InitIInv == Init => IInv
<1> SUFFICES ASSUME Init PROVE IInv
  OBVIOUS
<1>1. RegistryTypeOK
  BY DEF Init, RegistryInit, RegistryTypeOK
<1>2. RatingTypeOK
  BY ReputationConstants DEF Init, RatingInit, RatingTypeOK
<1>3. AttestationTypeOK
  BY DEF Init, AttestationInit, AttestationTypeOK
<1>4. CommitReveal
  BY DEF Init, RatingInit, CommitReveal, HasRating
<1> QED  BY <1>1, <1>2, <1>3, <1>4 DEF IInv, TypeOK

LEMMA RatingsUntouched ==
    IInv /\ UNCHANGED <<slot, rating>> => RatingTypeOK' /\ CommitReveal'
BY DEF IInv, TypeOK, RatingTypeOK, CommitReveal, HasRating, Committed

LEMMA RegistryStep ==
    ASSUME IInv, RegistryNext, UNCHANGED <<slot, rating, attestation>>
    PROVE  IInv'
<1>1. RatingTypeOK' /\ CommitReveal'
  BY RatingsUntouched
<1>2. AttestationTypeOK'
  BY DEF IInv, TypeOK, AttestationTypeOK
<1>3. RegistryTypeOK'
  <2>0. /\ agent \in [Wallets -> AgentAccount \cup {NoAgent}] /\ burned \in Nat
        /\ retired \in [Wallets -> [completed : Nat, failed : Nat]]
    BY DEF IInv, TypeOK, RegistryTypeOK
  <2>1. ASSUME NEW w \in Wallets, NEW t \in AgentType, NEW l \in ModelLengths,
               RegisterAgent(w, t, l)
        PROVE  RegistryTypeOK'
    <3>1. FreshAgent(t) \in AgentAccount
      BY <2>1 DEF FreshAgent, AgentAccount, MAX_SCORE
    <3>2. agent' = [agent EXCEPT ![w] = FreshAgent(t)] /\ retired' = retired
      BY <2>1 DEF RegisterAgent
    <3>3. burned' \in Nat
      BY <2>0, <2>1 DEF RegisterAgent, AGENT_REGISTRATION_FEE
    <3> QED  BY <2>0, <3>1, <3>2, <3>3 DEF RegistryTypeOK
  <2>2. ASSUME NEW w \in Wallets, NEW b \in BOOLEAN, UpdateAgent(w, b)
        PROVE  RegistryTypeOK'
    <3>1. agent[w] \in AgentAccount
      BY <2>0, <2>2 DEF UpdateAgent, IsRegistered
    <3>2. [agent[w] EXCEPT !.active = b] \in AgentAccount
      BY <2>2, <3>1 DEF AgentAccount
    <3>3. /\ agent' = [agent EXCEPT ![w] = [agent[w] EXCEPT !.active = b]]
          /\ burned' = burned /\ retired' = retired
      BY <2>2 DEF UpdateAgent
    <3> QED  BY <2>0, <3>2, <3>3 DEF RegistryTypeOK
  <2>3. ASSUME NEW w \in Wallets, DeregisterAgent(w) PROVE RegistryTypeOK'
    <3>1. agent[w] \in AgentAccount /\ agent[w].jobs_completed \in Nat /\ agent[w].jobs_failed \in Nat
      BY <2>0, <2>3 DEF DeregisterAgent, IsRegistered, AgentAccount
    <3> DEFINE r == [completed |-> retired[w].completed + agent[w].jobs_completed,
                     failed |-> retired[w].failed + agent[w].jobs_failed]
    <3>2. r \in [completed : Nat, failed : Nat]
      BY <2>0, <3>1
    <3>3. /\ agent' = [agent EXCEPT ![w] = NoAgent] /\ burned' = burned
          /\ retired' = [retired EXCEPT ![w] = r]
      BY <2>0, <2>3 DEF DeregisterAgent
    <3> HIDE DEF r
    <3> QED  BY <2>0, <3>2, <3>3 DEF RegistryTypeOK
  <2> QED  BY <2>1, <2>2, <2>3 DEF RegistryNext
<1> QED  BY <1>1, <1>2, <1>3 DEF IInv, TypeOK

LEMMA CommitStep ==
    ASSUME IInv, NEW w \in Wallets, NEW j \in RatingJobs, NEW c \in Commitment,
           NEW role \in RatingRole, NEW consumer \in Wallets, NEW specialist \in Wallets,
           CommitRating(w, j, c, role, consumer, specialist)
    PROVE  RegistryTypeOK' /\ RatingTypeOK' /\ CommitReveal'
<1> DEFINE r == IF HasRating(j) THEN rating[j] ELSE FreshRating(consumer, specialist)
<1>0. /\ slot \in Slots /\ rating \in [RatingJobs -> RatingAccount \cup {NoRating}]
      /\ \A k \in RatingJobs : HasRating(k) => GoodRating(rating[k])
  BY CommitRevealIsGood DEF IInv, TypeOK, RatingTypeOK
<1>1. r \in RatingAccount /\ GoodRating(r)
  BY <1>0, FreshRatingGood DEF HasRating
<1>2. /\ CommitOpen(r) /\ CommitFree(r, role)
      /\ rating' = [rating EXCEPT ![j] = WrittenRating(r, role, c)]
      /\ UNCHANGED <<slot, agent, burned, retired>>
  BY DEF CommitRating, WrittenRating, registryVars
<1>3. WrittenRating(r, role, c) \in RatingAccount /\ GoodRating(WrittenRating(r, role, c))
  BY <1>1, <1>2, CommitRecord
<1>4. RatingTypeOK'
  BY <1>0, <1>2, <1>3 DEF RatingTypeOK
<1>5. \A k \in RatingJobs : rating'[k] # NoRating => GoodRating(rating'[k])
  BY <1>0, <1>2, <1>3 DEF HasRating
<1>6. CommitReveal'
  BY <1>5 DEF CommitReveal, HasRating, GoodRating, Committed
<1>7. RegistryTypeOK'
  BY <1>2 DEF IInv, TypeOK, RegistryTypeOK
<1> QED  BY <1>4, <1>6, <1>7

\* A reveal that completes the pair rates two different registered accounts.
LEMMA ScoresApply ==
    ASSUME RegistryTypeOK, NEW r \in RatingAccount, AgentsLoad(r),
           \A x \in RatingRole : r.score[x] \in 1 .. 10
    PROVE  ApplyScores(r) \in [Wallets -> AgentAccount \cup {NoAgent}]
<1> DEFINE p == r.party["Specialist"]
           q == r.party["Consumer"]
           b == Rated(agent[p], r.score["Consumer"])
           d == Rated(agent[q], r.score["Specialist"])
<1>1. p \in Wallets /\ q \in Wallets /\ p # q
  BY DEF RatingAccount, RatingRole, AgentsLoad
<1>2. agent[p] \in AgentAccount /\ agent[q] \in AgentAccount
  BY <1>1 DEF RegistryTypeOK, AgentsLoad, IsRegistered, RatingRole
<1>3. b \in AgentAccount /\ d \in AgentAccount
  BY <1>2, RatedAccount DEF RatingRole
<1>4. ApplyScores(r) = [agent EXCEPT ![p] = b, ![q] = d]
  BY <1>1 DEF ApplyScores, RegistryTypeOK
<1> HIDE DEF p, q, b, d
<1> QED  BY <1>1, <1>3, <1>4 DEF RegistryTypeOK

LEMMA RevealStep ==
    ASSUME IInv, NEW w \in Wallets, NEW j \in RatingJobs, NEW score \in Scores,
           NEW salt \in Salts, RevealRating(w, j, score, salt)
    PROVE  RegistryTypeOK' /\ RatingTypeOK' /\ CommitReveal'
<1> DEFINE r == rating[j]
           role == IF w = r.party["Consumer"] THEN "Consumer" ELSE "Specialist"
           scored == [r EXCEPT !.score[role] = score]
           both == \A x \in RatingRole : scored.score[x] # NoScore
           s == ScoredRating(r, role, score)
<1>0. /\ slot \in Slots /\ rating \in [RatingJobs -> RatingAccount \cup {NoRating}]
      /\ \A k \in RatingJobs : HasRating(k) => GoodRating(rating[k])
      /\ RegistryTypeOK
  BY CommitRevealIsGood DEF IInv, TypeOK, RatingTypeOK
<1>1. /\ RevealOpen(r) /\ AgentsLoad(r) /\ HasRating(j) /\ score \in 1 .. 10
      /\ r.commitment[role] = Hash(score, salt)
      /\ rating' = [rating EXCEPT ![j] = s]
      /\ agent' = IF both THEN ApplyScores(scored) ELSE agent
      /\ UNCHANGED <<slot, burned, retired>>
  BY DEF RevealRating, CanReveal, RoleOf, ScoredRating
<1>2. r \in RatingAccount /\ GoodRating(r) /\ role \in RatingRole
  BY <1>0, <1>1 DEF HasRating, RatingRole
<1>3. s \in RatingAccount /\ GoodRating(s)
  BY <1>1, <1>2, RevealRecord
<1>4. RatingTypeOK'
  BY <1>0, <1>1, <1>3 DEF RatingTypeOK
<1>5. CommitReveal'
  <2>1. \A k \in RatingJobs : rating'[k] # NoRating => GoodRating(rating'[k])
    BY <1>0, <1>1, <1>3 DEF HasRating
  <2> QED  BY <2>1 DEF CommitReveal, HasRating, GoodRating, Committed
<1>6. RegistryTypeOK'
  <2>1. CASE ~both
    BY <1>0, <1>1, <2>1 DEF RegistryTypeOK
  <2>2. CASE both
    <3>1. /\ scored \in RatingAccount
          /\ s.score = scored.score /\ scored.party = r.party
      BY <1>2 DEF ScoredRating, RatingAccount, RatingRole, RatingState
    <3>2. \A x \in RatingRole : scored.score[x] \in 1 .. 10
      BY <1>3, <2>2, <3>1 DEF GoodRating
    <3>3. AgentsLoad(scored)
      BY <1>1, <3>1 DEF AgentsLoad
    <3>4. ApplyScores(scored) \in [Wallets -> AgentAccount \cup {NoAgent}]
      BY <1>0, <3>1, <3>2, <3>3, ScoresApply
    <3> QED  BY <1>0, <1>1, <2>2, <3>4 DEF RegistryTypeOK
  <2> QED  BY <2>1, <2>2
<1> QED  BY <1>4, <1>5, <1>6

LEMMA ExpireStep ==
    ASSUME IInv, NEW w \in Wallets, NEW j \in RatingJobs, ExpireRating(w, j)
    PROVE  RegistryTypeOK' /\ RatingTypeOK' /\ CommitReveal'
<1> DEFINE r == rating[j]
           s == [r EXCEPT !.state = "Expired"]
<1>0. /\ slot \in Slots /\ rating \in [RatingJobs -> RatingAccount \cup {NoRating}]
      /\ \A k \in RatingJobs : HasRating(k) => GoodRating(rating[k])
      /\ agent \in [Wallets -> AgentAccount \cup {NoAgent}] /\ burned \in Nat
      /\ retired \in [Wallets -> [completed : Nat, failed : Nat]]
  BY CommitRevealIsGood DEF IInv, TypeOK, RatingTypeOK, RegistryTypeOK
<1>1. /\ HasRating(j) /\ AgentsLoad(r) /\ r.state = "Pending"
      /\ rating' = [rating EXCEPT ![j] = s]
      /\ agent' = [v \in Wallets |-> IF \E x \in Ghosts(r) : r.party[x] = v
                                     THEN Ghosted(agent[v]) ELSE agent[v]]
      /\ UNCHANGED <<slot, burned, retired>>
  BY DEF ExpireRating
<1>2. s \in RatingAccount /\ GoodRating(s)
  BY <1>0, <1>1, ExpireRecord DEF HasRating
<1>3. RatingTypeOK'
  BY <1>0, <1>1, <1>2 DEF RatingTypeOK
<1>4. CommitReveal'
  <2>1. \A k \in RatingJobs : rating'[k] # NoRating => GoodRating(rating'[k])
    BY <1>0, <1>1, <1>2 DEF HasRating
  <2> QED  BY <2>1 DEF CommitReveal, HasRating, GoodRating, Committed
<1>5. RegistryTypeOK'
  <2>1. ASSUME NEW v \in Wallets PROVE agent'[v] \in AgentAccount \cup {NoAgent}
    <3>1. CASE \E x \in Ghosts(r) : r.party[x] = v
      <4>1. agent[v] \in AgentAccount
        BY <1>0, <1>1, <2>1, <3>1 DEF Ghosts, AgentsLoad, IsRegistered
      <4>2. Ghosted(agent[v]) \in AgentAccount
        BY <4>1, GhostedAccount
      <4> QED  BY <1>1, <2>1, <3>1, <4>2
    <3>2. CASE ~\E x \in Ghosts(r) : r.party[x] = v
      BY <1>0, <1>1, <2>1, <3>2
    <3> QED  BY <3>1, <3>2
  <2>2. agent' = [v \in Wallets |-> agent'[v]]
    BY <1>1
  <2> QED  BY <1>0, <1>1, <2>1, <2>2 DEF RegistryTypeOK
<1> QED  BY <1>3, <1>4, <1>5

LEMMA RatingStep ==
    ASSUME IInv, RatingNext, UNCHANGED attestation
    PROVE  IInv'
<1>1. AttestationTypeOK'
  BY DEF IInv, TypeOK, AttestationTypeOK
<1>2. RegistryTypeOK' /\ RatingTypeOK' /\ CommitReveal'
  <2>1. CASE AdvanceSlot
    BY <2>1 DEF AdvanceSlot, registryVars, IInv, TypeOK, RegistryTypeOK, RatingTypeOK, CommitReveal,
       HasRating, Committed
  <2> QED  BY <2>1, CommitStep, RevealStep, ExpireStep DEF RatingNext
<1> QED  BY <1>1, <1>2 DEF IInv, TypeOK

\* Confirming and disputing move the scores of a registered judge.
LEMMA AttestationStep ==
    ASSUME IInv, AttestationNext, UNCHANGED <<slot, rating>>
    PROVE  IInv'
<1>0. /\ agent \in [Wallets -> AgentAccount \cup {NoAgent}] /\ burned \in Nat
      /\ retired \in [Wallets -> [completed : Nat, failed : Nat]]
      /\ attestation \in [AttestedJobs -> AttestationAccount \cup {NoAttestation}]
  BY DEF IInv, TypeOK, RegistryTypeOK, AttestationTypeOK
<1>1. RatingTypeOK' /\ CommitReveal'
  BY RatingsUntouched
<1>2. ASSUME NEW w \in Wallets, NEW j \in AttestedJobs, NEW scores \in ScoreVectors,
             NEW c \in Wallets, AttestQuality(w, j, scores, c)
      PROVE  RegistryTypeOK' /\ AttestationTypeOK'
  <2>1. [judge |-> w, consumer |-> c, confirmed |-> "None"] \in AttestationAccount
    BY <1>2 DEF AttestationAccount, Confirmed
  <2> QED  BY <1>0, <1>2, <2>1 DEF AttestQuality, registryVars, RegistryTypeOK, AttestationTypeOK
<1>3. ASSUME NEW w \in Wallets, NEW j \in AttestedJobs, MayResolve(w, j),
             NEW answer \in Confirmed
      PROVE  /\ attestation[j].judge \in Wallets
             /\ agent[attestation[j].judge] \in AgentAccount
             /\ [attestation EXCEPT ![j].confirmed = answer]
                  \in [AttestedJobs -> AttestationAccount \cup {NoAttestation}]
  <2>1. attestation[j] \in AttestationAccount
    BY <1>0, <1>3 DEF MayResolve, HasAttestation
  <2>2. [attestation[j] EXCEPT !.confirmed = answer] \in AttestationAccount
    BY <1>3, <2>1 DEF AttestationAccount
  <2>3. attestation[j].judge \in Wallets
    BY <2>1 DEF AttestationAccount
  <2> QED  BY <1>0, <1>3, <2>2, <2>3 DEF MayResolve, IsRegistered
<1>4. ASSUME NEW w \in Wallets, NEW j \in AttestedJobs, ConfirmAttestation(w, j)
      PROVE  RegistryTypeOK' /\ AttestationTypeOK'
  <2> DEFINE u == attestation[j].judge
             x == MoreAccurate(agent[u].attestation_accuracy)
             y == RollingAverage(agent[u].reputation_score, 10)
             b == [agent[u] EXCEPT !.attestation_accuracy = x, !.reputation_score = y]
  <2>1. MayResolve(w, j) /\ "True" \in Confirmed /\ 10 \in 1 .. 10
    BY <1>4 DEF ConfirmAttestation, Confirmed
  <2>2. u \in Wallets /\ agent[u] \in AgentAccount
    BY <1>3, <1>4, <2>1
  <2>3. x \in 0 .. MAX_SCORE /\ y \in 0 .. MAX_SCORE
    BY <2>1, <2>2, ScoresInRange DEF AgentAccount
  <2>4. agent' = [agent EXCEPT ![u] = b] /\ burned' = burned /\ retired' = retired
    BY <1>0, <1>4, <2>2 DEF ConfirmAttestation, AgentAccount
  <2>5. b \in AgentAccount
    <3> HIDE DEF x, y, u
    <3> QED  BY <2>2, <2>3 DEF AgentAccount
  <2>6. RegistryTypeOK'
    <3> HIDE DEF b, u
    <3> QED  BY <1>0, <2>2, <2>4, <2>5 DEF RegistryTypeOK
  <2>7. AttestationTypeOK'
    BY <1>3, <1>4, <2>1 DEF ConfirmAttestation, AttestationTypeOK
  <2> QED  BY <2>6, <2>7
<1>5. ASSUME NEW w \in Wallets, NEW j \in AttestedJobs, DisputeAttestation(w, j)
      PROVE  RegistryTypeOK' /\ AttestationTypeOK'
  <2> DEFINE u == attestation[j].judge
             y == Penalised(agent[u].reputation_score)
             b == [agent[u] EXCEPT !.reputation_score = y]
  <2>1. MayResolve(w, j) /\ "False" \in Confirmed /\ 10 \in 1 .. 10
    BY <1>5 DEF DisputeAttestation, Confirmed
  <2>2. u \in Wallets /\ agent[u] \in AgentAccount
    BY <1>3, <1>5, <2>1
  <2>3. y \in 0 .. MAX_SCORE
    BY <2>1, <2>2, ScoresInRange DEF AgentAccount
  <2>4. agent' = [agent EXCEPT ![u] = b] /\ burned' = burned /\ retired' = retired
    BY <1>5 DEF DisputeAttestation
  <2>5. b \in AgentAccount
    <3> HIDE DEF y, u
    <3> QED  BY <2>2, <2>3 DEF AgentAccount
  <2>6. RegistryTypeOK'
    <3> HIDE DEF b, u
    <3> QED  BY <1>0, <2>2, <2>4, <2>5 DEF RegistryTypeOK
  <2>7. AttestationTypeOK'
    BY <1>3, <1>5, <2>1 DEF DisputeAttestation, AttestationTypeOK
  <2> QED  BY <2>6, <2>7
<1>6. RegistryTypeOK' /\ AttestationTypeOK'
  BY <1>2, <1>4, <1>5 DEF AttestationNext
<1> QED  BY <1>1, <1>6 DEF IInv, TypeOK

LEMMA StepIInv == IInv /\ [Next]_vars => IInv'
<1>1. IInv /\ UNCHANGED vars => IInv'
  BY DEF vars, registryVars, IInv, TypeOK, RegistryTypeOK, RatingTypeOK, AttestationTypeOK, CommitReveal,
     HasRating, Committed
<1> QED  BY <1>1, RegistryStep, RatingStep, AttestationStep DEF Next

LEMMA IInvHolds == Spec => []IInv
BY InitIInv, StepIInv, PTL DEF Spec

\* Type correctness: no account, score or record leaves its range.
THEOREM ReputationTypeCorrect == Spec => []TypeOK
<1>1. IInv => TypeOK  BY DEF IInv
<1> QED  BY <1>1, IInvHolds, PTL

\* No score is public before both commitments are fixed, and every public
\* score is the one its party committed to.
THEOREM ScoresStayBlind == Spec => []CommitReveal
<1>1. IInv => CommitReveal  BY DEF IInv
<1> QED  BY <1>1, IInvHolds, PTL

-----------------------------------------------------------------------------
(* What a step may never do to a record. *)

\* A step leaves a rating alone, creates it, or changes one that is not final,
\* keeping its parties and the commitments already made.
KeepsRecord(r, s) ==
    /\ s # NoRating
    /\ s.party = r.party
    /\ \A x \in RatingRole : Committed(r, x) => s.commitment[x] = r.commitment[x]
    /\ r.state \in {"Revealed", "Expired"} => s = r

LEMMA RatingKept ==
    ASSUME IInv, RatingNext, NEW k \in RatingJobs, HasRating(k)
    PROVE  KeepsRecord(rating[k], rating'[k])
<1>0. /\ rating \in [RatingJobs -> RatingAccount \cup {NoRating}]
      /\ NoRating \notin RatingAccount
      /\ rating[k] \in RatingAccount
  BY ReputationConstants DEF IInv, TypeOK, RatingTypeOK, HasRating
<1>1. ASSUME NEW w \in Wallets, NEW j \in RatingJobs, NEW c \in Commitment,
             NEW role \in RatingRole, NEW consumer \in Wallets, NEW specialist \in Wallets,
             CommitRating(w, j, c, role, consumer, specialist)
      PROVE  KeepsRecord(rating[k], rating'[k])
  <2>1. CASE j # k
    BY <1>0, <1>1, <2>1 DEF CommitRating, KeepsRecord, HasRating
  <2>2. CASE j = k
    <3> DEFINE r == rating[k]
               s == WrittenRating(r, role, c)
    <3>1. /\ CommitOpen(r) /\ CommitFree(r, role) /\ rating'[k] = s
      BY <1>0, <1>1, <2>2 DEF CommitRating, WrittenRating
    <3>2. /\ s.commitment = [r.commitment EXCEPT ![role] = c]
          /\ s.party = r.party /\ s.score = r.score /\ s.created_slot = r.created_slot
          /\ s.state \in RatingState
          /\ s \in RatingAccount
      <4>1. r.commitment \in [RatingRole -> Commitment] /\ r.state \in RatingState
        BY <1>0 DEF RatingAccount
      <4> QED  BY <1>0, <1>1, <4>1 DEF WrittenRating, RatingAccount, RatingState
    <3>3. \A x \in RatingRole : Committed(r, x) => s.commitment[x] = r.commitment[x]
      BY <1>0, <1>1, <3>1, <3>2 DEF RatingAccount, CommitFree, Committed
    <3> QED  BY <1>0, <3>1, <3>2, <3>3 DEF KeepsRecord, CommitOpen
  <2> QED  BY <2>1, <2>2
<1>2. ASSUME NEW w \in Wallets, NEW j \in RatingJobs, NEW score \in Scores,
             NEW salt \in Salts, RevealRating(w, j, score, salt)
      PROVE  KeepsRecord(rating[k], rating'[k])
  <2>1. CASE j # k
    BY <1>0, <1>2, <2>1 DEF RevealRating, CanReveal, RoleOf, KeepsRecord, HasRating
  <2>2. CASE j = k
    <3> DEFINE r == rating[k]
               role == IF w = r.party["Consumer"] THEN "Consumer" ELSE "Specialist"
               s == ScoredRating(r, role, score)
    <3>1. RevealOpen(r) /\ rating'[k] = s
      BY <1>0, <1>2, <2>2 DEF RevealRating, CanReveal, RoleOf, ScoredRating
    <3>2. s.commitment = r.commitment /\ s.party = r.party /\ s \in RatingAccount
      <4>1. role \in RatingRole /\ r.score \in [RatingRole -> Scores \cup {NoScore}]
        BY <1>0 DEF RatingAccount, RatingRole
      <4> QED  BY <1>0, <1>2, <4>1 DEF ScoredRating, RatingAccount, RatingState
    <3> QED  BY <1>0, <3>1, <3>2 DEF KeepsRecord, RevealOpen
  <2> QED  BY <2>1, <2>2
<1>3. ASSUME NEW w \in Wallets, NEW j \in RatingJobs, ExpireRating(w, j)
      PROVE  KeepsRecord(rating[k], rating'[k])
  <2>1. CASE j # k
    BY <1>0, <1>3, <2>1 DEF ExpireRating, KeepsRecord, HasRating
  <2>2. CASE j = k
    <3> DEFINE s == [rating[k] EXCEPT !.state = "Expired"]
    <3>1. rating[k].state = "Pending" /\ rating'[k] = s
      BY <1>0, <1>3, <2>2 DEF ExpireRating
    <3>2. s.commitment = rating[k].commitment /\ s.party = rating[k].party /\ s \in RatingAccount
      BY <1>0 DEF RatingAccount, RatingState
    <3> QED  BY <1>0, <3>1, <3>2 DEF KeepsRecord
  <2> QED  BY <2>1, <2>2
<1>4. CASE AdvanceSlot
  BY <1>0, <1>4 DEF AdvanceSlot, KeepsRecord, HasRating
<1> QED  BY <1>1, <1>2, <1>3, <1>4 DEF RatingNext

LEMMA RatingKeptByAll ==
    ASSUME IInv, [Next]_vars, NEW k \in RatingJobs, HasRating(k)
    PROVE  KeepsRecord(rating[k], rating'[k])
<1>1. CASE RatingNext
  BY <1>1, RatingKept
<1>2. CASE UNCHANGED rating
  BY <1>2 DEF KeepsRecord, HasRating
<1> QED  BY <1>1, <1>2 DEF Next, vars

\* A commitment cannot be replaced after the other party's was seen, nor can
\* the parties be.
THEOREM CommitmentsBind == Spec => CommitmentBinding
<1>1. IInv /\ [Next]_vars =>
        \A j \in RatingJobs : HasRating(j) =>
          /\ HasRating(j)'
          /\ rating'[j].party = rating[j].party
          /\ \A x \in RatingRole : Committed(rating[j], x) =>
                rating'[j].commitment[x] = rating[j].commitment[x]
  BY RatingKeptByAll DEF KeepsRecord, HasRating
<1> QED  BY <1>1, IInvHolds, PTL DEF Spec, CommitmentBinding

LEMMA AttestationKept ==
    ASSUME IInv, [Next]_vars, NEW k \in AttestedJobs, HasAttestation(k),
           attestation[k].confirmed # "None"
    PROVE  attestation'[k] = attestation[k]
<1>0. attestation \in [AttestedJobs -> AttestationAccount \cup {NoAttestation}]
  BY DEF IInv, TypeOK, AttestationTypeOK
<1>1. CASE UNCHANGED attestation
  BY <1>1
<1>2. CASE AttestationNext
  BY <1>0, <1>2 DEF AttestationNext, AttestQuality, ConfirmAttestation, DisputeAttestation,
     MayResolve, HasAttestation
<1> QED  BY <1>1, <1>2 DEF Next, vars

\* Revealed and expired ratings and resolved attestations never change again.
THEOREM FinalRecordsStay == Spec => RecordsFinal
<1>1. IInv /\ [Next]_vars =>
        /\ \A j \in RatingJobs : HasRating(j) /\ rating[j].state \in {"Revealed", "Expired"} =>
              rating'[j] = rating[j]
        /\ \A j \in AttestedJobs : HasAttestation(j) /\ attestation[j].confirmed # "None" =>
              attestation'[j] = attestation[j]
  BY RatingKeptByAll, AttestationKept DEF KeepsRecord
<1> QED  BY <1>1, IInvHolds, PTL DEF Spec, RecordsFinal

\* An honest party whose score is legal can always reveal once both have
\* committed: what it committed to opens, and it signs for its own role.
THEOREM RevealsReachable == Spec => []RevealReachable
<1>1. ASSUME IInv PROVE RevealReachable
  <2> SUFFICES ASSUME NEW j \in RatingJobs, HasRating(j), rating[j].state = "BothCommitted",
                      AgentsLoad(rating[j]), NEW x \in RatingRole,
                      rating[j].commitment[x].score \in 1 .. 10
               PROVE  CanReveal(rating[j].party[x], j, rating[j].commitment[x].score,
                                rating[j].commitment[x].salt)
    BY DEF RevealReachable
  <2> DEFINE r == rating[j]
             c == r.commitment[x]
  <2>1. r \in RatingAccount /\ GoodRating(r)
    BY <1>1, CommitRevealIsGood DEF IInv, TypeOK, RatingTypeOK, HasRating
  <2>2. c = Hash(c.score, c.salt)
    <3>1. c \in Commitment \ {ZeroHash}
      BY <2>1 DEF RatingAccount, GoodRating, Committed
    <3>2. PICK score \in Scores, salt \in Salts : c = Hash(score, salt)
      BY <3>1 DEF Commitment
    <3> QED  BY <3>2 DEF Hash
  <2>3. RoleOf(r, r.party[x]) = x
    BY DEF AgentsLoad, RoleOf, RatingRole
  <2>4. r.party[x] \in Parties(r)
    BY DEF Parties
  <2> QED  BY <2>2, <2>3, <2>4 DEF CanReveal, RevealOpen
<1> QED  BY <1>1, IInvHolds, PTL

\* A job whose two parties are one wallet: commit_rating accepts it, but it
\* can be neither revealed nor expired, so it never moves a reputation and
\* never leaves the board.
SelfRated(r) == r.party["Consumer"] = r.party["Specialist"]
SelfRatingsInert ==
    \A j \in RatingJobs : HasRating(j) /\ SelfRated(rating[j]) =>
        /\ rating[j].state \in {"Pending", "BothCommitted"}
        /\ \A x \in RatingRole : rating[j].score[x] = NoScore

LEMMA SelfRatingUnopened ==
    ASSUME IInv, [Next]_vars, NEW k \in RatingJobs, HasRating(k), SelfRated(rating[k]),
           rating[k].state \in {"Pending", "BothCommitted"}
    PROVE  /\ rating'[k].score = rating[k].score
           /\ rating'[k].state \in {"Pending", "BothCommitted"}
<1>0. /\ rating \in [RatingJobs -> RatingAccount \cup {NoRating}]
      /\ rating[k] \in RatingAccount
  BY DEF IInv, TypeOK, RatingTypeOK, HasRating
<1>1. ~AgentsLoad(rating[k])
  BY DEF AgentsLoad, SelfRated
<1>2. ASSUME NEW w \in Wallets, NEW j \in RatingJobs, NEW c \in Commitment,
             NEW role \in RatingRole, NEW consumer \in Wallets, NEW specialist \in Wallets,
             CommitRating(w, j, c, role, consumer, specialist)
      PROVE  /\ rating'[k].score = rating[k].score
             /\ rating'[k].state \in {"Pending", "BothCommitted"}
  <2>1. CASE j # k
    BY <1>0, <1>2, <2>1 DEF CommitRating
  <2>2. CASE j = k
    <3>1. rating'[k] = WrittenRating(rating[k], role, c)
      BY <1>0, <1>2, <2>2 DEF CommitRating, WrittenRating
    <3> QED  BY <1>0, <3>1 DEF WrittenRating, RatingAccount
  <2> QED  BY <2>1, <2>2
<1>3. ASSUME NEW w \in Wallets, NEW j \in RatingJobs, NEW score \in Scores,
             NEW salt \in Salts, RevealRating(w, j, score, salt)
      PROVE  rating'[k] = rating[k]
  BY <1>0, <1>1, <1>3 DEF RevealRating, CanReveal
<1>4. ASSUME NEW w \in Wallets, NEW j \in RatingJobs, ExpireRating(w, j)
      PROVE  rating'[k] = rating[k]
  BY <1>0, <1>1, <1>4 DEF ExpireRating
<1>5. CASE UNCHANGED rating
  BY <1>5
<1> QED  BY <1>2, <1>3, <1>4, <1>5 DEF Next, vars, RatingNext, AdvanceSlot

\* A wallet cannot raise, or lower, its reputation by rating itself.
THEOREM SelfRatingsStay == Spec => []SelfRatingsInert
<1>1. Init => SelfRatingsInert
  BY DEF Init, RatingInit, HasRating, SelfRatingsInert
<1>2. SelfRatingsInert /\ IInv /\ IInv' /\ [Next]_vars => SelfRatingsInert'
  <2> SUFFICES ASSUME SelfRatingsInert, IInv, IInv', [Next]_vars,
                      NEW k \in RatingJobs, HasRating(k)', SelfRated(rating[k])'
               PROVE  /\ rating'[k].state \in {"Pending", "BothCommitted"}
                      /\ \A x \in RatingRole : rating'[k].score[x] = NoScore
    BY DEF SelfRatingsInert
  <2>1. CASE HasRating(k)
    <3>1. SelfRated(rating[k])
      BY <2>1, RatingKeptByAll DEF KeepsRecord, SelfRated
    <3> QED  BY <2>1, <3>1, SelfRatingUnopened DEF SelfRatingsInert
  <2>2. CASE ~HasRating(k)
    <3>0. rating \in [RatingJobs -> RatingAccount \cup {NoRating}] /\ rating[k] = NoRating
      BY <2>2 DEF IInv, TypeOK, RatingTypeOK, HasRating
    <3>1. rating'[k] # rating[k]
      BY <3>0 DEF HasRating
    <3>2. PICK role \in RatingRole, c \in Commitment, s, t \in Wallets :
             rating'[k] = WrittenRating(FreshRating(s, t), role, c)
      <4>1. ASSUME NEW w \in Wallets, NEW j \in RatingJobs, NEW c \in Commitment,
                   NEW role \in RatingRole, NEW s \in Wallets, NEW t \in Wallets,
                   CommitRating(w, j, c, role, s, t)
            PROVE  rating'[k] = WrittenRating(FreshRating(s, t), role, c)
        BY <2>2, <3>0, <3>1, <4>1 DEF CommitRating, WrittenRating
      <4>2. RatingNext
        BY <3>1 DEF Next, vars
      <4>3. ASSUME NEW j \in RatingJobs, HasRating(j), NEW r, rating' = [rating EXCEPT ![j] = r]
            PROVE  FALSE
        BY <2>2, <3>0, <3>1, <4>3 DEF HasRating
      <4>4. ASSUME NEW w \in Wallets, NEW j \in RatingJobs, NEW x \in Scores, NEW s \in Salts
            PROVE  ~RevealRating(w, j, x, s)
        BY <4>3 DEF RevealRating, CanReveal
      <4>5. ASSUME NEW w \in Wallets, NEW j \in RatingJobs
            PROVE  ~ExpireRating(w, j)
        <5>1. ASSUME ExpireRating(w, j)
              PROVE  rating' = [rating EXCEPT ![j] = [rating[j] EXCEPT !.state = "Expired"]]
          BY <5>1 DEF ExpireRating
        <5> QED  BY <4>3, <5>1 DEF ExpireRating
      <4> QED  BY <3>1, <4>1, <4>2, <4>4, <4>5 DEF RatingNext, AdvanceSlot
    <3> QED  BY <3>2 DEF WrittenRating, FreshRating
  <2> QED  BY <2>1, <2>2
<1> QED  BY <1>1, <1>2, IInvHolds, PTL DEF Spec

-----------------------------------------------------------------------------
(* Every wallet's reputation is a ReputationMeter. *)

\* What one step may do to one AgentAccount.
Moves(old, new) ==
    /\ old \in AgentAccount /\ new \in AgentAccount
    /\ \/ new.reputation_score = old.reputation_score
       \/ new.reputation_score = Penalised(old.reputation_score)
       \/ \E r \in 1 .. 10 : new.reputation_score = RollingAverage(old.reputation_score, r)
Lives(old, new) ==
    \/ new = old
    \/ old = NoAgent /\ new \in AgentAccount /\ new.reputation_score = 0
    \/ old \in AgentAccount /\ new = NoAgent
    \/ Moves(old, new)

LEMMA LivesIsMetered ==
    ASSUME NEW v \in Wallets, Lives(agent[v], agent'[v])
    PROVE  Meter(v)!MeterNext \/ Reputation(v)' = Reputation(v)
<1> USE ReputationConstants
<1>0. \A a \in AgentAccount : a # NoAgent /\ a.reputation_score \in Nat
  <2>1. \A a \in AgentAccount : a.reputation_score \in Nat
    <3>1. \A a \in AgentAccount : a.reputation_score \in 0 .. MAX_SCORE
      BY DEF AgentAccount
    <3>2. \A x \in 0 .. MAX_SCORE : x \in Nat
      BY DEF MAX_SCORE
    <3> QED  BY <3>1, <3>2
  <2>2. \A a \in AgentAccount : a # NoAgent
    OBVIOUS
  <2> QED  BY <2>1, <2>2
<1>1. CASE agent'[v] = agent[v]
  BY <1>1 DEF Reputation, IsRegistered
<1>2. CASE agent[v] = NoAgent /\ agent'[v] \in AgentAccount /\ agent'[v].reputation_score = 0
  <2>1. Reputation(v) = NoAgent /\ Reputation(v)' = 0
    BY <1>0, <1>2 DEF Reputation, IsRegistered
  <2> QED  BY <2>1 DEF Meter!MeterNext, Meter!Appear
<1>3. CASE agent[v] \in AgentAccount /\ agent'[v] = NoAgent
  <2>1. Reputation(v) # NoAgent /\ Reputation(v)' = NoAgent
    BY <1>0, <1>3 DEF Reputation, IsRegistered
  <2> QED  BY <2>1 DEF Meter!MeterNext, Meter!Disappear
<1>4. CASE Moves(agent[v], agent'[v])
  <2>1. /\ Reputation(v) = agent[v].reputation_score /\ Reputation(v) # NoAgent
        /\ Reputation(v)' = agent'[v].reputation_score
    BY <1>0, <1>4 DEF Moves, Reputation, IsRegistered
  <2>2. CASE agent'[v].reputation_score = agent[v].reputation_score
    BY <2>1, <2>2
  <2>3. CASE agent'[v].reputation_score = Penalised(agent[v].reputation_score)
    <3>1. Meter(v)!Penalise
      BY <2>1, <2>3 DEF Meter!Penalise, Meter!Penalised, Penalised,
         Meter!RATING_EXPIRE_PENALTY, RATING_EXPIRE_PENALTY
    <3> QED  BY <3>1 DEF Meter!MeterNext
  <2>4. ASSUME NEW r \in 1 .. 10,
               agent'[v].reputation_score = RollingAverage(agent[v].reputation_score, r)
        PROVE  Meter(v)!MeterNext
    <3>1. Meter(v)!Rate(r)
      BY <2>1, <2>4 DEF Meter!Rate, Meter!RollingAverage, RollingAverage,
         Meter!AtMost, AtMost, Meter!MAX_SCORE, MAX_SCORE
    <3> QED  BY <3>1 DEF Meter!MeterNext
  <2> QED  BY <1>4, <2>2, <2>3, <2>4 DEF Moves
<1> QED  BY <1>1, <1>2, <1>3, <1>4 DEF Lives

LEMMA RatedMoves ==
    ASSUME NEW a \in AgentAccount, NEW score \in 1 .. 10
    PROVE  Moves(a, Rated(a, score))
<1>1. Rated(a, score).reputation_score = RollingAverage(a.reputation_score, score)
  BY DEF Rated, AgentAccount
<1> QED  BY <1>1, RatedAccount DEF Moves

LEMMA GhostedMoves ==
    ASSUME NEW a \in AgentAccount
    PROVE  Moves(a, Ghosted(a))
<1>1. Ghosted(a).reputation_score = Penalised(a.reputation_score)
  BY DEF Ghosted, AgentAccount
<1> QED  BY <1>1, GhostedAccount DEF Moves

LEMMA RegistryLives ==
    ASSUME IInv, RegistryNext, NEW v \in Wallets
    PROVE  Lives(agent[v], agent'[v])
<1>0. agent \in [Wallets -> AgentAccount \cup {NoAgent}]
  BY DEF IInv, TypeOK, RegistryTypeOK
<1>1. ASSUME NEW w \in Wallets, NEW t \in AgentType, NEW l \in ModelLengths,
             RegisterAgent(w, t, l)
      PROVE  Lives(agent[v], agent'[v])
  <2>1. FreshAgent(t) \in AgentAccount /\ FreshAgent(t).reputation_score = 0
    BY <1>1 DEF FreshAgent, AgentAccount, MAX_SCORE
  <2> QED  BY <1>0, <1>1, <2>1 DEF RegisterAgent, IsRegistered, Lives
<1>2. ASSUME NEW w \in Wallets, NEW b \in BOOLEAN, UpdateAgent(w, b)
      PROVE  Lives(agent[v], agent'[v])
  <2> DEFINE x == [agent[w] EXCEPT !.active = b]
  <2>1. agent[w] \in AgentAccount
    BY <1>0, <1>2 DEF UpdateAgent, IsRegistered
  <2>2. x \in AgentAccount /\ x.reputation_score = agent[w].reputation_score
    BY <1>2, <2>1 DEF AgentAccount
  <2>3. agent' = [agent EXCEPT ![w] = x]
    BY <1>2 DEF UpdateAgent
  <2> HIDE DEF x
  <2> QED  BY <1>0, <2>1, <2>2, <2>3 DEF Lives, Moves
<1>3. ASSUME NEW w \in Wallets, DeregisterAgent(w) PROVE Lives(agent[v], agent'[v])
  BY <1>0, <1>3 DEF DeregisterAgent, IsRegistered, Lives
<1> QED  BY <1>1, <1>2, <1>3 DEF RegistryNext

LEMMA RatingLives ==
    ASSUME IInv, RatingNext, NEW v \in Wallets
    PROVE  Lives(agent[v], agent'[v])
<1>0. /\ agent \in [Wallets -> AgentAccount \cup {NoAgent}]
      /\ rating \in [RatingJobs -> RatingAccount \cup {NoRating}]
      /\ \A k \in RatingJobs : HasRating(k) => GoodRating(rating[k])
  BY CommitRevealIsGood DEF IInv, TypeOK, RegistryTypeOK, RatingTypeOK
<1>1. ASSUME NEW w \in Wallets, NEW j \in RatingJobs, NEW score \in Scores, NEW salt \in Salts,
             RevealRating(w, j, score, salt)
      PROVE  Lives(agent[v], agent'[v])
  <2> DEFINE r == rating[j]
             role == IF w = r.party["Consumer"] THEN "Consumer" ELSE "Specialist"
             scored == [r EXCEPT !.score[role] = score]
             both == \A x \in RatingRole : scored.score[x] # NoScore
             p == r.party["Specialist"]
             q == r.party["Consumer"]
  <2>1. /\ r \in RatingAccount /\ role \in RatingRole /\ AgentsLoad(r) /\ score \in 1 .. 10
        /\ GoodRating(r)
        /\ agent' = IF both THEN ApplyScores(scored) ELSE agent
    BY <1>0, <1>1 DEF RevealRating, CanReveal, RoleOf, HasRating, RatingRole
  <2>2. /\ scored.party = r.party
        /\ both => \A x \in RatingRole : scored.score[x] \in 1 .. 10
    BY <2>1 DEF RatingAccount, RatingRole, GoodRating
  <2>3. /\ p \in Wallets /\ q \in Wallets /\ p # q
        /\ agent[p] \in AgentAccount /\ agent[q] \in AgentAccount
    BY <1>0, <2>1 DEF RatingAccount, RatingRole, AgentsLoad, IsRegistered
  <2>4. CASE both
    <3> DEFINE b == Rated(agent[p], scored.score["Consumer"])
               d == Rated(agent[q], scored.score["Specialist"])
    <3>1. agent' = [agent EXCEPT ![p] = b, ![q] = d]
      BY <1>0, <2>1, <2>2, <2>3, <2>4 DEF ApplyScores
    <3>2. Moves(agent[p], b) /\ Moves(agent[q], d)
      BY <2>2, <2>3, <2>4, RatedMoves DEF RatingRole
    <3> HIDE DEF b, d, p, q
    <3> QED  BY <1>0, <2>3, <3>1, <3>2 DEF Lives
  <2>5. CASE ~both
    BY <2>1, <2>5 DEF Lives
  <2> QED  BY <2>4, <2>5
<1>2. ASSUME NEW w \in Wallets, NEW j \in RatingJobs, ExpireRating(w, j)
      PROVE  Lives(agent[v], agent'[v])
  <2> DEFINE r == rating[j]
  <2>1. /\ AgentsLoad(r)
        /\ agent'[v] = IF \E x \in Ghosts(r) : r.party[x] = v
                       THEN Ghosted(agent[v]) ELSE agent[v]
    BY <1>2 DEF ExpireRating
  <2>2. CASE \E x \in Ghosts(r) : r.party[x] = v
    <3>1. agent[v] \in AgentAccount
      BY <1>0, <2>1, <2>2 DEF Ghosts, AgentsLoad, IsRegistered
    <3> QED  BY <2>1, <2>2, <3>1, GhostedMoves DEF Lives
  <2>3. CASE ~\E x \in Ghosts(r) : r.party[x] = v
    BY <2>1, <2>3 DEF Lives
  <2> QED  BY <2>2, <2>3
<1>3. ASSUME NEW w \in Wallets, NEW j \in RatingJobs, NEW c \in Commitment,
             NEW role \in RatingRole, NEW consumer \in Wallets, NEW specialist \in Wallets,
             CommitRating(w, j, c, role, consumer, specialist)
      PROVE  Lives(agent[v], agent'[v])
  BY <1>3 DEF CommitRating, registryVars, Lives
<1>4. CASE AdvanceSlot
  BY <1>4 DEF AdvanceSlot, registryVars, Lives
<1> QED  BY <1>1, <1>2, <1>3, <1>4 DEF RatingNext

LEMMA AttestationLives ==
    ASSUME IInv, AttestationNext, NEW v \in Wallets
    PROVE  Lives(agent[v], agent'[v])
<1>0. /\ agent \in [Wallets -> AgentAccount \cup {NoAgent}]
      /\ attestation \in [AttestedJobs -> AttestationAccount \cup {NoAttestation}]
  BY DEF IInv, TypeOK, RegistryTypeOK, AttestationTypeOK
<1>1. ASSUME NEW w \in Wallets, NEW j \in AttestedJobs, MayResolve(w, j)
      PROVE  attestation[j].judge \in Wallets /\ agent[attestation[j].judge] \in AgentAccount
  <2>1. attestation[j] \in AttestationAccount
    BY <1>0, <1>1 DEF MayResolve, HasAttestation
  <2> QED  BY <1>0, <1>1, <2>1 DEF MayResolve, IsRegistered, AttestationAccount
<1>2. ASSUME NEW w \in Wallets, NEW j \in AttestedJobs, ConfirmAttestation(w, j)
      PROVE  Lives(agent[v], agent'[v])
  <2> DEFINE u == attestation[j].judge
             x == MoreAccurate(agent[u].attestation_accuracy)
             y == RollingAverage(agent[u].reputation_score, 10)
             b == [agent[u] EXCEPT !.attestation_accuracy = x, !.reputation_score = y]
  <2>1. u \in Wallets /\ agent[u] \in AgentAccount /\ 10 \in 1 .. 10
    BY <1>1, <1>2 DEF ConfirmAttestation
  <2>2. agent' = [agent EXCEPT ![u] = b]
    BY <1>0, <1>2, <2>1 DEF ConfirmAttestation, AgentAccount
  <2>3. x \in 0 .. MAX_SCORE /\ y \in 0 .. MAX_SCORE
    <3>1. /\ agent[u].attestation_accuracy \in 0 .. MAX_SCORE
          /\ agent[u].reputation_score \in 0 .. MAX_SCORE
      BY <2>1 DEF AgentAccount
    <3>2. \A z \in 0 .. MAX_SCORE :
             RollingAverage(z, 10) \in 0 .. MAX_SCORE /\ MoreAccurate(z) \in 0 .. MAX_SCORE
      BY <2>1, ScoresInRange
    <3> QED  BY <3>1, <3>2
  <2>4. b \in AgentAccount /\ b.reputation_score = y
    <3> HIDE DEF x, y, u
    <3> QED  BY <2>1, <2>3 DEF AgentAccount
  <2>5. Moves(agent[u], b)
    <3> HIDE DEF b, u
    <3> QED  BY <2>1, <2>4 DEF Moves
  <2> HIDE DEF b, u
  <2> QED  BY <1>0, <2>1, <2>2, <2>5 DEF Lives
<1>3. ASSUME NEW w \in Wallets, NEW j \in AttestedJobs, DisputeAttestation(w, j)
      PROVE  Lives(agent[v], agent'[v])
  <2> DEFINE u == attestation[j].judge
             y == Penalised(agent[u].reputation_score)
             b == [agent[u] EXCEPT !.reputation_score = y]
  <2>1. u \in Wallets /\ agent[u] \in AgentAccount /\ 10 \in 1 .. 10
    BY <1>1, <1>3 DEF DisputeAttestation
  <2>2. agent' = [agent EXCEPT ![u] = b]
    BY <1>3 DEF DisputeAttestation
  <2>3. y \in 0 .. MAX_SCORE
    BY <2>1, ScoresInRange DEF AgentAccount
  <2>4. b \in AgentAccount /\ b.reputation_score = y
    <3> HIDE DEF y, u
    <3> QED  BY <2>1, <2>3 DEF AgentAccount
  <2>5. Moves(agent[u], b)
    <3> HIDE DEF b, u
    <3> QED  BY <2>1, <2>4 DEF Moves
  <2> HIDE DEF b, u
  <2> QED  BY <1>0, <2>1, <2>2, <2>5 DEF Lives
<1>4. CASE agent' = agent
  BY <1>4 DEF Lives
<1> QED  BY <1>2, <1>3, <1>4 DEF AttestationNext, AttestQuality, registryVars

\* Whatever the three instruction groups do to an account together, its
\* reputation only ever appears at 0, is rated, is penalised or disappears.
THEOREM ReputationIsMetered == Spec => ImplementsMeter
<1> DEFINE Step == \A w \in Wallets : Meter(w)!MeterNext \/ UNCHANGED Reputation(w)
<1>1. Init => \A w \in Wallets : Meter(w)!MeterInit
  BY DEF Init, RegistryInit, Reputation, IsRegistered, Meter!MeterInit
<1>2. ASSUME IInv, [Next]_vars PROVE Step
  <2>1. ASSUME NEW v \in Wallets PROVE Lives(agent[v], agent'[v])
    <3>1. CASE UNCHANGED vars
      BY <3>1 DEF vars, registryVars, Lives
    <3> QED  BY <1>2, <2>1, <3>1, RegistryLives, RatingLives, AttestationLives DEF Next
  <2> QED  BY <2>1, LivesIsMetered
<1>3. IInv /\ [Next]_vars => [Step]_vars
  BY <1>2
<1> HIDE DEF Step
<1>4. Spec => [][Step]_vars
  BY IInvHolds, <1>3, PTL DEF Spec
<1> QED  BY <1>1, <1>4 DEF ImplementsMeter, Step, Spec

-----------------------------------------------------------------------------
(* The bounds of a reputation, through its meter. *)

Ceiling == 9991

LEMMA AverageBelowCeiling ==
    \A old \in 0 .. Ceiling, r \in 1 .. 10 : RollingAverage(old, r) \in 0 .. Ceiling
<1> SUFFICES ASSUME NEW old \in 0 .. Ceiling, NEW r \in 1 .. 10
             PROVE  RollingAverage(old, r) \in 0 .. Ceiling
  OBVIOUS
<1>1. old \in Int /\ 0 <= old /\ old <= Ceiling /\ r \in Int /\ 1 <= r /\ r <= 10
  OBVIOUS
<1>2. (old * 9 + r * 1000) \div 10 \in 0 .. Ceiling
  BY SMTT(30), <1>1 DEF Ceiling
<1> QED  BY <1>2 DEF RollingAverage, AtMost, MAX_SCORE, Ceiling

\* new is old moved towards rating r, by at most ten points.
Pulled(old, r, new) ==
    /\ new <= old + 1000 /\ old <= new + 1000
    /\ old <= r * 1000 => new <= r * 1000
    /\ old >= r * 1000 => new >= r * 1000

LEMMA AveragePulls ==
    \A old \in 0 .. Ceiling, r \in 1 .. 10 : Pulled(old, r, RollingAverage(old, r))
<1> SUFFICES ASSUME NEW old \in 0 .. Ceiling, NEW r \in 1 .. 10
             PROVE  Pulled(old, r, RollingAverage(old, r))
  OBVIOUS
<1> QED  BY DEF Pulled, RollingAverage, AtMost, MAX_SCORE, Ceiling

LEMMA PenalisedBelowCeiling ==
    \A old \in 0 .. Ceiling : Penalised(old) \in 0 .. Ceiling
BY DEF Penalised, RATING_EXPIRE_PENALTY, Ceiling

\* The meter's arithmetic is the program's.
LEMMA MeterArithmetic ==
    ASSUME NEW w
    PROVE  /\ \A old, r : Meter(w)!RollingAverage(old, r) = RollingAverage(old, r)
           /\ \A old : Meter(w)!Penalised(old) = Penalised(old)
           /\ Meter(w)!Ceiling = Ceiling
BY DEF Meter!RollingAverage, RollingAverage, Meter!AtMost, AtMost, Meter!MAX_SCORE, MAX_SCORE,
   Meter!Penalised, Penalised, Meter!RATING_EXPIRE_PENALTY, RATING_EXPIRE_PENALTY, Meter!Ceiling, Ceiling

BelowCeiling == \A w \in Wallets : Meter(w)!BelowCeiling

LEMMA MeterStep ==
    ASSUME NEW w, Meter(w)!BelowCeiling,
           Meter(w)!MeterNext \/ UNCHANGED Reputation(w)
    PROVE  Meter(w)!BelowCeiling'
<1> DEFINE old == Reputation(w)
<1>0. /\ \A r : Meter(w)!RollingAverage(old, r) = RollingAverage(old, r)
      /\ Meter(w)!Penalised(old) = Penalised(old)
      /\ old # NoAgent => old \in 0 .. Ceiling
      /\ Meter(w)!BelowCeiling' <=> (old' # NoAgent => old' \in 0 .. Ceiling)
  BY MeterArithmetic DEF Meter!BelowCeiling
<1>1. CASE Meter(w)!Appear  BY <1>0, <1>1 DEF Meter!Appear, Ceiling
<1>2. CASE Meter(w)!Disappear  BY <1>0, <1>2 DEF Meter!Disappear
<1>3. CASE Meter(w)!Penalise
  <2>1. old \in 0 .. Ceiling /\ old' = Penalised(old)
    BY <1>0, <1>3 DEF Meter!Penalise
  <2> QED  BY <1>0, <2>1, PenalisedBelowCeiling
<1>4. ASSUME NEW r \in 1 .. 10, Meter(w)!Rate(r) PROVE Meter(w)!BelowCeiling'
  <2>1. old \in 0 .. Ceiling /\ old' = RollingAverage(old, r)
    BY <1>0, <1>4 DEF Meter!Rate
  <2> QED  BY <1>0, <2>1, AverageBelowCeiling
<1>5. CASE UNCHANGED Reputation(w)  BY <1>0, <1>5
<1> QED  BY <1>1, <1>2, <1>3, <1>4, <1>5 DEF Meter!MeterNext

\* No sequence of ratings, penalties, attestations and re-registrations lifts a
\* reputation above 9991 of the documented 10000, or makes the u16 wrap.
THEOREM ReputationBelowCeiling == Spec => []BelowCeiling
<1> DEFINE Step == \A w \in Wallets : Meter(w)!MeterNext \/ UNCHANGED Reputation(w)
<1>1. Init => BelowCeiling
  BY DEF Init, RegistryInit, Reputation, IsRegistered, BelowCeiling, Meter!BelowCeiling
<1>2. BelowCeiling /\ [Step]_vars => BelowCeiling'
  <2>1. ASSUME BelowCeiling, Step PROVE BelowCeiling'
    BY <2>1, MeterStep DEF BelowCeiling
  <2>2. ASSUME BelowCeiling, UNCHANGED vars PROVE BelowCeiling'
    BY <2>2 DEF BelowCeiling, Meter!BelowCeiling, Reputation, IsRegistered, vars, registryVars
  <2> QED  BY <2>1, <2>2
<1> HIDE DEF Step
<1>3. ImplementsMeter => [][Step]_vars
  BY DEF ImplementsMeter, Step
<1> QED  BY <1>1, <1>2, <1>3, ReputationIsMetered, PTL DEF Spec

\* A rating moves a reputation towards the rated value and by at most ten
\* points, whichever job it comes from.
RatingPulls ==
    \A w \in Wallets, r \in 1 .. 10 :
        Meter(w)!Rate(r) => Pulled(Reputation(w), r, Reputation(w)')

THEOREM RatingsPull == Spec => [][RatingPulls]_vars
<1>1. ASSUME BelowCeiling PROVE RatingPulls
  <2> SUFFICES ASSUME NEW w \in Wallets, NEW r \in 1 .. 10, Meter(w)!Rate(r)
               PROVE  Pulled(Reputation(w), r, Reputation(w)')
    BY DEF RatingPulls
  <2>1. /\ Reputation(w) # NoAgent
        /\ Reputation(w)' = Meter(w)!RollingAverage(Reputation(w), r)
    BY DEF Meter!Rate
  <2>2. Reputation(w) \in 0 .. Ceiling
    BY <1>1, <2>1, MeterArithmetic DEF BelowCeiling, Meter!BelowCeiling
  <2>3. Meter(w)!RollingAverage(Reputation(w), r) = RollingAverage(Reputation(w), r)
    BY MeterArithmetic
  <2>4. Pulled(Reputation(w), r, RollingAverage(Reputation(w), r))
    BY <2>2, AveragePulls
  <2> QED  BY <2>1, <2>3, <2>4
<1>2. BelowCeiling => [RatingPulls]_vars
  BY <1>1
<1> QED  BY <1>2, ReputationBelowCeiling, PTL
=============================================================================
