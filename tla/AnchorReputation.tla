--------------------------- MODULE AnchorReputation -------------------------
(***************************************************************************)
(* Registry, ratings and attestations of programs/escrow together: three   *)
(* instruction groups that write the same AgentAccounts, in any order.     *)
(***************************************************************************)
EXTENDS RatingBoard, AttestationDesk, FiniteSets

ASSUME ReputationConstants ==
    /\ Slots \subseteq Nat /\ 0 \in Slots
    /\ Scores \subseteq Nat /\ NoScore \notin Scores
    /\ ModelLengths \subseteq Nat /\ MaxRegistrations \in Nat /\ ExpireSlots \in Nat
    /\ ZeroHash \notin {Hash(x, s) : x \in Scores, s \in Salts}
    /\ NoAgent \notin AgentAccount /\ NoAgent \notin Nat
    /\ NoRating \notin RatingAccount
    /\ NoAttestation \notin AttestationAccount
    /\ IsFiniteSet(RatingJobs) /\ IsFiniteSet(AttestedJobs)

vars == <<registryVars, slot, rating, attestation>>

Init == RegistryInit /\ RatingInit /\ AttestationInit

Next ==
    \/ RegistryNext /\ UNCHANGED <<slot, rating, attestation>>
    \/ RatingNext /\ UNCHANGED attestation
    \/ AttestationNext /\ UNCHANGED <<slot, rating>>

Spec == Init /\ [][Next]_vars

-----------------------------------------------------------------------------
(* Safety *)

TypeOK == RegistryTypeOK /\ RatingTypeOK /\ AttestationTypeOK

\* A score becomes public only after both commitments are fixed, it is the
\* score its party committed to, and it is legal; only a rating with both
\* scores is Revealed, and no expired rating shows one.
CommitReveal ==
    \A j \in RatingJobs : HasRating(j) =>
        LET r == rating[j] IN
        /\ \A x \in RatingRole : r.score[x] # NoScore =>
              /\ \A y \in RatingRole : Committed(r, y)
              /\ r.commitment[x].score = r.score[x]
              /\ r.score[x] \in 1 .. 10
        /\ r.state = "Revealed" <=> \A x \in RatingRole : r.score[x] # NoScore
        /\ r.state = "BothCommitted" => \A x \in RatingRole : Committed(r, x)
        /\ r.state \in {"Pending", "Expired"} => \E x \in RatingRole : ~Committed(r, x)

\* A commitment, once made, binds: it cannot be replaced after the other
\* party's was seen, nor can the parties of the job be.
CommitmentBinding ==
    [][\A j \in RatingJobs : HasRating(j) =>
          /\ HasRating(j)'
          /\ rating'[j].party = rating[j].party
          /\ \A x \in RatingRole : Committed(rating[j], x) =>
                rating'[j].commitment[x] = rating[j].commitment[x]]_vars

\* Revealed and expired ratings and resolved attestations never change again.
RecordsFinal ==
    [][/\ \A j \in RatingJobs : HasRating(j) /\ rating[j].state \in {"Revealed", "Expired"} =>
             rating'[j] = rating[j]
       /\ \A j \in AttestedJobs : HasAttestation(j) /\ attestation[j].confirmed # "None" =>
             attestation'[j] = attestation[j]]_vars

\* The jobs that speak for or against a wallet.
CompletedJobs(w) == {j \in RatingJobs :
    HasRating(j) /\ rating[j].state = "Revealed" /\ w \in Parties(rating[j])}
GhostedJobs(w) == {j \in RatingJobs :
    /\ HasRating(j) /\ rating[j].state = "Expired"
    /\ \E x, y \in RatingRole :
          rating[j].party[x] = w /\ ~Committed(rating[j], x) /\ Committed(rating[j], y)}
ConfirmedJobs(w) == {j \in AttestedJobs :
    HasAttestation(j) /\ attestation[j].confirmed = "True" /\ attestation[j].judge = w}

\* Every record counts at most once for an account (a deregistered and
\* re-registered owner starts over, and does not get old records back).
CountedOnce ==
    \A w \in Wallets : IsRegistered(w) =>
        /\ agent[w].jobs_completed <= Cardinality(CompletedJobs(w))
        /\ agent[w].jobs_failed <= Cardinality(GhostedJobs(w))
        /\ agent[w].attestation_accuracy <=
              ATTESTATION_CONFIRM_WEIGHT * Cardinality(ConfirmedJobs(w))

\* And every record counts: whatever register_agent, update_agent and
\* deregister_agent did to the accounts in between, and in whichever order the
\* jobs of a wallet were revealed, expired and attested, each completed job and
\* each missing commitment is counted in exactly one AgentAccount the wallet has
\* had - the one it has now, or one it has closed.
CountedByNow(w) ==
    [completed |-> retired[w].completed + (IF IsRegistered(w) THEN agent[w].jobs_completed ELSE 0),
     failed |-> retired[w].failed + (IF IsRegistered(w) THEN agent[w].jobs_failed ELSE 0)]
NothingUncounted ==
    \A w \in Wallets :
        CountedByNow(w) = [completed |-> Cardinality(CompletedJobs(w)),
                           failed |-> Cardinality(GhostedJobs(w))]

\* A wallet's reputation moves only in the step that makes one of its records
\* final; it is penalised only for its own missing commitment, or by a dispute.
ScoredBy(w) ==
    \/ CompletedJobs(w)' # CompletedJobs(w)
    \/ ConfirmedJobs(w)' # ConfirmedJobs(w)
FaultedBy(w) ==
    \/ GhostedJobs(w)' # GhostedJobs(w)
    \/ \E j \in AttestedJobs : HasAttestation(j) /\ attestation[j].judge = w
           /\ attestation[j].confirmed = "None" /\ attestation'[j].confirmed = "False"
ReputationHasCause ==
    [][\A w \in Wallets : IsRegistered(w) /\ IsRegistered(w)' =>
          /\ agent'[w].reputation_score # agent[w].reputation_score => ScoredBy(w) \/ FaultedBy(w)
          /\ agent'[w].jobs_failed # agent[w].jobs_failed => FaultedBy(w)
          /\ agent'[w].jobs_completed # agent[w].jobs_completed => ScoredBy(w)]_vars

\* Once both have committed, nobody can stop an honest party with a legal
\* score from revealing, however long it waits (both accounts must load):
\* reveal_rating asks nothing that it does not meet.
RevealReachable ==
    \A j \in RatingJobs : HasRating(j) /\ rating[j].state = "BothCommitted" /\ AgentsLoad(rating[j]) =>
        \A x \in RatingRole :
            LET c == rating[j].commitment[x] IN
            c.score \in 1 .. 10 => CanReveal(rating[j].party[x], j, c.score, c.salt)

\* The reputation of every wallet is a ReputationMeter.
Reputation(w) == IF IsRegistered(w) THEN agent[w].reputation_score ELSE NoAgent
Meter(w) == INSTANCE ReputationMeter WITH Absent <- NoAgent, reputation <- Reputation(w)
ImplementsMeter ==
    /\ \A w \in Wallets : Meter(w)!MeterInit
    /\ [][\A w \in Wallets : Meter(w)!MeterNext \/ UNCHANGED Reputation(w)]_vars
=============================================================================
