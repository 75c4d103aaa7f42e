--------------------------- MODULE AttestationDesk --------------------------
(***************************************************************************)
(* Judge attestations of programs/escrow: attest_quality creates one       *)
(* AttestationAccount per job, and the consumer the judge names confirms   *)
(* or disputes it.  Of the five scores only their range check matters.     *)
(***************************************************************************)
EXTENDS AgentRegistry

CONSTANTS
    AttestedJobs,       \* job ids that are attested
    NoAttestation       \* nothing lives at [b"attestation", job]

VARIABLE attestation    \* the AttestationAccount of every job, or NoAttestation

\* Option<bool>: pending, confirmed, disputed
Confirmed == {"None", "True", "False"}
ScoreVectors == {"in_range", "out_of_range"}

AttestationAccount == [judge : Wallets, consumer : Wallets, confirmed : Confirmed]

AttestationTypeOK ==
    attestation \in [AttestedJobs -> AttestationAccount \cup {NoAttestation}]

HasAttestation(j) == attestation[j] # NoAttestation

AttestationInit == attestation = [j \in AttestedJobs |-> NoAttestation]

\* attest_quality: by a registered judge of the right type, once per job.
AttestQuality(judge, job, scores, consumer) ==
    /\ IsRegistered(judge)
    /\ agent[judge].agent_type \in {"Attestation", "Both"}
    /\ scores = "in_range"
    /\ ~HasAttestation(job)
    /\ attestation' = [attestation EXCEPT ![job] =
                        [judge |-> judge, consumer |-> consumer, confirmed |-> "None"]]
    /\ UNCHANGED registryVars

\* Only the named consumer resolves an attestation, and only once; the judge's
\* account must load.  Mutant: it may be resolved again.
MayResolveAgain(consumer, job) ==
    /\ HasAttestation(job)
    /\ attestation[job].consumer = consumer
    /\ IsRegistered(attestation[job].judge)
MayResolve(consumer, job) ==
    /\ HasAttestation(job)
    /\ attestation[job].consumer = consumer
    /\ attestation[job].confirmed = "None"
    /\ IsRegistered(attestation[job].judge)

\* confirm_attestation counts as a rating of 10 for the judge.
ConfirmAttestation(consumer, job) ==
    /\ MayResolve(consumer, job)
    /\ attestation' = [attestation EXCEPT ![job].confirmed = "True"]
    /\ agent' = [agent EXCEPT
                    ![attestation[job].judge].attestation_accuracy = MoreAccurate(@),
                    ![attestation[job].judge].reputation_score = RollingAverage(@, 10)]
    /\ UNCHANGED <<burned, retired>>

DisputeAttestation(consumer, job) ==
    /\ MayResolve(consumer, job)
    /\ attestation' = [attestation EXCEPT ![job].confirmed = "False"]
    /\ agent' = [agent EXCEPT ![attestation[job].judge].reputation_score = Penalised(@)]
    /\ UNCHANGED <<burned, retired>>

AttestationNext ==
    \E w \in Wallets, j \in AttestedJobs :
        \/ \E scores \in ScoreVectors, consumer \in Wallets : AttestQuality(w, j, scores, consumer)
        \/ ConfirmAttestation(w, j)
        \/ DisputeAttestation(w, j)
=============================================================================
