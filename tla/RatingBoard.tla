----------------------------- MODULE RatingBoard ----------------------------
(***************************************************************************)
(* Blind commit-reveal ratings of programs/escrow: commit_rating,          *)
(* reveal_rating and expire_rating on one RatingAccount per job.           *)
(* A commitment is the opening it hides: sha256 is taken to be injective.  *)
(***************************************************************************)
EXTENDS AgentRegistry

CONSTANTS
    RatingJobs,     \* job ids that are rated
    Scores,         \* u8 scores parties commit to and reveal, in or out of 1..10
    Salts,          \* salts they hash them with
    ZeroHash,       \* [0u8; 32], the commitment of a party that has not committed
    NoRating,       \* no RatingAccount lives at [b"rating", job]
    NoScore,        \* Option<u8>::None
    ExpireSlots,    \* RATING_EXPIRE_SLOTS
    Slots           \* slots at which transactions land

VARIABLES
    slot,       \* Clock::slot
    rating      \* the RatingAccount of every job, or NoRating

ratingVars == <<slot, rating>>

RatingRole == {"Consumer", "Specialist"}
RatingState == {"Pending", "BothCommitted", "Revealed", "Expired"}
Hash(score, salt) == [score |-> score, salt |-> salt]
Commitment == {ZeroHash} \cup {Hash(x, s) : x \in Scores, s \in Salts}

RatingAccount ==
    [party : [RatingRole -> Wallets], commitment : [RatingRole -> Commitment],
     score : [RatingRole -> Scores \cup {NoScore}], state : RatingState,
     created_slot : Slots]

RatingTypeOK ==
    /\ slot \in Slots
    /\ rating \in [RatingJobs -> RatingAccount \cup {NoRating}]

HasRating(j) == rating[j] # NoRating
Committed(r, role) == r.commitment[role] # ZeroHash
Parties(r) == {r.party[role] : role \in RatingRole}

\* The AgentAccounts of both parties load, as two distinct writable accounts
\* (Anchor rejects one account passed twice as `mut`).
AgentsLoad(r) ==
    /\ \A role \in RatingRole : IsRegistered(r.party[role])
    /\ r.party["Consumer"] # r.party["Specialist"]

RatingInit ==
    /\ slot = 0
    /\ rating = [j \in RatingJobs |-> NoRating]

-----------------------------------------------------------------------------
\* Guards of the three handlers, each with the slip a mutant makes in it.
\* A rating takes commitments until it is final.
CommitOpen(r) == r.state \notin {"Revealed", "Expired"}

\* A party commits once (a commitment of 32 zero bytes does not count).
CommitAgain(r, role) == role \in RatingRole
CommitFree(r, role) == ~Committed(r, role)

\* Scores are revealed once both commitments stand.
RevealOpenEarly(r) == r.state \in {"Pending", "BothCommitted"}
RevealOpenUntilExpiry(r) == r.state = "BothCommitted" /\ slot - r.created_slot < ExpireSlots
RevealOpen(r) == r.state = "BothCommitted"

\* A rating expires when it is ExpireSlots old.
ExpireDue(r) == slot - r.created_slot >= ExpireSlots

\* Who is penalised on expiry: the party that did not commit, if the other did.
CommittedAlone(r) == {x \in RatingRole : Committed(r, x) /\ \E y \in RatingRole : ~Committed(r, y)}
Ghosts(r) == {x \in RatingRole : ~Committed(r, x) /\ \E y \in RatingRole : Committed(r, y)}
-----------------------------------------------------------------------------

FreshRating(consumer, specialist) ==
    [party |-> [x \in RatingRole |-> IF x = "Consumer" THEN consumer ELSE specialist],
     commitment |-> [x \in RatingRole |-> ZeroHash],
     score |-> [x \in RatingRole |-> NoScore],
     state |-> "Pending", created_slot |-> slot]

\* commit_rating: the first commit creates the account and names both parties;
\* afterwards the parties passed by the caller are ignored.
CommitRating(signer, job, commitment, role, consumer, specialist) ==
    LET r == IF HasRating(job) THEN rating[job] ELSE FreshRating(consumer, specialist)
        written == [r EXCEPT !.commitment[role] = commitment]
        both == \A x \in RatingRole : Committed(written, x)
    IN  /\ CommitOpen(r)
        /\ signer = r.party[role]
        /\ CommitFree(r, role)
        /\ rating' = [rating EXCEPT ![job] =
                        [written EXCEPT !.state = IF both THEN "BothCommitted" ELSE @]]
        /\ UNCHANGED <<slot, registryVars>>

\* apply_reputation_update
Rated(account, score) ==
    [account EXCEPT !.reputation_score = RollingAverage(@, score),
                    !.jobs_completed = @ + 1]

\* Each party's score of the other moves both accounts, in the reveal that
\* completes the pair.  Mutant: only the account that is rated first.
ApplyFirstScore(r) ==
    [agent EXCEPT ![r.party["Specialist"]] = Rated(@, r.score["Consumer"])]
ApplyScores(r) ==
    [agent EXCEPT
        ![r.party["Specialist"]] = Rated(@, r.score["Consumer"]),
        ![r.party["Consumer"]] = Rated(@, r.score["Specialist"])]

\* reveal_rating: the signer opens its own commitment; one that is both
\* parties is taken for the consumer.
RoleOf(r, signer) == IF signer = r.party["Consumer"] THEN "Consumer" ELSE "Specialist"
CanReveal(signer, job, score, salt) ==
    /\ HasRating(job)
    /\ AgentsLoad(rating[job])
    /\ RevealOpen(rating[job])
    /\ score \in 1 .. 10
    /\ signer \in Parties(rating[job])
    /\ rating[job].commitment[RoleOf(rating[job], signer)] = Hash(score, salt)
RevealRating(signer, job, score, salt) ==
    /\ CanReveal(signer, job, score, salt)
    /\ LET scored == [rating[job] EXCEPT !.score[RoleOf(rating[job], signer)] = score]
           both == \A x \in RatingRole : scored.score[x] # NoScore
       IN  /\ rating' = [rating EXCEPT ![job] =
                           [scored EXCEPT !.state = IF both THEN "Revealed" ELSE @]]
           /\ agent' = IF both THEN ApplyScores(scored) ELSE agent
    /\ UNCHANGED <<slot, burned, retired>>

Ghosted(account) ==
    [account EXCEPT !.reputation_score = Penalised(@), !.jobs_failed = @ + 1]

\* expire_rating: any caller; a rating nobody really committed to expires
\* without a penalty.
ExpireRating(caller, job) ==
    /\ HasRating(job)
    /\ AgentsLoad(rating[job])
    /\ rating[job].state = "Pending"
    /\ ExpireDue(rating[job])
    /\ rating' = [rating EXCEPT ![job].state = "Expired"]
    /\ agent' = [w \in Wallets |->
                    IF \E x \in Ghosts(rating[job]) : rating[job].party[x] = w
                    THEN Ghosted(agent[w]) ELSE agent[w]]
    /\ UNCHANGED <<slot, burned, retired>>

AdvanceSlot ==
    /\ \E s \in Slots : s > slot /\ slot' = s
    /\ UNCHANGED <<rating, registryVars>>

RatingNext ==
    \/ \E w \in Wallets, j \in RatingJobs :
        \/ \E c \in Commitment, role \in RatingRole, consumer, specialist \in Wallets :
              CommitRating(w, j, c, role, consumer, specialist)
        \/ \E x \in Scores, s \in Salts : RevealRating(w, j, x, s)
        \/ ExpireRating(w, j)
    \/ AdvanceSlot
=============================================================================
