------------------------- MODULE MCAnchorReputation -------------------------
(* Model checking of AnchorReputation, and what a comment of the program     *)
(* promises about the expiry of ratings.                                     *)
EXTENDS AnchorReputation, TLC

Symmetry == Permutations(Wallets) \cup Permutations(RatingJobs) \cup Permutations(AttestedJobs)

\* commit_rating.rs:13-15 "Recording both pubkeys upfront ensures expire_rating
\* can always load both AgentAccount PDAs, even when one party later ghosts".
ExpiryLoadsAgents ==
    \A j \in RatingJobs : HasRating(j) /\ rating[j].state = "Pending" =>
        \A w \in Parties(rating[j]) : IsRegistered(w)
=============================================================================
