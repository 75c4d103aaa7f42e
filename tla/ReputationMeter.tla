--------------------------- MODULE ReputationMeter --------------------------
(***************************************************************************)
(* What may ever happen to the reputation of one wallet: it appears at 0   *)
(* when the wallet registers, disappears when it deregisters, and in       *)
(* between moves only by a rating of 1 to 10 or by the fixed penalty.      *)
(* AnchorReputation implements this specification for every wallet.        *)
(***************************************************************************)
EXTENDS ReputationArithmetic

CONSTANT Absent         \* the wallet has no AgentAccount; no score

VARIABLE reputation

MeterInit == reputation = Absent

Appear == reputation = Absent /\ reputation' = 0

Disappear == reputation # Absent /\ reputation' = Absent

Rate(rating) == reputation # Absent /\ reputation' = RollingAverage(reputation, rating)

Penalise == reputation # Absent /\ reputation' = Penalised(reputation)

MeterNext ==
    \/ Appear \/ Disappear \/ Penalise
    \/ \E rating \in 1 .. 10 : Rate(rating)

MeterSpec == MeterInit /\ [][MeterNext]_reputation

\* The documented range is 0..10000, but truncating division makes 9991 the
\* fixpoint of perfect ratings: the clamp never bites, a u16 never overflows
\* and no agent is ever shown at 100.00.
Ceiling == 9991
BelowCeiling == reputation # Absent => reputation \in 0 .. Ceiling
=============================================================================
