------------------------ MODULE ReputationArithmetic ------------------------
(* The integer arithmetic of reputation_score and attestation_accuracy, u16 *)
(* values of AgentAccount in hundredths of a point.                         *)
EXTENDS Integers

RATING_EXPIRE_PENALTY == 500
ATTESTATION_CONFIRM_WEIGHT == 1000
MAX_SCORE == 10000

AtMost(x, limit) == IF x <= limit THEN x ELSE limit

\* apply_reputation_update: (old * 9 + rating * 1000) / 10, clamped.
RollingAverage(old, rating) == AtMost((old * 9 + rating * 1000) \div 10, MAX_SCORE)

\* saturating_sub of the penalty.
Penalised(old) == IF old >= RATING_EXPIRE_PENALTY THEN old - RATING_EXPIRE_PENALTY ELSE 0

\* saturating_add of the weight, clamped.
MoreAccurate(old) == AtMost(old + ATTESTATION_CONFIRM_WEIGHT, MAX_SCORE)
=============================================================================
