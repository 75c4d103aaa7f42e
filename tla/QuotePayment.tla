---------------------------- MODULE QuotePayment ----------------------------
(***************************************************************************)
(* What "a capped, idempotent devnet payment for a bridge quote" promises: *)
(* the specialist of a quote is paid once, then the protocol fee once,     *)
(* then one receipt is kept.  DevnetPayment implements this specification  *)
(* as long as calls come one at a time and none of them fails half-way.    *)
(***************************************************************************)
EXTENDS Naturals

CONSTANT Quotes

VARIABLES paid, charged, receipted      \* per quote: transfers made, receipt kept

QuoteInit ==
    /\ paid = [q \in Quotes |-> 0]
    /\ charged = [q \in Quotes |-> 0]
    /\ receipted = [q \in Quotes |-> FALSE]

PaySpecialist(q) ==
    /\ paid[q] = 0
    /\ paid' = [paid EXCEPT ![q] = 1]
    /\ UNCHANGED <<charged, receipted>>

ChargeFee(q) ==
    /\ paid[q] = 1 /\ charged[q] = 0
    /\ charged' = [charged EXCEPT ![q] = 1]
    /\ UNCHANGED <<paid, receipted>>

KeepReceipt(q) ==
    /\ charged[q] = 1 /\ ~receipted[q]
    /\ receipted' = [receipted EXCEPT ![q] = TRUE]
    /\ UNCHANGED <<paid, charged>>

QuoteNext == \E q \in Quotes : PaySpecialist(q) \/ ChargeFee(q) \/ KeepReceipt(q)

QuoteSpec == QuoteInit /\ [][QuoteNext]_<<paid, charged, receipted>>
=============================================================================
