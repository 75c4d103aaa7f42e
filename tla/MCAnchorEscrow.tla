--------------------------- MODULE MCAnchorEscrow ---------------------------
(* Model checking of AnchorEscrow: the symmetry of the small instance, and   *)
(* what the comments of the program say of its cancel window.                *)
EXTENDS AnchorEscrow, TLC

Symmetry == Permutations(Wallets) \cup Permutations(SessionKeys) \cup Permutations(Nonces)

\* cancel_escrow.rs:16 "Enforce 7-day cancel window"; constants.rs:6 gives
\* 400 ms per slot.
SlotMillis == 400
SevenDaysMillis == 7 * 24 * 3600 * 1000
CancelAfterSevenDays ==
    [][\A w \in Wallets, e \in EscrowId :
          CancelEscrow(w, e) /\ escrow[e].payee # escrow[e].payer =>
             ElapsedSlots(escrow[e].created_slot) * SlotMillis >= SevenDaysMillis]_vars
=============================================================================
