--------------------------- MODULE MCDevnetPayment --------------------------
(* DevnetPayment with small amounts; calls are interchangeable. *)
EXTENDS DevnetPayment, TLC
Symmetry == Permutations(Calls) \cup Permutations(Keys)
=============================================================================
