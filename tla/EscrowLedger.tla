---------------------------- MODULE EscrowLedger ----------------------------
(***************************************************************************)
(* What the escrow programs promise, without accounts, rent, delegation or *)
(* signatures: value leaves a wallet only by being deposited in a deal the *)
(* wallet opened, and a deal ends exactly once, by paying its payee in     *)
(* full or - only after it has matured - by returning the whole amount to  *)
(* the payer.  AnchorEscrow implements this specification.                 *)
(***************************************************************************)
EXTENDS Naturals

CONSTANTS
    Wallets,    \* parties
    Nonces,     \* a payer tells its deals apart by nonce
    Amounts,    \* values a deal may hold
    NoDeal      \* value of an empty slot

VARIABLES
    wallet,     \* what each party owns outside its deals
    deal        \* the open deal of each (payer, nonce) slot, or NoDeal

ledgerVars == <<wallet, deal>>

Slot == Wallets \X Nonces

LedgerInit ==
    /\ wallet \in [Wallets -> Nat]
    /\ deal = [s \in Slot |-> NoDeal]

\* A payer deposits amount in one of its empty slots.
Deposit(s, payee, amount) ==
    /\ deal[s] = NoDeal
    /\ wallet[s[1]] >= amount
    /\ wallet' = [wallet EXCEPT ![s[1]] = @ - amount]
    /\ \E mature \in BOOLEAN :
          deal' = [deal EXCEPT ![s] =
                     [payee |-> payee, amount |-> amount, mature |-> mature]]

\* The deal ends and its payee owns the whole amount.
PayOut(s) ==
    /\ deal[s] # NoDeal
    /\ wallet' = [wallet EXCEPT ![deal[s].payee] = @ + deal[s].amount]
    /\ deal' = [deal EXCEPT ![s] = NoDeal]

\* A mature deal ends and its payer owns the whole amount again.
Refund(s) ==
    /\ deal[s] # NoDeal
    /\ deal[s].mature
    /\ wallet' = [wallet EXCEPT ![s[1]] = @ + deal[s].amount]
    /\ deal' = [deal EXCEPT ![s] = NoDeal]

\* Time passes: some open deals mature.
Mature(S) ==
    /\ deal' = [s \in Slot |-> IF s \in S THEN [deal[s] EXCEPT !.mature = TRUE]
                                          ELSE deal[s]]
    /\ UNCHANGED wallet

LedgerNext ==
    \/ \E s \in Slot, payee \in Wallets, amount \in Amounts \ {0} : Deposit(s, payee, amount)
    \/ \E s \in Slot : PayOut(s) \/ Refund(s)
    \/ \E S \in SUBSET {s \in Slot : deal[s] # NoDeal} : Mature(S)

LedgerSpec == LedgerInit /\ [][LedgerNext]_ledgerVars
=============================================================================
