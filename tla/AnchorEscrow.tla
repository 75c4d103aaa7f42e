---------------------------- MODULE AnchorEscrow ----------------------------
(***************************************************************************)
(* The escrow instructions of programs/escrow (Anchor): lock, release,     *)
(* release through a MagicBlock PER session, delegate and cancel, over the *)
(* lamports of wallets and escrow accounts.                                *)
(*                                                                         *)
(* An instruction is atomic: the Solana runtime applies all its effects or *)
(* none, so every failing require! or account constraint is a guard.  Two  *)
(* transactions that write one account are serialised by the runtime, in   *)
(* an order nobody chooses: the interleaving of Next.                      *)
(***************************************************************************)
EXTENDS Naturals, FiniteSets

CONSTANTS
    Wallets,        \* system accounts that sign, pay and are paid
    Nonces,         \* nonces a payer passes to lock_escrow
    SessionKeys,    \* session keys a TEE may issue
    NoKey,          \* Option<Pubkey>::None
    NoEscrow,       \* no account lives at a PDA
    Amounts,        \* amounts passed to lock_escrow
    StartBalances,  \* lamports a wallet may start with
    Rent,           \* rent-exempt minimum of an EscrowAccount
    WalletRent,     \* rent-exempt minimum of an account without data
    CancelWindow,   \* CANCEL_WINDOW_SLOTS
    Slots,          \* slots at which transactions land
    MaxLocks        \* bound: times one PDA is locked

RentExempt(lamports) == lamports = 0 \/ lamports >= WalletRent

ASSUME EscrowConstants ==
    /\ Amounts \subseteq Nat
    /\ Slots \subseteq Nat /\ 0 \in Slots
    /\ Rent \in Nat /\ WalletRent \in Nat /\ WalletRent <= Rent
    /\ CancelWindow \in Nat /\ MaxLocks \in Nat
    /\ StartBalances \subseteq {b \in Nat : RentExempt(b)}
    /\ NoKey \notin SessionKeys
    /\ IsFiniteSet(Wallets) /\ IsFiniteSet(Nonces)

VARIABLES
    slot,      \* Clock::slot
    balance,   \* lamports of every wallet
    escrow,    \* the account at every escrow PDA, or NoEscrow
    locks,     \* history: how often each PDA has been locked
    grants     \* history: every delegation, with its signer and the lock it was under

vars == <<slot, balance, escrow, locks, grants>>

\* A PDA is determined by its seeds [b"escrow", payer, nonce].
EscrowId == Wallets \X Nonces

EscrowStatus == {"Locked", "Released", "Cancelled"}

EscrowAccount ==
    [payer : Wallets, payee : Wallets, amount : Nat, status : EscrowStatus,
     created_slot : Nat, delegated_to_per : BOOLEAN,
     per_session_key : SessionKeys \cup {NoKey}, lamports : Nat]

Grant == [signer : Wallets, escrow : EscrowId, lock : 0 .. MaxLocks, key : SessionKeys]

\* NoEscrow is a value of its own: neither an account nor what a ledger of
\* deals records of one (LedgerDeal below).
LedgerDealRecord == [payee : Wallets, amount : Nat, mature : BOOLEAN]
ASSUME NoEscrowIsNoAccount == NoEscrow \notin EscrowAccount \cup LedgerDealRecord

TypeOK ==
    /\ slot \in Slots
    /\ balance \in [Wallets -> Nat]
    /\ escrow \in [EscrowId -> EscrowAccount \cup {NoEscrow}]
    /\ locks \in [EscrowId -> 0 .. MaxLocks]
    /\ grants \subseteq Grant

IsOpen(e) == escrow[e] # NoEscrow

Credit(b, w, lamports) == [b EXCEPT ![w] = @ + lamports]

\* slot.saturating_sub(since)
ElapsedSlots(since) == IF slot >= since THEN slot - since ELSE 0

\* Anchor's `init` constraint: nothing lives at the PDA.
InitPda(e) == ~IsOpen(e)

\* lock_escrow_handler does not assign the two delegation fields: it relies on
\* `init` to hand it a zeroed account.  Mutant: the new account shows what the
\* account closed at the PDA held.
SessionLeftBehind(e) ==
    IF \E g \in grants : g.escrow = e
    THEN (CHOOSE g \in grants : g.escrow = e).key ELSE NoKey
SessionOnInit(e) == NoKey

\* The cancel window of an account.  Mutants: the age is measured from slot 0;
\* a delegated escrow cannot be cancelled.
WindowFromGenesis(acc) == slot >= CancelWindow
WindowUnlessDelegated(acc) ==
    ~acc.delegated_to_per /\ ElapsedSlots(acc.created_slot) >= CancelWindow
CancelWindowOver(acc) == ElapsedSlots(acc.created_slot) >= CancelWindow

\* What `close = payer` returns once the amount has been paid.  Mutant: the
\* balance the account had before the payment.
CloseRefundBeforePayment(acc) == acc.lamports
CloseRefund(acc) == acc.lamports - acc.amount

-----------------------------------------------------------------------------
Init ==
    /\ slot = 0
    /\ balance \in [Wallets -> StartBalances]
    /\ escrow = [e \in EscrowId |-> NoEscrow]
    /\ locks = [e \in EscrowId |-> 0]
    /\ grants = {}

\* lock_escrow: the payer pays the rent and the amount into a fresh account.
LockEscrow(payer, payee, nonce, amount) ==
    LET e == <<payer, nonce>> IN
    /\ amount > 0
    /\ InitPda(e)
    /\ locks[e] < MaxLocks
    /\ balance[payer] >= Rent + amount
    /\ RentExempt(balance[payer] - (Rent + amount))
    /\ balance' = [balance EXCEPT ![payer] = @ - (Rent + amount)]
    /\ escrow' = [escrow EXCEPT ![e] =
                    [payer |-> payer, payee |-> payee, amount |-> amount,
                     status |-> "Locked", created_slot |-> slot,
                     delegated_to_per |-> SessionOnInit(e) # NoKey,
                     per_session_key |-> SessionOnInit(e),
                     lamports |-> Rent + amount]]
    /\ locks' = [locks EXCEPT ![e] = @ + 1]
    /\ UNCHANGED <<slot, grants>>

\* delegate_escrow: the payer records the session key the TEE issued.
DelegateEscrow(signer, e, key) ==
    /\ IsOpen(e)
    /\ escrow[e].payer = signer
    /\ escrow[e].status = "Locked"
    /\ ~escrow[e].delegated_to_per
    /\ escrow' = [escrow EXCEPT ![e].delegated_to_per = TRUE,
                                ![e].per_session_key = key]
    /\ grants' = grants \cup {[signer |-> signer, escrow |-> e, lock |-> locks[e], key |-> key]}
    /\ UNCHANGED <<slot, balance, locks>>

\* Anchor's `close` constraint (the mutant forgets it).
CloseNothing(e) == escrow' = [escrow EXCEPT ![e].status = "Released",
                                           ![e].lamports = @ - escrow[e].amount]
Close(e) == escrow' = [escrow EXCEPT ![e] = NoEscrow]

\* Both release paths: the amount goes to the payee, `close = payer` returns
\* what is left in the account to the payer and removes the account.  The
\* runtime wants a credited account to end rent-exempt.
Settled(e, recipient) ==
    Credit(Credit(balance, recipient, escrow[e].amount),
           escrow[e].payer, CloseRefund(escrow[e]))
CanSettle(e, recipient) ==
    /\ escrow[e].lamports >= escrow[e].amount
    /\ RentExempt(Settled(e, recipient)[recipient])
SettleTo(e, recipient) ==
    /\ CanSettle(e, recipient)
    /\ balance' = Settled(e, recipient)
    /\ Close(e)
    /\ UNCHANGED <<slot, locks, grants>>

\* release_escrow (L1), whether or not the escrow is delegated.
ReleaseEscrow(signer, e, payee) ==
    /\ IsOpen(e)
    /\ escrow[e].payer = signer
    /\ escrow[e].payee = payee
    /\ escrow[e].status = "Locked"
    /\ SettleTo(e, payee)

\* release_escrow_per: needs the delegation and its session key.
ReleaseEscrowPer(signer, e, payee, key) ==
    /\ IsOpen(e)
    /\ escrow[e].payer = signer
    /\ escrow[e].payee = payee
    /\ escrow[e].status = "Locked"
    /\ escrow[e].delegated_to_per
    /\ escrow[e].per_session_key = key
    /\ SettleTo(e, payee)

\* cancel_escrow: after the window the payer takes everything back.
CanCancel(signer, e) ==
    /\ IsOpen(e)
    /\ escrow[e].payer = signer
    /\ escrow[e].status = "Locked"
    /\ CancelWindowOver(escrow[e])
    /\ CanSettle(e, escrow[e].payer)
CancelEscrow(signer, e) ==
    /\ CanCancel(signer, e)
    /\ SettleTo(e, escrow[e].payer)

\* The cluster moves on to a later slot.
AdvanceSlot ==
    /\ \E s \in Slots : s > slot /\ slot' = s
    /\ UNCHANGED <<balance, escrow, locks, grants>>

Next ==
    \/ \E p, q \in Wallets, n \in Nonces, a \in Amounts : LockEscrow(p, q, n, a)
    \/ \E w \in Wallets, e \in EscrowId, k \in SessionKeys : DelegateEscrow(w, e, k)
    \/ \E w, q \in Wallets, e \in EscrowId : ReleaseEscrow(w, e, q)
    \/ \E w, q \in Wallets, e \in EscrowId, k \in SessionKeys : ReleaseEscrowPer(w, e, q, k)
    \/ \E w \in Wallets, e \in EscrowId : CancelEscrow(w, e)
    \/ AdvanceSlot

Spec == Init /\ [][Next]_vars

-----------------------------------------------------------------------------
(* Safety *)

\* Every account that exists holds exactly its rent and the amount it owes, is
\* Locked (a settled account does not survive its instruction) and belongs to
\* the payer in its seeds: the u64 subtraction of a settlement cannot underflow.
EscrowBacked ==
    \A e \in EscrowId : IsOpen(e) =>
        /\ escrow[e].lamports = Rent + escrow[e].amount
        /\ escrow[e].amount > 0
        /\ escrow[e].status = "Locked"
        /\ escrow[e].payer = e[1]
        /\ escrow[e].created_slot <= slot

\* A delegated account carries the one session key that its own payer has
\* delegated to since this account was locked, and an account nobody delegated
\* since then carries none: neither a close and a lock with the same nonce, nor
\* another signer, nor a second delegation can put a key under which
\* release_escrow_per would release it.
GrantsSinceLock(e) == {g \in grants : g.escrow = e /\ g.lock = locks[e]}
DelegationFresh ==
    \A e \in EscrowId : IsOpen(e) =>
        IF escrow[e].delegated_to_per
        THEN GrantsSinceLock(e) = {[signer |-> e[1], escrow |-> e, lock |-> locks[e],
                                    key |-> escrow[e].per_session_key]}
        ELSE GrantsSinceLock(e) = {} /\ escrow[e].per_session_key = NoKey

\* The deal an open account records - payee, amount, start of the window - is
\* never rewritten: lock_escrow cannot overwrite a live escrow of the same nonce.
DealImmutable ==
    [][\A e \in EscrowId : IsOpen(e) /\ IsOpen(e)' =>
          \A f \in {"payer", "payee", "amount", "created_slot", "lamports"} :
             escrow'[e][f] = escrow[e][f]]_vars

\* A wallet loses lamports only in the step that opens one of its own escrows,
\* and then exactly what that account holds.
PayerOnlyFunds ==
    [][\A w \in Wallets : balance'[w] < balance[w] =>
          \E n \in Nonces :
             /\ ~IsOpen(<<w, n>>) /\ IsOpen(<<w, n>>)'
             /\ balance[w] - balance'[w] = escrow'[<<w, n>>].lamports]_vars

\* An escrow that disappears has paid its payee the full amount and returned
\* the rent, or - the window over - has returned everything to the payer.
Gain(w) == balance'[w] - balance[w]
PaidOut(acc) ==
    IF acc.payee = acc.payer THEN Gain(acc.payer) = acc.lamports
    ELSE Gain(acc.payee) = acc.amount /\ Gain(acc.payer) = acc.lamports - acc.amount
SettledInFull ==
    [][\A e \in EscrowId : IsOpen(e) /\ ~IsOpen(e)' =>
          \/ PaidOut(escrow[e])
          \/ /\ Gain(escrow[e].payer) = escrow[e].lamports
             /\ slot - escrow[e].created_slot >= CancelWindow]_vars

\* No instruction creates or destroys lamports.  The sum of a function is the
\* number of its coins: the pairs of an argument and a number up to its value.
Coins(f) == UNION {{x} \X (1 .. f[x]) : x \in DOMAIN f}
Held == [e \in EscrowId |-> IF IsOpen(e) THEN escrow[e].lamports ELSE 0]
TotalLamports == Cardinality(Coins(balance)) + Cardinality(Coins(Held))
LamportsConserved == [][TotalLamports' = TotalLamports]_vars

\* Whatever happened before - delegation, other deals, a payee without an
\* account - cancel_escrow asks nothing that a payer whose window is over does
\* not meet: it can take the funds back at once.
RefundReachable ==
    \A e \in EscrowId :
        IsOpen(e) /\ ElapsedSlots(escrow[e].created_slot) >= CancelWindow =>
            CanCancel(escrow[e].payer, e)

\* The program implements EscrowLedger: rent is still the payer's, a deal is
\* what an account records, and it matures when the cancel window is over.
OpenEscrows(w) == {n \in Nonces : IsOpen(<<w, n>>)}
LedgerWallet == [w \in Wallets |-> balance[w] + Rent * Cardinality(OpenEscrows(w))]
LedgerDeal ==
    [e \in EscrowId |->
        IF IsOpen(e)
        THEN [payee |-> escrow[e].payee, amount |-> escrow[e].amount,
              mature |-> ElapsedSlots(escrow[e].created_slot) >= CancelWindow]
        ELSE NoEscrow]
Ledger == INSTANCE EscrowLedger
            WITH NoDeal <- NoEscrow, wallet <- LedgerWallet, deal <- LedgerDeal
ImplementsLedger == Ledger!LedgerSpec
=============================================================================
