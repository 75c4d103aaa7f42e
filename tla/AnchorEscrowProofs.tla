------------------------- MODULE AnchorEscrowProofs -------------------------
(* Machine-checked proofs about AnchorEscrow, for every set of wallets,      *)
(* nonces, session keys, amounts and slots.                                  *)
EXTENDS AnchorEscrow, FiniteSetTheorems, TLAPS

\* No grant belongs to a lock that is still to come: what a new account has to
\* find when it is locked under the next number.
GrantsPast == \A g \in grants : g.lock <= locks[g.escrow]

\* The state invariants together are inductive: the backing of an account is
\* what keeps every settlement inside the naturals.
IInv == TypeOK /\ EscrowBacked /\ DelegationFresh /\ GrantsPast

LEMMA InitIInv == Init => IInv
<1> USE EscrowConstants DEF EscrowId, EscrowAccount, IsOpen
<1>1. Init => TypeOK
  <2> SUFFICES ASSUME Init PROVE TypeOK
    OBVIOUS
  <2>1. balance \in [Wallets -> Nat]
    BY DEF Init
  <2>2. locks \in [EscrowId -> 0 .. MaxLocks]
    BY DEF Init
  <2> QED  BY <2>1, <2>2 DEF Init, TypeOK
<1>2. Init => EscrowBacked /\ DelegationFresh /\ GrantsPast
  BY DEF Init, EscrowBacked, DelegationFresh, GrantsPast
<1> QED  BY <1>1, <1>2 DEF IInv

\* Crediting a wallet keeps the balances natural numbers.
LEMMA CreditType ==
    ASSUME NEW b \in [Wallets -> Nat], NEW w \in Wallets, NEW x \in Nat
    PROVE  Credit(b, w, x) \in [Wallets -> Nat]
BY DEF Credit

\* lock_escrow opens one account, fully backed and without a session.
LEMMA LockStep ==
    ASSUME IInv, NEW p \in Wallets, NEW q \in Wallets, NEW n \in Nonces,
           NEW a \in Amounts, LockEscrow(p, q, n, a)
    PROVE  IInv'
<1> DEFINE e == <<p, n>>
           acc == [payer |-> p, payee |-> q, amount |-> a, status |-> "Locked",
                   created_slot |-> slot, delegated_to_per |-> FALSE,
                   per_session_key |-> NoKey, lamports |-> Rent + a]
<1> USE EscrowConstants
<1>0. /\ e \in EscrowId /\ a \in Nat /\ a > 0 /\ slot \in Nat /\ e[1] = p
      /\ TypeOK /\ EscrowBacked /\ DelegationFresh /\ GrantsPast
  BY DEF LockEscrow, IInv, TypeOK, EscrowId
<1>1. acc \in EscrowAccount
  BY <1>0 DEF EscrowAccount, EscrowStatus
<1>2. /\ escrow' = [escrow EXCEPT ![e] = acc] /\ UNCHANGED <<slot, grants>>
      /\ locks' = [locks EXCEPT ![e] = @ + 1]
  BY DEF LockEscrow, SessionOnInit
<1>3. TypeOK'
  <2>1. balance' \in [Wallets -> Nat]
    BY <1>0 DEF LockEscrow, TypeOK
  <2>2. locks' \in [EscrowId -> 0 .. MaxLocks]
    BY <1>0 DEF LockEscrow, TypeOK
  <2> QED  BY <1>0, <1>1, <1>2, <2>1, <2>2 DEF TypeOK
<1>4. \A f \in EscrowId : escrow'[f] = IF f = e THEN acc ELSE escrow[f]
  BY <1>0, <1>2 DEF TypeOK
<1>5. EscrowBacked'
  BY <1>0, <1>2, <1>4 DEF EscrowBacked, IsOpen
<1>6. \A f \in EscrowId : locks'[f] = IF f = e THEN locks[f] + 1 ELSE locks[f]
  BY <1>0, <1>2 DEF TypeOK
<1>7. \A g \in grants : g.escrow \in EscrowId /\ g.lock \in Nat /\ locks[g.escrow] \in Nat
  BY <1>0 DEF TypeOK, Grant
<1>8. GrantsPast'
  BY <1>0, <1>2, <1>6, <1>7 DEF GrantsPast
<1>9. DelegationFresh'
  <2> SUFFICES ASSUME NEW f \in EscrowId, IsOpen(f)'
               PROVE  IF escrow'[f].delegated_to_per
                      THEN GrantsSinceLock(f)' = {[signer |-> f[1], escrow |-> f, lock |-> locks'[f],
                                                   key |-> escrow'[f].per_session_key]}
                      ELSE GrantsSinceLock(f)' = {} /\ escrow'[f].per_session_key = NoKey
    BY DEF DelegationFresh
  <2>1. CASE f = e
    <3>1. \A g \in grants : ~(g.escrow = e /\ g.lock = locks'[e])
      BY <1>0, <1>6, <1>7 DEF GrantsPast
    <3> QED  BY <1>2, <1>4, <2>1, <3>1 DEF GrantsSinceLock
  <2>2. CASE f # e
    <3>1. escrow'[f] = escrow[f] /\ locks'[f] = locks[f] /\ grants' = grants /\ IsOpen(f)
      BY <1>2, <1>4, <1>6, <2>2 DEF IsOpen
    <3> QED  BY <1>0, <3>1 DEF DelegationFresh, GrantsSinceLock
  <2> QED  BY <2>1, <2>2
<1> QED  BY <1>3, <1>5, <1>8, <1>9 DEF IInv

\* delegate_escrow changes the session of one account and nothing else.
LEMMA DelegateStep ==
    ASSUME IInv, NEW w \in Wallets, NEW e \in EscrowId, NEW k \in SessionKeys,
           DelegateEscrow(w, e, k)
    PROVE  IInv'
<1> DEFINE acc == [escrow[e] EXCEPT !.delegated_to_per = TRUE, !.per_session_key = k]
           grant == [signer |-> w, escrow |-> e, lock |-> locks[e], key |-> k]
<1>0. TypeOK /\ EscrowBacked /\ DelegationFresh /\ GrantsPast /\ escrow[e] \in EscrowAccount
  BY DEF DelegateEscrow, IInv, TypeOK, IsOpen
<1>1. /\ escrow' = [escrow EXCEPT ![e] = acc] /\ UNCHANGED <<slot, balance, locks>>
      /\ grants' = grants \cup {grant}
  BY <1>0 DEF DelegateEscrow, TypeOK
<1>a. grant \in Grant /\ locks[e] \in Nat
  BY <1>0 DEF Grant, TypeOK
<1>2. /\ acc \in EscrowAccount
      /\ acc.lamports = escrow[e].lamports /\ acc.amount = escrow[e].amount
      /\ acc.status = escrow[e].status /\ acc.payer = escrow[e].payer
      /\ acc.created_slot = escrow[e].created_slot
      /\ acc.delegated_to_per /\ acc.per_session_key = k
  BY <1>0 DEF EscrowAccount
<1>3. \A f \in EscrowId : escrow'[f] = IF f = e THEN acc ELSE escrow[f]
  BY <1>0, <1>1 DEF TypeOK
<1>4. TypeOK'
  BY <1>0, <1>1, <1>2, <1>a DEF TypeOK
<1>5. EscrowBacked'
  <2>1. IsOpen(e)
    BY DEF DelegateEscrow
  <2> QED  BY <1>0, <1>1, <1>2, <1>3, <2>1 DEF EscrowBacked, IsOpen
<1>6. GrantsPast'
  BY <1>0, <1>1, <1>a DEF GrantsPast
<1>7. DelegationFresh'
  <2> SUFFICES ASSUME NEW f \in EscrowId, IsOpen(f)'
               PROVE  IF escrow'[f].delegated_to_per
                      THEN GrantsSinceLock(f)' = {[signer |-> f[1], escrow |-> f, lock |-> locks'[f],
                                                   key |-> escrow'[f].per_session_key]}
                      ELSE GrantsSinceLock(f)' = {} /\ escrow'[f].per_session_key = NoKey
    BY DEF DelegationFresh
  <2>1. CASE f = e
    <3>1. IsOpen(e) /\ ~escrow[e].delegated_to_per /\ escrow[e].payer = w
      BY DEF DelegateEscrow
    <3>2. GrantsSinceLock(e) = {} /\ w = e[1]
      BY <1>0, <3>1 DEF DelegationFresh, EscrowBacked
    <3>3. GrantsSinceLock(e)' = {grant}
      BY <1>1, <3>2 DEF GrantsSinceLock
    <3> QED  BY <1>1, <1>2, <1>3, <2>1, <3>2, <3>3
  <2>2. CASE f # e
    <3>1. escrow'[f] = escrow[f] /\ locks'[f] = locks[f] /\ IsOpen(f)
      BY <1>1, <1>3, <2>2 DEF IsOpen
    <3>2. GrantsSinceLock(f)' = GrantsSinceLock(f)
      BY <1>1, <2>2 DEF GrantsSinceLock
    <3> QED  BY <1>0, <3>1, <3>2 DEF DelegationFresh
  <2> QED  BY <2>1, <2>2
<1> QED  BY <1>4, <1>5, <1>6, <1>7 DEF IInv

\* A settlement removes one account; the rest is as before.
LEMMA SettleStep ==
    ASSUME IInv, NEW e \in EscrowId, NEW q \in Wallets, IsOpen(e), SettleTo(e, q)
    PROVE  IInv'
<1>0. /\ TypeOK /\ EscrowBacked /\ DelegationFresh /\ GrantsPast /\ escrow[e] \in EscrowAccount
  BY DEF IInv, TypeOK, IsOpen
<1>1. escrow' = [escrow EXCEPT ![e] = NoEscrow] /\ UNCHANGED <<slot, locks, grants>>
  BY DEF SettleTo, Close
<1>2. /\ escrow[e].payer \in Wallets /\ escrow[e].amount \in Nat
      /\ CloseRefund(escrow[e]) \in Nat
  BY <1>0 DEF EscrowAccount, CloseRefund, SettleTo, CanSettle
<1>3. balance' \in [Wallets -> Nat]
  <2>1. Credit(balance, q, escrow[e].amount) \in [Wallets -> Nat]
    BY <1>0, <1>2, CreditType DEF TypeOK
  <2>2. Credit(Credit(balance, q, escrow[e].amount), escrow[e].payer, CloseRefund(escrow[e]))
            \in [Wallets -> Nat]
    BY <1>2, <2>1, CreditType
  <2> QED  BY <2>2 DEF SettleTo, Settled
<1>4. \A f \in EscrowId : escrow'[f] = IF f = e THEN NoEscrow ELSE escrow[f]
  BY <1>0, <1>1 DEF TypeOK
<1>5. TypeOK'
  BY <1>0, <1>1, <1>3 DEF TypeOK
<1>6. EscrowBacked' /\ DelegationFresh' /\ GrantsPast'
  BY <1>0, <1>1, <1>4 DEF EscrowBacked, DelegationFresh, GrantsSinceLock, GrantsPast, IsOpen
<1> QED  BY <1>5, <1>6 DEF IInv

LEMMA NextIInv == IInv /\ [Next]_vars => IInv'
<1> SUFFICES ASSUME IInv, [Next]_vars PROVE IInv'
  OBVIOUS
<1>1. ASSUME NEW p \in Wallets, NEW q \in Wallets, NEW n \in Nonces, NEW a \in Amounts,
             LockEscrow(p, q, n, a)
      PROVE  IInv'
  BY <1>1, LockStep
<1>2. ASSUME NEW w \in Wallets, NEW e \in EscrowId, NEW k \in SessionKeys,
             DelegateEscrow(w, e, k)
      PROVE  IInv'
  BY <1>2, DelegateStep
<1>3. ASSUME NEW w \in Wallets, NEW q \in Wallets, NEW e \in EscrowId,
             ReleaseEscrow(w, e, q)
      PROVE  IInv'
  BY <1>3, SettleStep DEF ReleaseEscrow
<1>4. ASSUME NEW w \in Wallets, NEW q \in Wallets, NEW e \in EscrowId,
             NEW k \in SessionKeys, ReleaseEscrowPer(w, e, q, k)
      PROVE  IInv'
  BY <1>4, SettleStep DEF ReleaseEscrowPer
<1>5. ASSUME NEW w \in Wallets, NEW e \in EscrowId, CancelEscrow(w, e)
      PROVE  IInv'
  BY <1>5, SettleStep DEF CancelEscrow, CanCancel
<1>6. CASE AdvanceSlot
  BY <1>6, EscrowConstants DEF AdvanceSlot, IInv, TypeOK, EscrowBacked, DelegationFresh,
     GrantsSinceLock, GrantsPast, IsOpen, EscrowAccount
<1>7. CASE UNCHANGED vars
  BY <1>7 DEF vars, IInv, TypeOK, EscrowBacked, DelegationFresh, GrantsSinceLock,
     GrantsPast, IsOpen
<1> QED  BY <1>1, <1>2, <1>3, <1>4, <1>5, <1>6, <1>7 DEF Next

\* Every escrow account is backed by its rent and its amount, in every
\* reachable state: a release or a cancel always finds the lamports it moves.
THEOREM EscrowAlwaysBacked == Spec => []EscrowBacked
<1>1. IInv => EscrowBacked  BY DEF IInv
<1> QED  BY InitIInv, NextIInv, <1>1, PTL DEF Spec

\* Types, and with them: no balance ever becomes negative.
THEOREM EscrowTypeCorrect == Spec => []TypeOK
<1>1. IInv => TypeOK  BY DEF IInv
<1> QED  BY InitIInv, NextIInv, <1>1, PTL DEF Spec

\* A delegated account carries exactly the key its own payer delegated to since
\* the account was locked; an account locked again at a PDA inherits nothing.
THEOREM DelegationAlwaysFresh == Spec => []DelegationFresh
<1>1. IInv => DelegationFresh  BY DEF IInv
<1> QED  BY InitIInv, NextIInv, <1>1, PTL DEF Spec

-----------------------------------------------------------------------------
(* What a step does to the balances, and the action properties. *)

\* A settlement pays its recipient the amount and its payer the rent.
LEMMA SettleBalances ==
    ASSUME IInv, NEW e \in EscrowId, NEW q \in Wallets, IsOpen(e), SettleTo(e, q)
    PROVE  \A w \in Wallets :
              balance'[w] = balance[w] + (IF w = q THEN escrow[e].amount ELSE 0)
                                       + (IF w = escrow[e].payer THEN Rent ELSE 0)
<1> DEFINE acc == escrow[e]
<1> USE EscrowConstants
<1>1. /\ balance \in [Wallets -> Nat] /\ acc \in EscrowAccount
      /\ acc.lamports = Rent + acc.amount
  BY DEF IInv, TypeOK, EscrowBacked, IsOpen
<1>2. acc.payer \in Wallets /\ acc.amount \in Nat /\ CloseRefund(acc) = Rent
  BY <1>1 DEF EscrowAccount, CloseRefund
<1>3. balance' = Credit(Credit(balance, q, acc.amount), acc.payer, Rent)
  BY <1>2 DEF SettleTo, Settled
<1> QED  BY <1>1, <1>2, <1>3 DEF Credit

\* The only steps that move lamports or change which accounts exist: a lock,
\* a settlement of the payer's choice, a refund after the window.
Settles(e) ==
    \/ SettleTo(e, escrow[e].payee)
    \/ SettleTo(e, escrow[e].payer) /\ CancelWindowOver(escrow[e])
Funds(p, n) == \E q \in Wallets, a \in Amounts : LockEscrow(p, q, n, a)
Quiet ==
    /\ balance' = balance
    /\ \A e \in EscrowId : IsOpen(e)' = IsOpen(e)
    /\ \A e \in EscrowId : IsOpen(e) =>
          \A f \in {"payer", "payee", "amount", "created_slot", "lamports"} :
             escrow'[e][f] = escrow[e][f]

\* A delegation moves nothing and rewrites no deal.
LEMMA DelegateQuiet ==
    ASSUME IInv, NEW w \in Wallets, NEW e \in EscrowId, NEW k \in SessionKeys,
           DelegateEscrow(w, e, k)
    PROVE  Quiet /\ slot' = slot
<1> DEFINE acc == [escrow[e] EXCEPT !.delegated_to_per = TRUE, !.per_session_key = k]
<1>1. /\ IsOpen(e) /\ escrow[e] \in EscrowAccount /\ k \in SessionKeys
      /\ escrow \in [EscrowId -> EscrowAccount \cup {NoEscrow}]
  BY DEF DelegateEscrow, IInv, TypeOK, IsOpen
<1>2. escrow' = [escrow EXCEPT ![e] = acc] /\ balance' = balance
  BY <1>1 DEF DelegateEscrow
<1>3. /\ acc \in EscrowAccount
      /\ \A f \in {"payer", "payee", "amount", "created_slot", "lamports"} :
            acc[f] = escrow[e][f]
  BY <1>1 DEF EscrowAccount
<1>4. acc # NoEscrow
  BY <1>3, NoEscrowIsNoAccount
<1>5. \A f \in EscrowId : escrow'[f] = IF f = e THEN acc ELSE escrow[f]
  BY <1>1, <1>2
<1> HIDE DEF acc
<1> QED  BY <1>1, <1>2, <1>3, <1>4, <1>5 DEF Quiet, IsOpen, DelegateEscrow

LEMMA StepKinds ==
    ASSUME IInv, [Next]_vars
    PROVE  \/ \E p \in Wallets, n \in Nonces : Funds(p, n)
           \/ \E e \in EscrowId : IsOpen(e) /\ Settles(e)
           \/ Quiet
<1>1. ASSUME NEW w \in Wallets, NEW e \in EscrowId, NEW k \in SessionKeys,
             DelegateEscrow(w, e, k)
      PROVE  Quiet
  BY <1>1, DelegateQuiet
<1>2. ASSUME NEW w \in Wallets, NEW q \in Wallets, NEW e \in EscrowId,
             ReleaseEscrow(w, e, q)
      PROVE  IsOpen(e) /\ Settles(e)
  BY <1>2 DEF ReleaseEscrow, Settles
<1>3. ASSUME NEW w \in Wallets, NEW q \in Wallets, NEW e \in EscrowId,
             NEW k \in SessionKeys, ReleaseEscrowPer(w, e, q, k)
      PROVE  IsOpen(e) /\ Settles(e)
  BY <1>3 DEF ReleaseEscrowPer, Settles
<1>4. ASSUME NEW w \in Wallets, NEW e \in EscrowId, CancelEscrow(w, e)
      PROVE  IsOpen(e) /\ Settles(e)
  BY <1>4 DEF CancelEscrow, CanCancel, Settles
<1>5. ASSUME AdvanceSlot \/ UNCHANGED vars PROVE Quiet
  BY <1>5 DEF AdvanceSlot, vars, Quiet, IsOpen
<1> QED  BY <1>1, <1>2, <1>3, <1>4, <1>5 DEF Next, Funds

\* A lock touches one empty PDA and takes what it holds from its payer.
LEMMA FundsEffect ==
    ASSUME IInv, NEW p \in Wallets, NEW n \in Nonces, Funds(p, n)
    PROVE  /\ ~IsOpen(<<p, n>>) /\ IsOpen(<<p, n>>)'
           /\ \A e \in EscrowId : e # <<p, n>> => escrow'[e] = escrow[e]
           /\ balance[p] - balance'[p] = escrow'[<<p, n>>].lamports
           /\ \A w \in Wallets : w # p => balance'[w] = balance[w]
<1>1. PICK q \in Wallets, a \in Amounts : LockEscrow(p, q, n, a)
  BY DEF Funds
<1> DEFINE e == <<p, n>>
           acc == [payer |-> p, payee |-> q, amount |-> a, status |-> "Locked",
                   created_slot |-> slot, delegated_to_per |-> FALSE,
                   per_session_key |-> NoKey, lamports |-> Rent + a]
<1>2. /\ e \in EscrowId /\ a \in Nat /\ Rent \in Nat /\ slot \in Nat
      /\ balance \in [Wallets -> Nat]
      /\ escrow \in [EscrowId -> EscrowAccount \cup {NoEscrow}]
  BY EscrowConstants DEF EscrowId, IInv, TypeOK
<1>3. /\ ~IsOpen(e) /\ escrow' = [escrow EXCEPT ![e] = acc]
      /\ balance' = [balance EXCEPT ![p] = @ - (Rent + a)]
  BY <1>1 DEF LockEscrow, InitPda, SessionOnInit
<1>4. acc \in EscrowAccount /\ acc.lamports = Rent + a
  BY <1>2 DEF EscrowAccount, EscrowStatus
<1>5. acc # NoEscrow
  BY <1>4, NoEscrowIsNoAccount
<1> HIDE DEF acc
<1> QED  BY <1>2, <1>3, <1>4, <1>5 DEF IsOpen

\* A settlement removes one account and no other.
LEMMA SettlesEffect ==
    ASSUME IInv, NEW e \in EscrowId, IsOpen(e), Settles(e)
    PROVE  /\ slot' = slot
           /\ \A f \in EscrowId : escrow'[f] = IF f = e THEN NoEscrow ELSE escrow[f]
BY DEF Settles, SettleTo, Close, IInv, TypeOK

\* An open account's deal is never rewritten.
THEOREM DealsImmutable == Spec => DealImmutable
<1>1. IInv /\ [Next]_vars =>
        [\A e \in EscrowId : IsOpen(e) /\ IsOpen(e)' =>
           \A f \in {"payer", "payee", "amount", "created_slot", "lamports"} :
              escrow'[e][f] = escrow[e][f]]_vars
  BY StepKinds, FundsEffect, SettlesEffect DEF Quiet, IsOpen
<1> QED  BY InitIInv, NextIInv, <1>1, PTL DEF Spec, DealImmutable

\* Lamports leave a wallet only into an escrow it opens in that step.
THEOREM OnlyPayersFund == Spec => PayerOnlyFunds
<1> DEFINE Step == \A w \in Wallets : balance'[w] < balance[w] =>
             \E n \in Nonces :
                /\ ~IsOpen(<<w, n>>) /\ IsOpen(<<w, n>>)'
                /\ balance[w] - balance'[w] = escrow'[<<w, n>>].lamports
<1>1. ASSUME IInv, [Next]_vars PROVE Step
  <2>1. \A w \in Wallets : balance[w] \in Nat
    BY <1>1 DEF IInv, TypeOK
  <2>2. ASSUME NEW p \in Wallets, NEW n \in Nonces, Funds(p, n) PROVE Step
    <3>1. SUFFICES ASSUME NEW w \in Wallets, balance'[w] < balance[w]
                   PROVE  \E m \in Nonces :
                             /\ ~IsOpen(<<w, m>>) /\ IsOpen(<<w, m>>)'
                             /\ balance[w] - balance'[w] = escrow'[<<w, m>>].lamports
      OBVIOUS
    <3>2. w = p
      <4>1. w # p => balance'[w] = balance[w]
        BY <1>1, <2>2, FundsEffect
      <4>2. balance[w] \in Nat
        BY <2>1
      <4> QED  BY <3>1, <4>1, <4>2
    <3> QED  BY <1>1, <2>2, <3>2, FundsEffect
  <2>3. ASSUME NEW e \in EscrowId, IsOpen(e), Settles(e) PROVE Step
    <3>1. escrow[e].amount \in Nat /\ Rent \in Nat
          /\ escrow[e].payer \in Wallets /\ escrow[e].payee \in Wallets
      BY <1>1, <2>3, EscrowConstants DEF IInv, TypeOK, IsOpen, EscrowAccount
    <3>2. PICK q \in Wallets : SettleTo(e, q)
      BY <2>3, <3>1 DEF Settles
    <3>3. \A w \in Wallets : balance'[w] >= balance[w]
      BY <1>1, <2>1, <2>3, <3>1, <3>2, SettleBalances
    <3>4. \A w \in Wallets : balance'[w] \in Nat
      BY <1>1, NextIInv DEF IInv, TypeOK
    <3> QED  BY <2>1, <3>3, <3>4
  <2>4. ASSUME Quiet PROVE Step
    BY <2>1, <2>4 DEF Quiet
  <2> QED  BY <1>1, <2>2, <2>3, <2>4, StepKinds
<1>2. IInv /\ [Next]_vars => [Step]_vars
  BY <1>1
<1> HIDE DEF Step
<1>3. Spec => [][Step]_vars
  BY InitIInv, NextIInv, <1>2, PTL DEF Spec
<1> QED  BY <1>3 DEF PayerOnlyFunds, Step

\* An escrow that disappears has paid in full or, late enough, refunded in full.
THEOREM SettlementsComplete == Spec => SettledInFull
<1> DEFINE Step == \A e \in EscrowId : IsOpen(e) /\ ~IsOpen(e)' =>
          \/ PaidOut(escrow[e])
          \/ /\ Gain(escrow[e].payer) = escrow[e].lamports
             /\ slot - escrow[e].created_slot >= CancelWindow
<1>1. ASSUME IInv, [Next]_vars PROVE Step
  <2>1. SUFFICES ASSUME NEW e \in EscrowId, IsOpen(e), ~IsOpen(e)'
                 PROVE  \/ PaidOut(escrow[e])
                        \/ /\ Gain(escrow[e].payer) = escrow[e].lamports
                           /\ slot - escrow[e].created_slot >= CancelWindow
    OBVIOUS
  <2>2. /\ escrow[e].payer \in Wallets /\ escrow[e].payee \in Wallets
        /\ escrow[e].amount \in Nat /\ Rent \in Nat /\ CancelWindow \in Nat
        /\ escrow[e].lamports = Rent + escrow[e].amount
        /\ escrow[e].created_slot \in Nat /\ escrow[e].created_slot <= slot /\ slot \in Nat
        /\ \A w \in Wallets : balance[w] \in Nat
    BY <1>1, <2>1, EscrowConstants
       DEF IInv, TypeOK, IsOpen, EscrowAccount, EscrowBacked
  <2>3. Settles(e)
    BY <1>1, <2>1, StepKinds, FundsEffect, SettlesEffect DEF Quiet, IsOpen
  <2>4. CASE SettleTo(e, escrow[e].payee)
    BY <1>1, <2>1, <2>2, <2>4, SettleBalances DEF PaidOut, Gain
  <2>5. CASE SettleTo(e, escrow[e].payer) /\ CancelWindowOver(escrow[e])
    <3>1. Gain(escrow[e].payer) = escrow[e].lamports
      BY <1>1, <2>1, <2>2, <2>5, SettleBalances DEF Gain
    <3>2. slot - escrow[e].created_slot >= CancelWindow
      BY <2>2, <2>5 DEF CancelWindowOver, ElapsedSlots
    <3> QED  BY <3>1, <3>2
  <2> QED  BY <2>3, <2>4, <2>5 DEF Settles
<1>2. IInv /\ [Next]_vars => [Step]_vars
  BY <1>1
<1> HIDE DEF Step
<1>3. Spec => [][Step]_vars
  BY InitIInv, NextIInv, <1>2, PTL DEF Spec
<1> QED  BY <1>3 DEF SettledInFull, Step

-----------------------------------------------------------------------------
(* Sums: the coins of a function, and that lamports are conserved. *)

LEMMA Surjects ==
    ASSUME NEW S, NEW h, h = [x \in S |-> h[x]], IsFiniteSet(S)
    PROVE  IsFiniteSet({h[x] : x \in S})
<1> DEFINE T == {h[x] : x \in S}
<1>1. h \in Surjection(S, T)
  BY DEF Surjection
<1> QED  BY <1>1, FS_Surjection

\* One argument has as many coins as its value.
LEMMA Stack ==
    ASSUME NEW x, NEW n \in Nat
    PROVE  IsFiniteSet({x} \X (1 .. n)) /\ Cardinality({x} \X (1 .. n)) = n
<1>1. IsFiniteSet({x}) /\ Cardinality({x}) = 1
  BY FS_Singleton
<1>2. IsFiniteSet(1 .. n) /\ Cardinality(1 .. n) = n
  BY FS_Interval
<1>3. /\ IsFiniteSet({x} \X (1 .. n))
      /\ Cardinality({x} \X (1 .. n)) = Cardinality({x}) * Cardinality(1 .. n)
  BY <1>1, <1>2, FS_Product
<1> QED  BY <1>1, <1>2, <1>3

LEMMA CoinsFinite ==
    ASSUME NEW S, IsFiniteSet(S), NEW f \in [S -> Nat]
    PROVE  IsFiniteSet(Coins(f))
<1> DEFINE h == [x \in S |-> {x} \X (1 .. f[x])]
           T == {h[x] : x \in S}
<1>1. IsFiniteSet(T)
  <2>1. h = [x \in S |-> h[x]]
    OBVIOUS
  <2> HIDE DEF h
  <2> QED  BY <2>1, Surjects
<1>2. \A t \in T : IsFiniteSet(t)
  <2> SUFFICES ASSUME NEW x \in S PROVE IsFiniteSet({x} \X (1 .. f[x]))
    OBVIOUS
  <2> QED  BY Stack
<1>3. Coins(f) = UNION T
  BY DEF Coins
<1> HIDE DEF T
<1> QED  BY <1>1, <1>2, <1>3, FS_UNION

\* The coins of f are those of an argument and those of the others.
LEMMA CoinsSplit ==
    ASSUME NEW S, IsFiniteSet(S), NEW f \in [S -> Nat], NEW x \in S
    PROVE  LET rest == [y \in S \ {x} |-> f[y]]
           IN  /\ Cardinality(Coins(rest)) \in Nat
               /\ Cardinality(Coins(f)) = Cardinality(Coins(rest)) + f[x]
<1> DEFINE rest == [y \in S \ {x} |-> f[y]]
           top == {x} \X (1 .. f[x])
<1>1. IsFiniteSet(S \ {x}) /\ rest \in [S \ {x} -> Nat]
  BY FS_RemoveElement
<1>2. IsFiniteSet(Coins(rest)) /\ Cardinality(Coins(rest)) \in Nat
  BY <1>1, CoinsFinite, FS_CardinalityType
<1>3. IsFiniteSet(top) /\ Cardinality(top) = f[x] /\ f[x] \in Nat
  BY Stack
<1>4. Coins(f) = Coins(rest) \cup top
  <2>1. S = (S \ {x}) \cup {x} /\ DOMAIN rest = S \ {x} /\ DOMAIN f = S
    OBVIOUS
  <2> QED  BY <2>1 DEF Coins
<1>5. Coins(rest) \cap top = {}
  BY DEF Coins
<1>6. Cardinality(Coins(f)) = Cardinality(Coins(rest)) + Cardinality(top)
  <2>1. Cardinality(Coins(rest) \cap top) = 0
    BY <1>5, FS_EmptySet
  <2> HIDE DEF rest, top
  <2>2. Cardinality(Coins(rest) \cup top) =
            Cardinality(Coins(rest)) + Cardinality(top) - Cardinality(Coins(rest) \cap top)
    BY <1>2, <1>3, FS_Union
  <2> QED  BY <1>2, <1>3, <1>4, <2>1, <2>2
<1> QED  BY <1>2, <1>3, <1>6

\* Where two functions differ in one argument, their sums differ by as much.
LEMMA CoinsChange ==
    ASSUME NEW S, IsFiniteSet(S), NEW f \in [S -> Nat], NEW g \in [S -> Nat], NEW x \in S,
           \A y \in S : y # x => g[y] = f[y]
    PROVE  /\ Cardinality(Coins(f)) \in Nat /\ Cardinality(Coins(g)) \in Nat
           /\ Cardinality(Coins(g)) - g[x] = Cardinality(Coins(f)) - f[x]
<1> DEFINE rest(h) == [y \in S \ {x} |-> h[y]]
<1>1. rest(g) = rest(f)
  OBVIOUS
<1>2. /\ Cardinality(Coins(rest(f))) \in Nat
      /\ Cardinality(Coins(f)) = Cardinality(Coins(rest(f))) + f[x]
  BY CoinsSplit
<1>3. Cardinality(Coins(g)) = Cardinality(Coins(rest(g))) + g[x]
  BY CoinsSplit
<1> HIDE DEF rest
<1>4. f[x] \in Nat /\ g[x] \in Nat
  OBVIOUS
<1> QED  BY <1>1, <1>2, <1>3, <1>4

LEMMA HeldType ==
    ASSUME IInv
    PROVE  /\ balance \in [Wallets -> Nat] /\ Held \in [EscrowId -> Nat]
           /\ IsFiniteSet(Wallets) /\ IsFiniteSet(EscrowId)
<1>1. IsFiniteSet(EscrowId)
  BY EscrowConstants, FS_Product DEF EscrowId
<1> QED  BY <1>1, EscrowConstants DEF IInv, TypeOK, Held, IsOpen, EscrowAccount

\* No step creates or destroys lamports.
THEOREM NoLamportsLost == Spec => LamportsConserved
<1> DEFINE Step == TotalLamports' = TotalLamports
           Of(f) == Cardinality(Coins(f))
<1>1. ASSUME IInv, [Next]_vars PROVE Step
  <2>1. /\ IInv' /\ IsFiniteSet(Wallets) /\ IsFiniteSet(EscrowId)
        /\ balance \in [Wallets -> Nat] /\ balance' \in [Wallets -> Nat]
        /\ Held \in [EscrowId -> Nat] /\ Held' \in [EscrowId -> Nat]
    <3>1. IInv'
      BY <1>1, NextIInv
    <3>2. balance' \in [Wallets -> Nat] /\ Held' \in [EscrowId -> Nat]
      BY <3>1 DEF IInv, TypeOK, Held, IsOpen, EscrowAccount
    <3> QED  BY <1>1, <3>1, <3>2, HeldType
  <2>2. \A e \in EscrowId : /\ Held[e] = IF IsOpen(e) THEN escrow[e].lamports ELSE 0
                            /\ Held'[e] = IF IsOpen(e)' THEN escrow'[e].lamports ELSE 0
    BY DEF Held
  <2>3. ASSUME NEW p \in Wallets, NEW n \in Nonces, Funds(p, n) PROVE Step
    <3> DEFINE e == <<p, n>>
    <3>1. e \in EscrowId
      BY DEF EscrowId
    <3>2. /\ balance[p] - balance'[p] = Held'[e] /\ Held[e] = 0
          /\ \A w \in Wallets : w # p => balance'[w] = balance[w]
          /\ \A f \in EscrowId : f # e => Held'[f] = Held[f]
      BY <1>1, <2>2, <2>3, <3>1, FundsEffect DEF IsOpen
    <3>3. /\ Of(balance) \in Nat /\ Of(balance') \in Nat
          /\ Of(balance') - balance'[p] = Of(balance) - balance[p]
      BY <2>1, <3>2, CoinsChange
    <3>4. /\ Of(Held) \in Nat /\ Of(Held') \in Nat
          /\ Of(Held') - Held'[e] = Of(Held) - Held[e]
      BY <2>1, <3>1, <3>2, CoinsChange
    <3>5. /\ balance[p] \in Nat /\ balance'[p] \in Nat /\ Held'[e] \in Nat
      BY <2>1, <3>1
    <3> HIDE DEF Of
    <3>6. Of(balance') + Of(Held') = Of(balance) + Of(Held)
      BY <3>2, <3>3, <3>4, <3>5
    <3> QED  BY <3>6 DEF Of, TotalLamports
  <2>4. ASSUME NEW e \in EscrowId, IsOpen(e), Settles(e) PROVE Step
    <3>1. /\ escrow[e].amount \in Nat /\ Rent \in Nat
          /\ escrow[e].payer \in Wallets /\ escrow[e].payee \in Wallets
          /\ escrow[e].lamports = Rent + escrow[e].amount
      BY <1>1, <2>4, EscrowConstants DEF IInv, TypeOK, IsOpen, EscrowAccount, EscrowBacked
    <3>2. PICK q \in Wallets : SettleTo(e, q)
      BY <2>4, <3>1 DEF Settles
    <3> DEFINE payer == escrow[e].payer
               amount == escrow[e].amount
               paid == [w \in Wallets |-> balance[w] + IF w = q THEN amount ELSE 0]
    <3>3. \A w \in Wallets : balance'[w] = paid[w] + IF w = payer THEN Rent ELSE 0
      BY <1>1, <2>1, <2>4, <3>1, <3>2, SettleBalances
    <3>4. /\ paid \in [Wallets -> Nat] /\ paid[q] = balance[q] + amount
          /\ \A w \in Wallets : w # q => paid[w] = balance[w]
      BY <2>1, <3>1
    <3> HIDE DEF paid
    <3>5. /\ balance'[payer] = paid[payer] + Rent
          /\ \A w \in Wallets : w # payer => balance'[w] = paid[w]
      BY <3>1, <3>3, <3>4
    <3>6. /\ Of(balance) \in Nat /\ Of(paid) \in Nat
          /\ Of(paid) - paid[q] = Of(balance) - balance[q]
      BY <2>1, <3>4, CoinsChange
    <3>7. /\ Of(balance') \in Nat
          /\ Of(balance') - balance'[payer] = Of(paid) - paid[payer]
      BY <2>1, <3>1, <3>4, <3>5, CoinsChange
    <3>8. /\ Held[e] = Rent + amount /\ Held'[e] = 0
          /\ \A f \in EscrowId : f # e => Held'[f] = Held[f]
      BY <1>1, <2>2, <2>4, <3>1, SettlesEffect DEF IsOpen
    <3>9. /\ Of(Held) \in Nat /\ Of(Held') \in Nat
          /\ Of(Held') - Held'[e] = Of(Held) - Held[e]
      BY <2>1, <3>8, CoinsChange
    <3>10. balance[q] \in Nat /\ paid[payer] \in Nat
      BY <2>1, <3>1, <3>4
    <3> HIDE DEF Of
    <3>11. Of(balance') + Of(Held') = Of(balance) + Of(Held)
      <4>1. Of(paid) = Of(balance) + amount
        BY <3>1, <3>4, <3>6, <3>10
      <4>2. Of(balance') = Of(paid) + Rent
        BY <3>1, <3>5, <3>6, <3>7, <3>10
      <4>3. Of(Held') = Of(Held) - (Rent + amount)
        BY <3>1, <3>8, <3>9
      <4> QED  BY <3>1, <3>6, <3>9, <4>1, <4>2, <4>3
    <3> QED  BY <3>11 DEF Of, TotalLamports
  <2>5. ASSUME Quiet PROVE Step
    <3>1. Held' = Held
      BY <2>1, <2>2, <2>5 DEF Quiet, Held
    <3> QED  BY <2>5, <3>1 DEF Quiet, TotalLamports
  <2> QED  BY <1>1, <2>3, <2>4, <2>5, StepKinds
<1>2. IInv /\ [Next]_vars => [Step]_vars
  BY <1>1
<1> HIDE DEF Step
<1>3. Spec => [][Step]_vars
  BY InitIInv, NextIInv, <1>2, PTL DEF Spec
<1> QED  BY <1>3 DEF LamportsConserved, Step

\* A payer whose window is over meets every condition of cancel_escrow: the
\* account is its own, Locked and backed, and rent and amount together make its
\* wallet rent-exempt, whatever it held before.
THEOREM RefundsReachable == Spec => []RefundReachable
<1>1. IInv => RefundReachable
  <2> SUFFICES ASSUME IInv, NEW e \in EscrowId, IsOpen(e),
                      ElapsedSlots(escrow[e].created_slot) >= CancelWindow
               PROVE  CanCancel(escrow[e].payer, e)
    BY DEF RefundReachable
  <2> DEFINE acc == escrow[e]
  <2>1. /\ acc \in EscrowAccount /\ acc.lamports = Rent + acc.amount
        /\ acc.status = "Locked" /\ balance \in [Wallets -> Nat]
    BY DEF IInv, TypeOK, EscrowBacked, IsOpen
  <2>2. /\ acc.payer \in Wallets /\ acc.amount \in Nat /\ Rent \in Nat
        /\ WalletRent \in Nat /\ WalletRent <= Rent
    BY <2>1, EscrowConstants DEF EscrowAccount
  <2>3. acc.lamports >= acc.amount /\ CloseRefund(acc) = Rent
    BY <2>1, <2>2 DEF CloseRefund
  <2>4. Settled(e, acc.payer)[acc.payer] = balance[acc.payer] + acc.amount + Rent
    BY <2>1, <2>2, <2>3 DEF Settled, Credit
  <2>5. RentExempt(Settled(e, acc.payer)[acc.payer])
    BY <2>1, <2>2, <2>4 DEF RentExempt
  <2> QED  BY <2>1, <2>3, <2>5 DEF CanCancel, CanSettle, CancelWindowOver
<1> QED  BY <1>1, InitIInv, NextIInv, PTL DEF Spec

-----------------------------------------------------------------------------
(* AnchorEscrow implements EscrowLedger. *)

\* What the refinement mapping reads of a wallet and of a deal.
LEMMA MappingType ==
    ASSUME IInv
    PROVE  /\ \A w \in Wallets : /\ IsFiniteSet(OpenEscrows(w))
                                 /\ Cardinality(OpenEscrows(w)) \in Nat
           /\ LedgerWallet \in [Wallets -> Nat]
<1>1. ASSUME NEW w \in Wallets
      PROVE  /\ IsFiniteSet(OpenEscrows(w))
             /\ Cardinality(OpenEscrows(w)) \in Nat
  <2>1. OpenEscrows(w) \in SUBSET Nonces
    BY DEF OpenEscrows
  <2> QED  BY <2>1, EscrowConstants, FS_Subset, FS_CardinalityType
<1>2. LedgerWallet \in [Wallets -> Nat]
  <2>1. \A w \in Wallets : balance[w] + Rent * Cardinality(OpenEscrows(w)) \in Nat
    BY <1>1, EscrowConstants DEF IInv, TypeOK
  <2> QED  BY <2>1 DEF LedgerWallet
<1> QED  BY <1>1, <1>2

\* Opening one PDA counts one more rent for its payer, closing it one less.
LEMMA OpenOne ==
    ASSUME IInv, NEW p \in Wallets, NEW n \in Nonces,
           ~IsOpen(<<p, n>>), IsOpen(<<p, n>>)',
           \A e \in EscrowId : e # <<p, n>> => escrow'[e] = escrow[e]
    PROVE  /\ Cardinality(OpenEscrows(p))' = Cardinality(OpenEscrows(p)) + 1
           /\ \A w \in Wallets : w # p => OpenEscrows(w)' = OpenEscrows(w)
<1>1. OpenEscrows(p)' = OpenEscrows(p) \cup {n} /\ n \notin OpenEscrows(p)
  <2>1. \A m \in Nonces : m # n => <<p, m>> \in EscrowId /\ <<p, m>> # <<p, n>>
    BY DEF EscrowId
  <2> QED  BY <2>1 DEF OpenEscrows, IsOpen
<1>2. \A w \in Wallets : w # p => OpenEscrows(w)' = OpenEscrows(w)
  <2>1. \A w \in Wallets, m \in Nonces : w # p => <<w, m>> \in EscrowId /\ <<w, m>> # <<p, n>>
    BY DEF EscrowId
  <2> QED  BY <2>1 DEF OpenEscrows, IsOpen
<1>3. IsFiniteSet(OpenEscrows(p))
  BY MappingType
<1> QED  BY <1>1, <1>2, <1>3, FS_AddElement

LEMMA CloseOne ==
    ASSUME IInv, NEW p \in Wallets, NEW n \in Nonces, IsOpen(<<p, n>>),
           \A e \in EscrowId : escrow'[e] = IF e = <<p, n>> THEN NoEscrow ELSE escrow[e]
    PROVE  /\ Cardinality(OpenEscrows(p))' = Cardinality(OpenEscrows(p)) - 1
           /\ \A w \in Wallets : w # p => OpenEscrows(w)' = OpenEscrows(w)
<1>1. OpenEscrows(p)' = OpenEscrows(p) \ {n} /\ n \in OpenEscrows(p)
  <2>1. \A m \in Nonces : <<p, m>> \in EscrowId /\ (m # n => <<p, m>> # <<p, n>>)
    BY DEF EscrowId
  <2> QED  BY <2>1 DEF OpenEscrows, IsOpen
<1>2. \A w \in Wallets : w # p => OpenEscrows(w)' = OpenEscrows(w)
  <2>1. \A w \in Wallets, m \in Nonces : w # p => <<w, m>> \in EscrowId /\ <<w, m>> # <<p, n>>
    BY DEF EscrowId
  <2> QED  BY <2>1 DEF OpenEscrows, IsOpen
<1>3. IsFiniteSet(OpenEscrows(p))
  BY MappingType
<1> QED  BY <1>1, <1>2, <1>3, FS_RemoveElement

\* Rent that moves between a balance and an account leaves the sum alone.
LEMMA RentMoves ==
    ASSUME NEW c \in Nat, NEW b \in Nat, NEW a \in Nat
    PROVE  /\ b - (Rent + a) + Rent * (c + 1) = b + Rent * c - a
           /\ c > 0 => b + a + Rent + Rent * (c - 1) = b + Rent * c + a
           /\ Rent * c \in Nat
BY EscrowConstants

LEMMA LedgerInitStep == Init => Ledger!LedgerInit
<1> SUFFICES ASSUME Init PROVE Ledger!LedgerInit
  OBVIOUS
<1>1. LedgerWallet \in [Wallets -> Nat]
  BY InitIInv, MappingType
<1>2. LedgerDeal = [e \in EscrowId |-> NoEscrow]
  BY DEF LedgerDeal, Init, IsOpen
<1> QED  BY <1>1, <1>2 DEF Ledger!LedgerInit, Ledger!Slot, EscrowId

\* A lock is a deposit.
LEMMA LockIsDeposit ==
    ASSUME IInv, NEW p \in Wallets, NEW q \in Wallets, NEW n \in Nonces,
           NEW a \in Amounts, LockEscrow(p, q, n, a)
    PROVE  Ledger!Deposit(<<p, n>>, q, a)
<1> DEFINE e == <<p, n>>
           acc == [payer |-> p, payee |-> q, amount |-> a, status |-> "Locked",
                   created_slot |-> slot, delegated_to_per |-> FALSE,
                   per_session_key |-> NoKey, lamports |-> Rent + a]
           m == CancelWindow = 0
           d == [payee |-> q, amount |-> a, mature |-> m]
<1>1. Funds(p, n)
  BY DEF Funds
<1>2. /\ ~IsOpen(e) /\ IsOpen(e)'
      /\ \A f \in EscrowId : f # e => escrow'[f] = escrow[f]
      /\ \A w \in Wallets : w # p => balance'[w] = balance[w]
  BY <1>1, FundsEffect
<1>3. /\ e \in EscrowId /\ e[1] = p /\ a \in Nat /\ Rent \in Nat /\ slot \in Nat
      /\ balance \in [Wallets -> Nat] /\ CancelWindow \in Nat
  BY EscrowConstants DEF EscrowId, IInv, TypeOK
<1>4. /\ escrow'[e] = acc /\ slot' = slot
      /\ balance'[p] = balance[p] - (Rent + a) /\ balance[p] >= Rent + a
  BY <1>3 DEF LockEscrow, SessionOnInit, IInv, TypeOK
<1>5. LedgerDeal' = [LedgerDeal EXCEPT ![e] = d]
  <2>1. ElapsedSlots(slot) >= CancelWindow <=> m
    BY <1>3 DEF ElapsedSlots
  <2>2. LedgerDeal'[e] = d
    BY <1>2, <1>3, <1>4, <2>1 DEF LedgerDeal, ElapsedSlots
  <2>3. \A f \in EscrowId : f # e => LedgerDeal'[f] = LedgerDeal[f]
    BY <1>2, <1>4 DEF LedgerDeal, IsOpen, ElapsedSlots
  <2> QED  BY <1>3, <2>2, <2>3 DEF LedgerDeal
<1>6. /\ LedgerWallet[p] >= a
      /\ LedgerWallet' = [LedgerWallet EXCEPT ![p] = @ - a]
  <2>1. /\ Cardinality(OpenEscrows(p))' = Cardinality(OpenEscrows(p)) + 1
        /\ \A w \in Wallets : w # p => OpenEscrows(w)' = OpenEscrows(w)
    BY <1>2, OpenOne
  <2>2. Cardinality(OpenEscrows(p)) \in Nat
    BY MappingType
  <2>3. LedgerWallet'[p] = LedgerWallet[p] - a /\ LedgerWallet[p] >= a
    <3>1. /\ LedgerWallet[p] = balance[p] + Rent * Cardinality(OpenEscrows(p))
          /\ LedgerWallet'[p] = balance[p] - (Rent + a)
                                + Rent * (Cardinality(OpenEscrows(p)) + 1)
      BY <1>4, <2>1 DEF LedgerWallet
    <3>2. Rent * Cardinality(OpenEscrows(p)) \in Nat /\ balance[p] \in Nat
      BY <1>3, <2>2, RentMoves
    <3>3. LedgerWallet'[p] = balance[p] + Rent * Cardinality(OpenEscrows(p)) - a
      BY <1>3, <2>2, <3>1, <3>2, RentMoves
    <3> QED  BY <1>3, <1>4, <3>1, <3>2, <3>3
  <2>4. \A w \in Wallets : w # p => LedgerWallet'[w] = LedgerWallet[w]
    BY <1>2, <2>1 DEF LedgerWallet
  <2> QED  BY <2>3, <2>4 DEF LedgerWallet
<1>7. LedgerDeal[e] = NoEscrow
  BY <1>2, <1>3 DEF LedgerDeal
<1>8. m \in BOOLEAN
  OBVIOUS
<1> QED  BY <1>3, <1>5, <1>6, <1>7, <1>8 DEF Ledger!Deposit

\* A settlement is a payout or a refund.
LEMMA SettleIsPayment ==
    ASSUME IInv, NEW e \in EscrowId, IsOpen(e), Settles(e)
    PROVE  Ledger!PayOut(e) \/ Ledger!Refund(e)
<1>1. PICK p \in Wallets, n \in Nonces : e = <<p, n>>
  BY DEF EscrowId
<1>2. /\ escrow[e].payer = p /\ e[1] = p /\ escrow[e].payee \in Wallets
      /\ escrow[e].amount \in Nat /\ Rent \in Nat
      /\ \A w \in Wallets : balance[w] \in Nat
  BY <1>1, EscrowConstants DEF IInv, TypeOK, IsOpen, EscrowAccount, EscrowBacked
<1>3. /\ slot' = slot
      /\ \A f \in EscrowId : escrow'[f] = IF f = e THEN NoEscrow ELSE escrow[f]
  BY SettlesEffect
<1>4. /\ LedgerDeal[e] # NoEscrow
      /\ LedgerDeal[e].payee = escrow[e].payee
      /\ LedgerDeal[e].amount = escrow[e].amount
      /\ LedgerDeal[e].mature <=> CancelWindowOver(escrow[e])
  <2> DEFINE over == CancelWindowOver(escrow[e])
             d == [payee |-> escrow[e].payee, amount |-> escrow[e].amount, mature |-> over]
  <2>1. LedgerDeal[e] = d
    BY DEF LedgerDeal, CancelWindowOver
  <2>2. d \in LedgerDealRecord
    BY <1>2 DEF LedgerDealRecord, CancelWindowOver
  <2>3. LedgerDeal[e] # NoEscrow
    <3> HIDE DEF d
    <3> QED  BY <2>1, <2>2, NoEscrowIsNoAccount
  <2>4. LedgerDeal[e].mature <=> CancelWindowOver(escrow[e])
    <3> HIDE DEF over
    <3>1. LedgerDeal[e].mature = over
      BY <2>1
    <3> QED  BY <3>1 DEF over
  <2> QED  BY <2>1, <2>3, <2>4
<1>5. LedgerDeal' = [LedgerDeal EXCEPT ![e] = NoEscrow]
  BY <1>3 DEF LedgerDeal, IsOpen, ElapsedSlots
<1>6. ASSUME NEW q \in Wallets, SettleTo(e, q)
      PROVE  LedgerWallet' = [LedgerWallet EXCEPT ![q] = @ + escrow[e].amount]
  <2>1. \A w \in Wallets :
           balance'[w] = balance[w] + (IF w = q THEN escrow[e].amount ELSE 0)
                                    + (IF w = p THEN Rent ELSE 0)
    BY <1>2, <1>6, SettleBalances
  <2>2. /\ Cardinality(OpenEscrows(p))' = Cardinality(OpenEscrows(p)) - 1
        /\ \A w \in Wallets : w # p => OpenEscrows(w)' = OpenEscrows(w)
    BY <1>1, <1>3, CloseOne
  <2>3. Cardinality(OpenEscrows(p)) > 0
    <3>1. n \in OpenEscrows(p)
      BY <1>1 DEF OpenEscrows
    <3> QED  BY <3>1, MappingType, FS_EmptySet
  <2>4. \A w \in Wallets : Cardinality(OpenEscrows(w)) \in Nat
    BY MappingType
  <2> DEFINE paid(w) == IF w = q THEN escrow[e].amount ELSE 0
  <2>5. LedgerWallet'[p] = LedgerWallet[p] + paid(p)
    <3>1. /\ LedgerWallet[p] = balance[p] + Rent * Cardinality(OpenEscrows(p))
          /\ LedgerWallet'[p] = balance[p] + paid(p) + Rent
                                + Rent * (Cardinality(OpenEscrows(p)) - 1)
      BY <2>1, <2>2 DEF LedgerWallet
    <3>2. /\ Rent * Cardinality(OpenEscrows(p)) \in Nat
          /\ balance[p] \in Nat /\ paid(p) \in Nat
      BY <1>2, <2>4, RentMoves
    <3> HIDE DEF paid
    <3>3. balance[p] + paid(p) + Rent + Rent * (Cardinality(OpenEscrows(p)) - 1)
            = balance[p] + Rent * Cardinality(OpenEscrows(p)) + paid(p)
      <4>1. \A c, b, a \in Nat : c > 0 =>
               b + a + Rent + Rent * (c - 1) = b + Rent * c + a
        BY RentMoves
      <4> QED  BY ZenonT(30), <2>3, <2>4, <3>2, <4>1
    <3> QED  BY <3>1, <3>2, <3>3
  <2>6. ASSUME NEW w \in Wallets, w # p
        PROVE  LedgerWallet'[w] = LedgerWallet[w] + paid(w)
    <3>1. /\ LedgerWallet[w] = balance[w] + Rent * Cardinality(OpenEscrows(w))
          /\ LedgerWallet'[w] = balance[w] + paid(w) + Rent * Cardinality(OpenEscrows(w))
      BY <1>2, <2>1, <2>2, <2>6 DEF LedgerWallet
    <3>2. /\ Rent * Cardinality(OpenEscrows(w)) \in Nat
          /\ balance[w] \in Nat /\ paid(w) \in Nat
      BY <1>2, <2>4, RentMoves
    <3> QED  BY <3>1, <3>2
  <2>7. LedgerWallet \in [Wallets -> Nat]
    BY MappingType
  <2>8. \A w \in Wallets : LedgerWallet'[w] =
           IF w = q THEN LedgerWallet[w] + escrow[e].amount ELSE LedgerWallet[w]
    BY <1>2, <2>5, <2>6, <2>7
  <2> QED  BY <2>7, <2>8 DEF LedgerWallet
<1>7. CASE SettleTo(e, escrow[e].payee)
  BY <1>2, <1>4, <1>5, <1>6, <1>7 DEF Ledger!PayOut
<1>8. CASE SettleTo(e, escrow[e].payer) /\ CancelWindowOver(escrow[e])
  BY <1>1, <1>2, <1>4, <1>5, <1>6, <1>8 DEF Ledger!Refund
<1> QED  BY <1>7, <1>8 DEF Settles

LEMMA MatureRecord ==
    ASSUME NEW r \in LedgerDealRecord
    PROVE  [r EXCEPT !.mature = TRUE]
             = [payee |-> r.payee, amount |-> r.amount, mature |-> TRUE]
<1> DEFINE x == [r EXCEPT !.mature = TRUE]
<1>1. /\ x \in LedgerDealRecord
      /\ x.payee = r.payee /\ x.amount = r.amount /\ x.mature
  BY DEF LedgerDealRecord
<1>2. ASSUME NEW y \in LedgerDealRecord, y.mature
      PROVE  y = [payee |-> y.payee, amount |-> y.amount, mature |-> TRUE]
  BY <1>2 DEF LedgerDealRecord
<1> HIDE DEF x
<1>3. x = [payee |-> x.payee, amount |-> x.amount, mature |-> TRUE]
  BY <1>1, <1>2
<1>4. x = [payee |-> r.payee, amount |-> r.amount, mature |-> TRUE]
  BY <1>1, <1>3
<1> QED  BY <1>4 DEF x

\* The clock makes deals mature, and never the other way round.
LEMMA SlotIsMaturity ==
    ASSUME IInv, AdvanceSlot
    PROVE  \E S \in SUBSET {s \in Ledger!Slot : LedgerDeal[s] # NoEscrow} : Ledger!Mature(S)
<1> DEFINE S == {e \in EscrowId : IsOpen(e) /\ LedgerDeal'[e].mature}
<1>1. /\ escrow' = escrow /\ balance' = balance /\ slot' > slot
      /\ slot' \in Nat /\ slot \in Nat /\ CancelWindow \in Nat
  BY EscrowConstants DEF AdvanceSlot, IInv, TypeOK
<1>2. ASSUME NEW e \in EscrowId, IsOpen(e)
      PROVE  /\ LedgerDeal[e] # NoEscrow
             /\ LedgerDeal'[e] = IF e \in S THEN [LedgerDeal[e] EXCEPT !.mature = TRUE]
                                 ELSE LedgerDeal[e]
  <2>1. /\ escrow[e].created_slot \in Nat /\ escrow[e].created_slot <= slot
        /\ escrow[e].payee \in Wallets /\ escrow[e].amount \in Nat
    BY <1>2, EscrowConstants DEF IInv, TypeOK, IsOpen, EscrowAccount, EscrowBacked
  <2> DEFINE now == ElapsedSlots(escrow[e].created_slot) >= CancelWindow
             then == slot' - escrow[e].created_slot >= CancelWindow
  <2>2. /\ LedgerDeal[e] = [payee |-> escrow[e].payee, amount |-> escrow[e].amount,
                            mature |-> now]
        /\ LedgerDeal'[e] = [payee |-> escrow[e].payee, amount |-> escrow[e].amount,
                             mature |-> then]
    BY <1>1, <1>2, <2>1 DEF LedgerDeal, IsOpen, ElapsedSlots
  <2>3. now => then
    BY <1>1, <2>1 DEF ElapsedSlots
  <2>4. LedgerDeal[e] \in LedgerDealRecord
    BY <2>1, <2>2 DEF LedgerDealRecord
  <2>5. e \in S <=> then
    <3> HIDE DEF now, then
    <3>1. LedgerDeal'[e].mature = then
      BY <2>2
    <3> QED  BY <1>2, <3>1
  <2> HIDE DEF now, then, S
  <2>6. LedgerDeal'[e] = IF e \in S THEN [LedgerDeal[e] EXCEPT !.mature = TRUE]
                         ELSE LedgerDeal[e]
    <3>1. now \in BOOLEAN /\ then \in BOOLEAN
      BY DEF now, then
    <3>2. CASE e \in S
      <4>1. then = TRUE
        BY <2>5, <3>1, <3>2
      <4>2. LedgerDeal'[e] = [payee |-> escrow[e].payee, amount |-> escrow[e].amount,
                              mature |-> TRUE]
        BY <2>2, <4>1
      <4>3. [LedgerDeal[e] EXCEPT !.mature = TRUE] =
              [payee |-> escrow[e].payee, amount |-> escrow[e].amount, mature |-> TRUE]
        <5>1. LedgerDeal[e].payee = escrow[e].payee /\ LedgerDeal[e].amount = escrow[e].amount
          BY <2>2
        <5> QED  BY <2>4, <5>1, MatureRecord
      <4> QED  BY <3>2, <4>2, <4>3
    <3>3. CASE e \notin S
      <4>1. then = now
        BY <2>3, <2>5, <3>1, <3>3
      <4> QED  BY <2>2, <3>3, <4>1
    <3> QED  BY <3>2, <3>3
  <2> QED  BY <2>4, <2>6, NoEscrowIsNoAccount
<1>3. ASSUME NEW e \in EscrowId, ~IsOpen(e)
      PROVE  LedgerDeal[e] = NoEscrow /\ LedgerDeal'[e] = NoEscrow /\ e \notin S
  BY <1>1, <1>3 DEF LedgerDeal, IsOpen
<1>4. LedgerDeal' = [e \in EscrowId |-> LedgerDeal'[e]]
  BY DEF LedgerDeal
<1>5. S \in SUBSET {s \in EscrowId : LedgerDeal[s] # NoEscrow}
  BY <1>2
<1> HIDE DEF S
<1>6. LedgerDeal' = [e \in EscrowId |->
                       IF e \in S THEN [LedgerDeal[e] EXCEPT !.mature = TRUE]
                       ELSE LedgerDeal[e]]
  BY <1>2, <1>3, <1>4
<1>7. LedgerWallet' = LedgerWallet
  BY <1>1 DEF LedgerWallet, OpenEscrows, IsOpen
<1>8. Ledger!Slot = EscrowId
  BY DEF Ledger!Slot, EscrowId
<1> QED  BY <1>5, <1>6, <1>7, <1>8 DEF Ledger!Mature

\* A delegation changes neither.
LEMMA QuietDelegation ==
    ASSUME IInv, NEW w \in Wallets, NEW e \in EscrowId, NEW k \in SessionKeys,
           DelegateEscrow(w, e, k)
    PROVE  LedgerWallet' = LedgerWallet /\ LedgerDeal' = LedgerDeal
<1>1. /\ Quiet /\ slot' = slot
  BY DelegateQuiet
<1>2. \A f \in EscrowId : LedgerDeal'[f] = LedgerDeal[f]
  BY <1>1 DEF Quiet, LedgerDeal, ElapsedSlots
<1>3. LedgerDeal' = LedgerDeal
  BY <1>2 DEF LedgerDeal
<1>4. \A v \in Wallets : OpenEscrows(v)' = OpenEscrows(v)
  BY <1>1 DEF Quiet, OpenEscrows, EscrowId
<1>5. LedgerWallet' = LedgerWallet
  BY <1>1, <1>4 DEF Quiet, LedgerWallet
<1> QED  BY <1>3, <1>5

\* Every instruction is a ledger step or changes nothing the ledger sees.
LEMMA LedgerNextStep ==
    ASSUME IInv, [Next]_vars
    PROVE  [Ledger!LedgerNext]_(Ledger!ledgerVars)
<1>1. ASSUME NEW p \in Wallets, NEW q \in Wallets, NEW n \in Nonces, NEW a \in Amounts,
             LockEscrow(p, q, n, a)
      PROVE  Ledger!LedgerNext
  <2>1. <<p, n>> \in Ledger!Slot /\ a \in Amounts \ {0}
    BY <1>1, EscrowConstants DEF Ledger!Slot, LockEscrow
  <2> QED  BY <1>1, <2>1, LockIsDeposit DEF Ledger!LedgerNext
<1>2. ASSUME NEW e \in EscrowId, IsOpen(e), Settles(e)
      PROVE  Ledger!LedgerNext
  BY <1>2, SettleIsPayment DEF Ledger!LedgerNext, Ledger!Slot, EscrowId
<1>3. ASSUME NEW w \in Wallets, NEW e \in EscrowId, NEW k \in SessionKeys,
             DelegateEscrow(w, e, k)
      PROVE  UNCHANGED Ledger!ledgerVars
  BY <1>3, QuietDelegation DEF Ledger!ledgerVars
<1>4. ASSUME AdvanceSlot PROVE Ledger!LedgerNext
  BY <1>4, SlotIsMaturity DEF Ledger!LedgerNext
<1>5. ASSUME UNCHANGED vars PROVE UNCHANGED Ledger!ledgerVars
  BY <1>5 DEF vars, Ledger!ledgerVars, LedgerWallet, LedgerDeal, OpenEscrows, IsOpen, ElapsedSlots
<1>6. ASSUME NEW w \in Wallets, NEW q \in Wallets, NEW e \in EscrowId,
             ReleaseEscrow(w, e, q)
      PROVE  IsOpen(e) /\ Settles(e)
  BY <1>6 DEF ReleaseEscrow, Settles
<1>7. ASSUME NEW w \in Wallets, NEW q \in Wallets, NEW e \in EscrowId,
             NEW k \in SessionKeys, ReleaseEscrowPer(w, e, q, k)
      PROVE  IsOpen(e) /\ Settles(e)
  BY <1>7 DEF ReleaseEscrowPer, Settles
<1>8. ASSUME NEW w \in Wallets, NEW e \in EscrowId, CancelEscrow(w, e)
      PROVE  IsOpen(e) /\ Settles(e)
  BY <1>8 DEF CancelEscrow, CanCancel, Settles
<1> QED  BY <1>1, <1>2, <1>3, <1>4, <1>5, <1>6, <1>7, <1>8 DEF Next

\* The program keeps the ledger's promise: a deal ends once, paid to its payee
\* in full, or - only when mature - given back to its payer in full.
THEOREM EscrowImplementsLedger == Spec => ImplementsLedger
<1>1. Init => Ledger!LedgerInit
  BY LedgerInitStep
<1>2. IInv /\ [Next]_vars => [Ledger!LedgerNext]_(Ledger!ledgerVars)
  BY LedgerNextStep
<1>3. Spec => Ledger!LedgerSpec
  BY InitIInv, NextIInv, <1>1, <1>2, PTL DEF Spec, Ledger!LedgerSpec
<1> QED  BY <1>3 DEF ImplementsLedger
=============================================================================
