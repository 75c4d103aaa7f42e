------------------------- MODULE DevnetPaymentProofs ------------------------
(* What the receipts of devnet payments say is true, for any number of       *)
(* overlapping calls, quotes, keys and faults; what calls one at a time keep *)
(* to, and that without faults they implement QuotePayment.                  *)
EXTENDS DevnetPayment, FiniteSetTheorems, TLAPS

-----------------------------------------------------------------------------
(* The program of a call. *)

LEMMA ProgramPositions ==
    /\ DOMAIN Program = 1 .. 13
    /\ \A i \in 1 .. 3 : Program[i][1] = "estimate" /\ Program[i][2] \in Wallet
    /\ \A i \in 4 .. 6 : Program[i][1] = "fund" /\ Program[i][2] \in Wallet
    /\ \A i \in 7 .. 8 : Program[i][1] = "before" /\ Program[i][2] \in DOMAIN Price
    /\ Program[9] = Downstream /\ Program[10] = FeeLeg
    /\ \A i \in 11 .. 12 : Program[i][1] = "after" /\ Program[i][2] \in DOMAIN Price
    /\ Program[13] = <<"store">> /\ Program[13][1] = "store"
BY DEF Program, Wallet, Downstream, FeeLeg, Price

LEMMA ProgramShape ==
    ASSUME NEW i \in DOMAIN Program
    PROVE  /\ i \in 1 .. 13
           /\ Program[i] = Downstream <=> i = 9
           /\ Program[i] = FeeLeg <=> i = 10
           /\ Program[i] = <<"store">> <=> i = 13
           /\ Program[i][1] = "estimate" <=> i \in 1 .. 3
           /\ Program[i][1] = "fund" <=> i \in 4 .. 6
           /\ Program[i][1] = "pay" <=> i \in 9 .. 10
           /\ Program[i][1] = "before" <=> i \in 7 .. 8
           /\ Program[i][1] = "after" <=> i \in 11 .. 12
           /\ Program[i] \in Leg <=> i \in {4, 5, 6, 9, 10}
           /\ i \in 1 .. 6 => Program[i][2] \in Wallet
           /\ i \in 7 .. 12 => Program[i][2] \in DOMAIN Price
<1>1. i \in 1 .. 13
  BY ProgramPositions
<1>2. /\ Downstream[1] = "pay" /\ Downstream[2] = "specialist"
      /\ FeeLeg[1] = "pay" /\ FeeLeg[2] = "treasury"
      /\ Downstream # FeeLeg /\ <<"store">>[1] = "store"
      /\ DOMAIN Price = {"specialist", "treasury"}
  BY DEF Downstream, FeeLeg, Price
<1>3. Program[i] \in Leg <=> Program[i][1] \in {"fund", "pay"}
  BY DEF Leg, Steps
<1>4. CASE i \in 1 .. 3
  BY <1>1, <1>2, <1>3, <1>4, ProgramPositions
<1>5. CASE i \in 4 .. 6
  BY <1>1, <1>2, <1>3, <1>5, ProgramPositions
<1>6. CASE i \in 7 .. 8
  BY <1>1, <1>2, <1>3, <1>6, ProgramPositions
<1>7. CASE i = 9 \/ i = 10
  BY <1>1, <1>2, <1>3, <1>7, ProgramPositions
<1>8. CASE i \in 11 .. 12
  BY <1>1, <1>2, <1>3, <1>8, ProgramPositions
<1>9. CASE i = 13
  BY <1>1, <1>2, <1>3, <1>9, ProgramPositions
<1> QED  BY <1>1, <1>4, <1>5, <1>6, <1>7, <1>8, <1>9

LEMMA LegShape ==
    /\ Downstream \in Leg /\ FeeLeg \in Leg /\ Downstream # FeeLeg
    /\ \A l \in Leg :
          /\ l[1] \in {"fund", "pay"} /\ l[2] \in Wallet
          /\ l[1] = "pay" => l[2] # "payer"
<1>1. Program[9] \in Leg /\ Program[10] \in Leg
  BY ProgramPositions, ProgramShape
<1>2. ASSUME NEW l \in Leg
      PROVE  /\ l[1] \in {"fund", "pay"} /\ l[2] \in Wallet
             /\ l[1] = "pay" => l[2] # "payer"
  <2>1. PICK i \in DOMAIN Program : l = Program[i]
    BY DEF Leg, Steps
  <2>2. i \in {4, 5, 6, 9, 10}
    BY <2>1, ProgramShape
  <2> QED  BY <2>1, <2>2, ProgramPositions DEF Leg, Downstream, FeeLeg, Wallet
<1> QED  BY <1>1, <1>2, ProgramPositions DEF Downstream, FeeLeg

-----------------------------------------------------------------------------
(* The inductive invariant. *)

\* How far a call has come bounds which of its payments are on chain.
CallInv ==
    \A c \in Calls :
        /\ call[c].status # "idle" => call[c].request \in Request
        /\ \A l \in Leg : transfer[c][l] # NoTransfer => call[c].status # "idle"
        /\ call[c].status = "running" =>
              /\ call[c].answer = NoReceipt
              /\ call[c].at > 9 => Landed(c, Downstream)
              /\ call[c].at > 10 => Landed(c, FeeLeg)
        /\ transfer[c][Downstream] # NoTransfer => transfer[c][Downstream].amount = Amount
        /\ transfer[c][FeeLeg] # NoTransfer => transfer[c][FeeLeg].amount = Fee

\* The store has one receipt per quote, of a call that was made; keys and
\* answers are receipts of the store, answers for the quote that was asked.
StoreInv ==
    /\ \A r \in receipts : call[r.call].status # "idle"
    /\ \A r, s \in receipts : r.quote = s.quote => r = s
    /\ \A k \in Keys : keyed[k] # NoReceipt => keyed[k] \in receipts
    /\ \A c \in Calls : call[c].answer # NoReceipt =>
          call[c].answer \in receipts /\ call[c].answer.quote = call[c].request.quote

IInv == TypeOK /\ CallInv /\ ReceiptsPaid /\ StoreInv

LEMMA IInvImpliesOneAnswer == IInv => OneAnswer
BY DEF IInv, StoreInv, OneAnswer

LEMMA InitIInv == Init => IInv
<1> SUFFICES ASSUME Init PROVE IInv
  OBVIOUS
<1>1. Idle \in Call /\ Idle.status = "idle" /\ Idle.answer = NoReceipt
  <2>1. 1 \in DOMAIN Program
    BY ProgramPositions
  <2> QED  BY <2>1 DEF Idle, Call, Status
<1>2. TypeOK
  BY <1>1, PaymentConstants DEF Init, TypeOK
<1>3. CallInv
  BY <1>1, LegShape DEF Init, CallInv
<1>4. ReceiptsPaid /\ StoreInv
  BY <1>1 DEF Init, ReceiptsPaid, StoreInv
<1> QED  BY <1>2, <1>3, <1>4 DEF IInv

\* A running call moves on, or ends without an answer; nothing else changes.
LEMMA CallMoves ==
    ASSUME IInv, NEW c \in Calls, NEW new \in Call,
           call[c].status = "running",
           call' = [call EXCEPT ![c] = new],
           new.status \in {"running", "threw"},
           new.request = call[c].request, new.answer = call[c].answer,
           new.status = "running" => /\ new.at > 9 => Landed(c, Downstream)
                                     /\ new.at > 10 => Landed(c, FeeLeg),
           UNCHANGED <<transfer, lamports, receipts, keyed, crossed>>
    PROVE  IInv'
<1>1. /\ call' \in [Calls -> Call] /\ call'[c] = new
      /\ \A d \in Calls : d # c => call'[d] = call[d]
      /\ \A d \in Calls : /\ call'[d].request = call[d].request
                          /\ call'[d].answer = call[d].answer
                          /\ call'[d].status = "idle" <=> call[d].status = "idle"
  BY DEF IInv, TypeOK
<1>2. TypeOK'
  BY <1>1 DEF IInv, TypeOK
<1>3. CallInv'
  <2>1. ASSUME NEW d \in Calls, d # c
        PROVE  CallInv!(d)'
    BY <1>1, <2>1 DEF IInv, CallInv, Landed
  <2>2. CallInv!(c)'
    BY <1>1 DEF IInv, CallInv, Landed
  <2> QED  BY <2>1, <2>2 DEF CallInv
<1>4. ReceiptsPaid'
  BY <1>1 DEF IInv, ReceiptsPaid, Landed, TypeOK, Receipt
<1>5. StoreInv'
  BY <1>1 DEF IInv, StoreInv, TypeOK, Receipt
<1> QED  BY <1>2, <1>3, <1>4, <1>5 DEF IInv

LEMMA ThrowStep ==
    ASSUME IInv, NEW c \in Calls, Running(c), Throw(c),
           UNCHANGED <<transfer, lamports, receipts, keyed, crossed>>
    PROVE  IInv'
<1> DEFINE new == [call[c] EXCEPT !.status = "threw"]
<1>1. call[c] \in Call
  BY DEF IInv, TypeOK
<1>2. /\ new \in Call /\ new.status = "threw"
      /\ new.request = call[c].request /\ new.answer = call[c].answer
  BY <1>1 DEF Call, Status
<1>3. call' = [call EXCEPT ![c] = new]
  BY DEF Throw
<1> HIDE DEF new
<1> QED  BY <1>2, <1>3, CallMoves DEF Running

\* A running call passes its await, with what it then knows of its payments.
LEMMA AdvanceStep ==
    ASSUME IInv, NEW c \in Calls, Running(c), Advance(c), At(c) # <<"store">>,
           At(c) \in {Downstream, FeeLeg} => Landed(c, At(c)),
           UNCHANGED <<transfer, lamports, receipts, keyed, crossed>>
    PROVE  IInv'
<1> DEFINE new == [call[c] EXCEPT !.at = @ + 1]
<1>1. call[c] \in Call /\ call[c].at \in DOMAIN Program /\ At(c) = Program[call[c].at]
  BY DEF IInv, TypeOK, Call, At
<1>2. call[c].at \in 1 .. 12 /\ call[c].at + 1 \in DOMAIN Program
  BY <1>1, ProgramPositions
<1>3. /\ new \in Call /\ new.status = call[c].status /\ new.at = call[c].at + 1
      /\ new.request = call[c].request /\ new.answer = call[c].answer
  BY <1>1, <1>2 DEF Call
<1>4. call' = [call EXCEPT ![c] = new]
  BY DEF Advance
<1>5. call[c].at + 1 > 9 => Landed(c, Downstream)
  BY <1>1, <1>2, ProgramPositions DEF IInv, CallInv, Running
<1>6. call[c].at + 1 > 10 => Landed(c, FeeLeg)
  BY <1>1, <1>2, ProgramPositions DEF IInv, CallInv, Running
<1> HIDE DEF new
<1> QED  BY <1>3, <1>4, <1>5, <1>6, CallMoves DEF Running

LEMMA MissingIsNat ==
    ASSUME TypeOK, NEW c \in Calls, NEW w \in Wallet, call[c].request \in Request
    PROVE  Missing(c, w) \in Nat
<1>1. lamports[AccountOf(c, w)] \in Nat /\ Minimum(w) \in Nat
  BY PaymentConstants DEF TypeOK, AccountOf, Account, Request, Minimum, Debit
<1> QED  BY <1>1 DEF Missing

LEMMA EstimateStep ==
    ASSUME IInv, NEW c \in Calls, Estimate(c)
    PROVE  IInv'
<1> DEFINE w == At(c)[2]
           topUps == call[c].estimate + Missing(c, w)
           new == [call[c] EXCEPT !.estimate = topUps, !.at = @ + 1]
<1>1. /\ call[c] \in Call /\ call[c].at \in DOMAIN Program /\ At(c) = Program[call[c].at]
      /\ call[c].request \in Request
  BY DEF IInv, TypeOK, CallInv, Call, At, Estimate, Running
<1>2. call[c].at \in 1 .. 3 /\ w \in Wallet
  BY <1>1, ProgramShape DEF Estimate
<1>3. Missing(c, w) \in Nat
  BY <1>1, <1>2, MissingIsNat DEF IInv
<1>4. topUps \in Nat /\ call[c].at + 1 \in DOMAIN Program
  BY <1>1, <1>2, <1>3, ProgramPositions DEF Call
<1>7. call[c].status = "running" /\ UNCHANGED <<transfer, lamports, receipts, keyed, crossed>>
  BY DEF Estimate, Running
<1>5. CASE Throw(c)
  BY <1>5, ThrowStep DEF Estimate
<1>6. CASE call' = [call EXCEPT ![c].estimate = topUps, ![c].at = @ + 1]
  <2>1. call' = [call EXCEPT ![c] = new]
    BY <1>6
  <2> HIDE DEF topUps, w
  <2>2. /\ new \in Call /\ new.status = "running" /\ new.at = call[c].at + 1
        /\ new.request = call[c].request /\ new.answer = call[c].answer
    BY <1>1, <1>2, <1>4, <1>7 DEF Call
  <2>3. ~(new.at > 9) /\ ~(new.at > 10)
    BY <1>1, <1>2, <2>2
  <2> HIDE DEF new
  <2> QED  BY <1>7, <2>1, <2>2, <2>3, CallMoves
<1> QED  BY <1>5, <1>6 DEF Estimate

\* A call submits the transfer it is at.
LEMMA SubmitStep ==
    ASSUME IInv, NEW c \in Calls, NEW amount \in Nat, Submit(c, amount),
           Running(c), At(c) \in Leg, transfer[c][At(c)] = NoTransfer,
           At(c) = Downstream => amount = Amount, At(c) = FeeLeg => amount = Fee,
           UNCHANGED <<call, lamports, receipts, keyed, crossed>>
    PROVE  IInv'
<1> DEFINE t == [amount |-> amount, state |-> "sent"]
           l == At(c)
<1>1. t \in Transfer /\ t.amount = amount
  BY DEF Transfer
<1>2. transfer' = [transfer EXCEPT ![c] = [transfer[c] EXCEPT ![l] = t]]
  BY DEF Submit
<1> HIDE DEF t, l
<1>3. l \in Leg /\ transfer[c][l] = NoTransfer
  BY DEF l
<1>4. /\ transfer' \in [Calls -> [Leg -> Transfer \cup {NoTransfer}]]
      /\ transfer'[c][l] = t
      /\ \A d \in Calls, m \in Leg : d # c \/ m # l => transfer'[d][m] = transfer[d][m]
  BY <1>1, <1>2, <1>3 DEF IInv, TypeOK
<1>5. \A d \in Calls, m \in Leg : Landed(d, m) =>
          Landed(d, m)' /\ transfer'[d][m] = transfer[d][m]
  BY <1>3, <1>4 DEF Landed
<1>6. TypeOK'
  BY <1>4 DEF IInv, TypeOK
<1>7. CallInv'
  <2>1. ASSUME NEW d \in Calls
        PROVE  /\ transfer'[d][Downstream] # NoTransfer => transfer'[d][Downstream].amount = Amount
               /\ transfer'[d][FeeLeg] # NoTransfer => transfer'[d][FeeLeg].amount = Fee
    BY <1>1, <1>4, LegShape DEF IInv, CallInv, l
  <2>2. \A d \in Calls, m \in Leg : transfer'[d][m] # NoTransfer => call[d].status # "idle"
    BY <1>4 DEF IInv, CallInv, Running
  <2> QED  BY <1>5, <2>1, <2>2, LegShape DEF IInv, CallInv
<1>8. ReceiptsPaid'
  BY <1>5, LegShape DEF IInv, ReceiptsPaid, TypeOK, Receipt
<1>9. StoreInv'
  BY DEF IInv, StoreInv
<1> QED  BY <1>6, <1>7, <1>8, <1>9 DEF IInv

LEMMA FundStep ==
    ASSUME IInv, NEW c \in Calls, Fund(c)
    PROVE  IInv'
<1> DEFINE missing == Missing(c, At(c)[2])
<1>1. /\ call[c].at \in DOMAIN Program /\ At(c) = Program[call[c].at]
      /\ call[c].request \in Request
  BY DEF IInv, TypeOK, CallInv, Call, At, Fund, Running
<1>2. /\ call[c].at \in 4 .. 6 /\ At(c)[2] \in Wallet /\ At(c) \in Leg
      /\ At(c) \notin {Downstream, FeeLeg} /\ At(c) # <<"store">>
  BY <1>1, ProgramShape DEF Fund
<1>3. missing \in Nat
  BY <1>1, <1>2, MissingIsNat DEF IInv
<1>4. CASE Advance(c) /\ UNCHANGED transfer
  BY <1>2, <1>4, AdvanceStep DEF Fund
<1>5. CASE Submit(c, missing) /\ UNCHANGED call
  <2> HIDE DEF missing
  <2> QED  BY <1>2, <1>3, <1>5, SubmitStep DEF Fund
<1> QED  BY <1>4, <1>5 DEF Fund

LEMMA PayStep ==
    ASSUME IInv, NEW c \in Calls, Pay(c)
    PROVE  IInv'
<1>1. call[c].at \in DOMAIN Program /\ At(c) = Program[call[c].at]
  BY DEF IInv, TypeOK, Call, At
<1>2. At(c) \in {Downstream, FeeLeg} /\ At(c) \in Leg
  BY <1>1, ProgramShape DEF Pay
<1>3. /\ At(c) = Downstream => Price[At(c)[2]] = Amount
      /\ At(c) = FeeLeg => Price[At(c)[2]] = Fee
  BY DEF Price, Downstream, FeeLeg
<1>4. Price[At(c)[2]] \in Nat
  BY <1>2, <1>3, PaymentConstants
<1> QED  BY <1>2, <1>3, <1>4, SubmitStep DEF Pay

LEMMA ConfirmStep ==
    ASSUME IInv, NEW c \in Calls, Confirm(c)
    PROVE  IInv'
<1>1. call[c].at \in DOMAIN Program /\ At(c) = Program[call[c].at]
  BY DEF IInv, TypeOK, Call, At
<1>2. At(c) # <<"store">>
  BY <1>1, ProgramShape DEF Confirm
<1>3. CASE Succeeded(c)
  BY <1>2, <1>3, AdvanceStep DEF Confirm, Succeeded, Landed
<1>4. CASE ~Succeeded(c)
  BY <1>4, ThrowStep DEF Confirm
<1> QED  BY <1>3, <1>4

LEMMA ReadStep ==
    ASSUME IInv, NEW c \in Calls, ReadBalance(c)
    PROVE  IInv'
<1> DEFINE w == At(c)[2]
           now == lamports[AccountOf(c, w)]
           read == IF At(c)[1] = "before" THEN now ELSE 0
           same == call[c].exact /\ (At(c)[1] = "after" => now - call[c].seen[w] = Price[w])
           new == [call[c] EXCEPT !.seen[w] = read, !.exact = same, !.at = @ + 1]
<1>1. /\ call[c] \in Call /\ call[c].at \in DOMAIN Program /\ At(c) = Program[call[c].at]
      /\ call[c].request \in Request /\ call[c].status = "running"
      /\ At(c)[1] \in {"before", "after"}
      /\ UNCHANGED <<transfer, lamports, receipts, keyed, crossed>>
  BY DEF IInv, TypeOK, CallInv, Call, At, ReadBalance, Running
<1>2. /\ call[c].at \in {7, 8, 11, 12} /\ call[c].at + 1 \in DOMAIN Program
      /\ w \in {"specialist", "treasury"} /\ w \in Wallet
  BY <1>1, ProgramShape, ProgramPositions DEF Price, Wallet
<1>3. now \in Nat
  BY <1>1, <1>2 DEF IInv, TypeOK, AccountOf, Account, Request
<1>4. read \in Nat /\ same \in BOOLEAN
  BY <1>3
<1>8. call' = [call EXCEPT ![c].seen[w] = read, ![c].exact = same, ![c].at = @ + 1]
  BY DEF ReadBalance
<1> HIDE DEF read, same, now, w
<1>5. call' = [call EXCEPT ![c] = new]
  BY <1>1, <1>8 DEF IInv, TypeOK
<1>6. /\ new \in Call /\ new.status = "running" /\ new.at = call[c].at + 1
      /\ new.request = call[c].request /\ new.answer = call[c].answer
  BY <1>1, <1>2, <1>4 DEF Call
<1> HIDE DEF new
<1>7. /\ new.at > 9 => Landed(c, Downstream)
      /\ new.at > 10 => Landed(c, FeeLeg)
  BY <1>1, <1>2, <1>6 DEF IInv, CallInv
<1> QED  BY <1>1, <1>5, <1>6, <1>7, CallMoves

LEMMA RpcErrorStep ==
    ASSUME IInv, NEW c \in Calls, RpcError(c)
    PROVE  IInv'
BY ThrowStep DEF RpcError

LEMMA CrashStep ==
    ASSUME IInv, Crash
    PROVE  IInv'
<1> DEFINE ended(c) == [call[c] EXCEPT !.status = "lost"]
<1>1. \A c \in Calls : call[c] \in Call
  BY DEF IInv, TypeOK
<1>2. ASSUME NEW c \in Calls
      PROVE  /\ ended(c) \in Call /\ ended(c).status = "lost"
             /\ ended(c).request = call[c].request /\ ended(c).answer = call[c].answer
  BY <1>1, <1>2 DEF Call, Status
<1>3. call' = [c \in Calls |-> IF Running(c) THEN ended(c) ELSE call[c]]
  BY DEF Crash
<1> HIDE DEF ended
<1>4. /\ call' \in [Calls -> Call]
      /\ \A c \in Calls :
            /\ call'[c].request = call[c].request /\ call'[c].answer = call[c].answer
            /\ call'[c].status # "running"
            /\ call'[c].status = "idle" <=> call[c].status = "idle"
  BY <1>1, <1>2, <1>3 DEF Running
<1>5. UNCHANGED <<transfer, lamports, receipts, keyed, crossed>>
  BY DEF Crash
<1>6. TypeOK'
  BY <1>4, <1>5 DEF IInv, TypeOK
<1>7. CallInv'
  BY <1>4, <1>5 DEF IInv, CallInv
<1>8. ReceiptsPaid'
  BY <1>4, <1>5 DEF IInv, ReceiptsPaid, Landed, TypeOK, Receipt
<1>9. StoreInv'
  BY <1>4, <1>5 DEF IInv, StoreInv, TypeOK, Receipt
<1> QED  BY <1>6, <1>7, <1>8, <1>9 DEF IInv

LEMMA StartStep ==
    ASSUME IInv, NEW c \in Calls, NEW r \in Request, Start(c, r)
    PROVE  IInv'
<1> DEFINE reply == IF Answered(r) = "replayed" THEN keyed[r.key] ELSE NoReceipt
           new == [Idle EXCEPT !.status = Answered(r), !.request = r, !.answer = reply]
<1>1. /\ call[c] = Idle /\ call[c] \in Call /\ Idle.status = "idle"
      /\ Idle.answer = NoReceipt /\ Idle.at = 1
      /\ UNCHANGED <<transfer, lamports, receipts, keyed, crossed>>
  BY DEF Start, IInv, TypeOK, Idle
<1>2. /\ Answered(r) \in {"replayed", "threw", "running"}
      /\ Answered(r) = "replayed" => keyed[r.key] # NoReceipt /\ SameInput(keyed[r.key], r)
  BY DEF Answered
<1>3. r.key \in Keys /\ keyed[r.key] \in Receipt \cup {NoReceipt}
  BY DEF IInv, TypeOK, Request
<1>4. /\ reply \in Receipt \cup {NoReceipt}
      /\ reply # NoReceipt => reply \in receipts /\ reply.quote = r.quote
      /\ Answered(r) # "replayed" => reply = NoReceipt
  BY <1>2, <1>3 DEF IInv, StoreInv, SameInput
<1>5. call' = [call EXCEPT ![c] = new]
  BY <1>1 DEF Start, IInv, TypeOK
<1> HIDE DEF reply
<1>6. /\ new \in Call /\ new.status = Answered(r) /\ new.request = r /\ new.answer = reply
      /\ new.at = 1
  BY <1>1, <1>2, <1>4 DEF Call, Status
<1> HIDE DEF new
<1>7. /\ call' \in [Calls -> Call] /\ call'[c] = new
      /\ \A d \in Calls : d # c => call'[d] = call[d]
  BY <1>5, <1>6 DEF IInv, TypeOK
<1>8. TypeOK'
  BY <1>1, <1>7 DEF IInv, TypeOK
<1>9. CallInv'
  <2>1. CallInv!(c)'
    BY <1>1, <1>2, <1>4, <1>6, <1>7 DEF IInv, CallInv
  <2>2. ASSUME NEW d \in Calls, d # c
        PROVE  CallInv!(d)'
    BY <1>1, <1>7, <2>2 DEF IInv, CallInv, Landed
  <2> QED  BY <2>1, <2>2 DEF CallInv
<1>10. \A s \in receipts : s.call \in Calls /\ s.call # c
  BY <1>1 DEF IInv, StoreInv, TypeOK, Receipt
<1>11. ReceiptsPaid'
  BY <1>1, <1>7, <1>10 DEF IInv, ReceiptsPaid, Landed
<1>12. StoreInv'
  BY <1>1, <1>4, <1>6, <1>7, <1>10 DEF IInv, StoreInv
<1> QED  BY <1>8, <1>9, <1>11, <1>12 DEF IInv

LEMMA StoreStep ==
    ASSUME IInv, NEW c \in Calls, Store(c)
    PROVE  IInv'
<1> DEFINE r == call[c].request
           receipt == [quote |-> r.quote, key |-> r.key, max |-> r.max, call |-> c,
                       exact |-> call[c].exact]
           new == [call[c] EXCEPT !.status = "returned", !.answer = receipt]
<1>1. /\ call[c] \in Call /\ call[c].at \in DOMAIN Program /\ At(c) = Program[call[c].at]
      /\ call[c].status = "running" /\ r \in Request /\ At(c) = <<"store">>
      /\ UNCHANGED <<transfer, lamports, crossed>>
  BY DEF IInv, TypeOK, CallInv, Call, At, Store, Running
<1>2. Landed(c, Downstream) /\ Landed(c, FeeLeg)
  <2>1. call[c].at = 13
    BY <1>1, ProgramShape
  <2> QED  BY <1>1, <2>1 DEF IInv, CallInv
<1>3. CASE ~QuoteFree(r)
  BY <1>1, <1>3, ThrowStep DEF Store, Running, StoreVars
<1>4. CASE QuoteFree(r)
  <2>1. /\ receipts' = receipts \cup {receipt}
        /\ keyed' = [keyed EXCEPT ![r.key] = receipt]
        /\ call' = [call EXCEPT ![c].status = "returned", ![c].answer = receipt]
    BY <1>4 DEF Store
  <2>2. /\ receipt \in Receipt /\ receipt.call = c /\ receipt.quote = r.quote
        /\ r.key \in Keys
    BY <1>1 DEF Receipt, Request, Call
  <2>3. \A s \in receipts : s.quote # r.quote
    BY <1>4 DEF QuoteFree, AlreadyPaid
  <2> HIDE DEF receipt
  <2>4. call' = [call EXCEPT ![c] = new]
    BY <2>1
  <2>5. /\ new \in Call /\ new.status = "returned" /\ new.answer = receipt /\ new.request = r
    BY <1>1, <2>2 DEF Call, Status
  <2> HIDE DEF new
  <2>6. /\ call' \in [Calls -> Call] /\ call'[c] = new
        /\ \A d \in Calls : d # c => call'[d] = call[d]
        /\ \A d \in Calls : call'[d].request = call[d].request
        /\ \A d \in Calls : call[d].status # "idle" => call'[d].status # "idle"
    BY <2>4, <2>5 DEF IInv, TypeOK
  <2>7. /\ keyed' \in [Keys -> Receipt \cup {NoReceipt}]
        /\ \A k \in Keys : keyed'[k] = receipt \/ keyed'[k] = keyed[k]
    BY <2>1, <2>2 DEF IInv, TypeOK
  <2>8. TypeOK'
    BY <1>1, <2>1, <2>2, <2>6, <2>7 DEF IInv, TypeOK
  <2>9. CallInv'
    <3>1. CallInv!(c)'
      BY <1>1, <2>5, <2>6 DEF IInv, CallInv
    <3>2. ASSUME NEW d \in Calls, d # c
          PROVE  CallInv!(d)'
      BY <1>1, <2>6, <3>2 DEF IInv, CallInv, Landed
    <3> QED  BY <3>1, <3>2 DEF CallInv
  <2>10. ReceiptsPaid'
    <3>1. /\ transfer[c][Downstream].amount = Amount /\ transfer[c][FeeLeg].amount = Fee
      BY <1>2 DEF IInv, CallInv, Landed
    <3>2. ASSUME NEW s \in receipts
          PROVE  ReceiptsPaid!(s)'
      BY <1>1, <2>6, <3>2 DEF IInv, ReceiptsPaid, Landed, TypeOK, Receipt
    <3>3. /\ Landed(c, Downstream)' /\ transfer'[c][Downstream].amount = Amount
          /\ Landed(c, FeeLeg)' /\ transfer'[c][FeeLeg].amount = Fee
          /\ call'[c].request.quote = receipt.quote
      BY <1>1, <1>2, <2>2, <2>6, <3>1 DEF Landed
    <3>4. ASSUME NEW s \in receipts'
          PROVE  /\ Landed(s.call, Downstream)' /\ transfer'[s.call][Downstream].amount = Amount
                 /\ Landed(s.call, FeeLeg)' /\ transfer'[s.call][FeeLeg].amount = Fee
                 /\ call'[s.call].request.quote = s.quote
      BY <2>1, <2>2, <3>2, <3>3, <3>4 DEF Landed
    <3> QED  BY <3>4 DEF ReceiptsPaid
  <2>11. StoreInv'
    <3>1. \A s \in receipts' : call'[s.call].status # "idle"
      BY <2>1, <2>2, <2>5, <2>6 DEF IInv, StoreInv, TypeOK, Receipt
    <3>2. \A s, t \in receipts' : s.quote = t.quote => s = t
      BY <2>1, <2>2, <2>3 DEF IInv, StoreInv
    <3>3. \A k \in Keys : keyed'[k] # NoReceipt => keyed'[k] \in receipts'
      BY <2>1, <2>7 DEF IInv, StoreInv
    <3>4. \A d \in Calls : call'[d].answer # NoReceipt =>
             call'[d].answer \in receipts' /\ call'[d].answer.quote = call'[d].request.quote
      BY <2>1, <2>2, <2>5, <2>6 DEF IInv, StoreInv
    <3> QED  BY <3>1, <3>2, <3>3, <3>4 DEF StoreInv
  <2> QED  BY <2>8, <2>9, <2>10, <2>11 DEF IInv
<1> QED  BY <1>3, <1>4

\* The cluster settles a transfer: nothing that landed is undone.
LEMMA SettleStep ==
    ASSUME IInv, NEW c \in Calls, NEW l \in Leg, NEW s \in {"landed", "dropped"},
           InFlight(c, l), transfer' = [transfer EXCEPT ![c][l].state = s],
           lamports' \in [Account -> Nat], crossed' \subseteq Calls,
           UNCHANGED <<call, receipts, keyed>>
    PROVE  IInv'
<1> DEFINE t == [transfer[c][l] EXCEPT !.state = s]
<1>1. transfer[c][l] \in Transfer /\ transfer[c][l].state = "sent"
  BY DEF IInv, TypeOK, InFlight
<1>2. t \in Transfer /\ t.amount = transfer[c][l].amount /\ t # NoTransfer
  BY <1>1, MarkersAreNoRecords DEF Transfer
<1>3. transfer' = [transfer EXCEPT ![c] = [transfer[c] EXCEPT ![l] = t]]
  BY DEF IInv, TypeOK
<1> HIDE DEF t
<1>4. /\ transfer' \in [Calls -> [Leg -> Transfer \cup {NoTransfer}]]
      /\ transfer'[c][l] = t
      /\ \A d \in Calls, m \in Leg : d # c \/ m # l => transfer'[d][m] = transfer[d][m]
  <2> DEFINE row == [transfer[c] EXCEPT ![l] = t]
  <2>1. /\ row \in [Leg -> Transfer \cup {NoTransfer}] /\ row[l] = t
        /\ \A m \in Leg : m # l => row[m] = transfer[c][m]
    BY <1>2 DEF IInv, TypeOK
  <2>2. transfer' = [transfer EXCEPT ![c] = row]
    BY <1>3
  <2> HIDE DEF row
  <2> QED  BY <2>1, <2>2 DEF IInv, TypeOK
<1>5. \A d \in Calls, m \in Leg : Landed(d, m) =>
          Landed(d, m)' /\ transfer'[d][m] = transfer[d][m]
  BY <1>1, <1>4 DEF Landed
<1>6. \A d \in Calls, m \in Leg : transfer'[d][m] # NoTransfer =>
          transfer[d][m] # NoTransfer /\ transfer'[d][m].amount = transfer[d][m].amount
  BY <1>2, <1>4 DEF InFlight
<1>7. TypeOK'
  BY <1>4 DEF IInv, TypeOK
<1>8. CallInv'
  BY <1>5, <1>6, LegShape DEF IInv, CallInv
<1>9. ReceiptsPaid'
  BY <1>5, LegShape DEF IInv, ReceiptsPaid, TypeOK, Receipt
<1>10. StoreInv'
  BY DEF IInv, StoreInv
<1> QED  BY <1>7, <1>8, <1>9, <1>10 DEF IInv

LEMMA LandStep ==
    ASSUME IInv, NEW c \in Calls, NEW l \in Leg, Land(c, l)
    PROVE  IInv'
<1> DEFINE amount == transfer[c][l].amount
           from == Source(c, l)
           to == AccountOf(c, l[2])
<1>1. transfer[c][l] \in Transfer /\ amount \in Nat
  BY DEF IInv, TypeOK, Land, InFlight, Transfer
<1>2. from \in Account /\ to \in Account
  <2>1. call[c].request \in Request
    BY DEF Land, InFlight, IInv, CallInv
  <2>2. call[c].request.quote \in Quotes /\ "payer" \in Wallet
    BY <2>1 DEF Request, Wallet
  <2>3. \A w \in Wallet : AccountOf(c, w) \in Account
    BY <2>2 DEF AccountOf, Account
  <2> QED  BY <2>2, <2>3, LegShape DEF Source, Account
<1>6. from # to
  <2>1. to[1] = l[2] /\ l[2] \in Wallet
    BY LegShape DEF AccountOf
  <2>2. from[1] = IF l[1] = "fund" THEN "funder" ELSE "payer"
    BY DEF Source, AccountOf, Funder
  <2> HIDE DEF from, to
  <2> QED  BY <2>1, <2>2, LegShape DEF Wallet
<1>3. lamports[from] - amount - TxFee >= 0
  BY DEF Land, Affordable
<1>4. lamports' = [lamports EXCEPT ![from] = @ - amount - TxFee, ![to] = @ + amount]
  BY DEF Land
<1> HIDE DEF amount, from, to
<1>5. lamports' \in [Account -> Nat]
  BY <1>1, <1>2, <1>3, <1>4, <1>6, PaymentConstants DEF IInv, TypeOK
<1>7. crossed' \subseteq Calls
  BY DEF Land, IInv, TypeOK
<1> QED  BY <1>5, <1>7, SettleStep DEF Land

LEMMA DropStep ==
    ASSUME IInv, NEW c \in Calls, NEW l \in Leg, Drop(c, l)
    PROVE  IInv'
BY SettleStep DEF Drop, IInv, TypeOK

-----------------------------------------------------------------------------
(* Every step keeps it. *)

LEMMA NextIInv == IInv /\ [Next]_vars => IInv'
<1> SUFFICES ASSUME IInv, [Next]_vars PROVE IInv'
  OBVIOUS
<1>1. CASE Crash
  BY <1>1, CrashStep
<1>2. ASSUME NEW c \in Calls, CallStep(c)
      PROVE  IInv'
  BY <1>2, StartStep, EstimateStep, FundStep, PayStep, ConfirmStep, ReadStep, StoreStep,
     RpcErrorStep DEF CallStep
<1>3. ASSUME NEW c \in Calls, Cluster(c)
      PROVE  IInv'
  BY <1>3, LandStep, DropStep DEF Cluster
<1>4. CASE UNCHANGED vars
  BY <1>4 DEF vars, IInv, TypeOK, CallInv, ReceiptsPaid, StoreInv, Landed
<1> QED  BY <1>1, <1>2, <1>3, <1>4 DEF Next

LEMMA Inductive == Spec => []IInv
BY InitIInv, NextIInv, PTL DEF Spec

-----------------------------------------------------------------------------
(* What the steps of a call amount to. *)

LegPlaces == {4, 5, 6, 9, 10}

LEMMA LegsInOrder ==
    /\ LegPlaces \subseteq DOMAIN Program
    /\ \A i \in DOMAIN Program : Program[i] \in Leg <=> i \in LegPlaces
    /\ \A l \in Leg : \E i \in LegPlaces : Program[i] = l
    /\ \A i, j \in LegPlaces : Program[i] = Program[j] => i = j
    /\ Program[1][2] = "payer" /\ Program[2][2] = "specialist" /\ Program[3][2] = "treasury"
    /\ Program[4] = <<"fund", "payer">> /\ Program[5] = <<"fund", "specialist">>
    /\ Program[6] = <<"fund", "treasury">>
    /\ Program[7][2] = "specialist" /\ Program[8][2] = "treasury"
    /\ Program[11][2] = "specialist" /\ Program[12][2] = "treasury"
<1>1. LegPlaces \subseteq DOMAIN Program
  BY ProgramPositions DEF LegPlaces
<1>2. \A i \in DOMAIN Program : Program[i] \in Leg <=> i \in LegPlaces
  BY ProgramShape DEF LegPlaces
<1>3. \A l \in Leg : \E i \in LegPlaces : Program[i] = l
  <2> SUFFICES ASSUME NEW l \in Leg PROVE \E i \in LegPlaces : Program[i] = l
    OBVIOUS
  <2>1. PICK i \in DOMAIN Program : l = Program[i]
    BY DEF Leg, Steps
  <2> QED  BY <1>2, <2>1
<1>4. /\ Program[1][2] = "payer" /\ Program[2][2] = "specialist" /\ Program[3][2] = "treasury"
      /\ Program[4] = <<"fund", "payer">> /\ Program[5] = <<"fund", "specialist">>
      /\ Program[6] = <<"fund", "treasury">>
      /\ Program[7][2] = "specialist" /\ Program[8][2] = "treasury"
      /\ Program[11][2] = "specialist" /\ Program[12][2] = "treasury"
  BY DEF Program
<1>5. \A i, j \in LegPlaces : Program[i] = Program[j] => i = j
  BY <1>4, ProgramPositions DEF LegPlaces, Downstream, FeeLeg
<1> QED  BY <1>1, <1>2, <1>3, <1>4, <1>5

\* Only call c moves.
Only(c) == call' \in [Calls -> Call] /\ \A d \in Calls : d # c => call'[d] = call[d]

Ended(c) ==
    /\ Running(c) /\ Only(c)
    /\ call'[c].status = "threw"
    /\ call'[c].request = call[c].request /\ call'[c].answer = call[c].answer
    /\ UNCHANGED <<transfer, lamports, receipts, keyed, crossed>>
    /\ \/ Faults
       \/ call[c].at = 3
       \/ call[c].at \in LegPlaces /\ transfer[c][At(c)] # NoTransfer /\ transfer[c][At(c)].state = "dropped"
       \/ call[c].at = 13 /\ AlreadyPaid(call[c].request)

Advanced(c) ==
    /\ Running(c) /\ call[c].at \in 1 .. 12 /\ Only(c)
    /\ call'[c].status = "running" /\ call'[c].at = call[c].at + 1
    /\ call'[c].request = call[c].request /\ call'[c].answer = call[c].answer
    /\ UNCHANGED <<transfer, lamports, receipts, keyed, crossed>>
    /\ call[c].at \in 1 .. 3 =>
          call'[c].estimate = call[c].estimate + Missing(c, Program[call[c].at][2])
    /\ call[c].at = 3 => Debit + call'[c].estimate <= Cap(call[c].request)
    /\ call[c].at \notin 1 .. 3 => call'[c].estimate = call[c].estimate
    /\ call[c].at \in LegPlaces =>
          \/ Landed(c, At(c))
          \/ call[c].at < 7 /\ transfer[c][At(c)] = NoTransfer /\ Missing(c, At(c)[2]) = 0
    /\ call[c].at \notin {7, 8, 11, 12} =>
          call'[c].seen = call[c].seen /\ call'[c].exact = call[c].exact
    /\ \A w \in DOMAIN Price :
          /\ Program[call[c].at] = <<"before", w>> =>
                /\ call'[c].seen[w] = lamports[AccountOf(c, w)]
                /\ \A v \in DOMAIN Price \ {w} : call'[c].seen[v] = call[c].seen[v]
                /\ call'[c].exact = call[c].exact
          /\ Program[call[c].at] = <<"after", w>> =>
                /\ call'[c].exact = (call[c].exact
                                        /\ lamports[AccountOf(c, w)] - call[c].seen[w] = Price[w])
                /\ \A v \in DOMAIN Price \ {w} : call'[c].seen[v] = call[c].seen[v]

Submitted(c) ==
    /\ Running(c) /\ call[c].at \in LegPlaces /\ transfer[c][At(c)] = NoTransfer
    /\ \A d \in Calls, l \in Leg : d # c \/ l # At(c) => transfer'[d][l] = transfer[d][l]
    /\ transfer'[c][At(c)] # NoTransfer /\ transfer'[c][At(c)].state = "sent"
    /\ call[c].at < 7 => transfer'[c][At(c)].amount = Missing(c, At(c)[2])
    /\ UNCHANGED <<call, lamports, receipts, keyed, crossed>>

Stored(c) ==
    /\ Running(c) /\ call[c].at = 13 /\ Only(c) /\ ~AlreadyPaid(call[c].request)
    /\ call'[c].status = "returned" /\ call'[c].request = call[c].request
    /\ UNCHANGED <<transfer, lamports, crossed>>
    /\ \E r \in Receipt :
          /\ r.quote = call[c].request.quote /\ r.max = call[c].request.max
          /\ r.call = c /\ r.exact = call[c].exact
          /\ receipts' = receipts \cup {r} /\ call'[c].answer = r
          /\ keyed' = [keyed EXCEPT ![call[c].request.key] = r]

LEMMA Threw ==
    ASSUME IInv, NEW c \in Calls, Running(c), Throw(c)
    PROVE  /\ Only(c) /\ call'[c].status = "threw"
           /\ call'[c].request = call[c].request /\ call'[c].answer = call[c].answer
<1> DEFINE new == [call[c] EXCEPT !.status = "threw"]
<1>1. call[c] \in Call
  BY DEF IInv, TypeOK
<1>2. /\ new \in Call /\ new.status = "threw"
      /\ new.request = call[c].request /\ new.answer = call[c].answer
  BY <1>1 DEF Call, Status
<1>3. call' = [call EXCEPT ![c] = new]
  BY DEF Throw
<1> HIDE DEF new
<1> QED  BY <1>2, <1>3 DEF Only, IInv, TypeOK

LEMMA Passed ==
    ASSUME IInv, NEW c \in Calls, Running(c), Advance(c), call[c].at \in 1 .. 12
    PROVE  /\ Only(c) /\ call'[c].status = "running" /\ call'[c].at = call[c].at + 1
           /\ call'[c].request = call[c].request /\ call'[c].answer = call[c].answer
           /\ call'[c].estimate = call[c].estimate
           /\ call'[c].seen = call[c].seen /\ call'[c].exact = call[c].exact
<1> DEFINE new == [call[c] EXCEPT !.at = @ + 1]
<1>1. call[c] \in Call /\ call[c].at + 1 \in DOMAIN Program
  BY ProgramPositions DEF IInv, TypeOK
<1>2. /\ new \in Call /\ new.status = "running" /\ new.at = call[c].at + 1
      /\ new.request = call[c].request /\ new.answer = call[c].answer
      /\ new.estimate = call[c].estimate /\ new.seen = call[c].seen /\ new.exact = call[c].exact
  BY <1>1 DEF Call, Running
<1>3. call' = [call EXCEPT ![c] = new]
  BY DEF Advance
<1> HIDE DEF new
<1> QED  BY <1>2, <1>3 DEF Only, IInv, TypeOK

LEMMA WhereItIs ==
    ASSUME IInv, NEW c \in Calls
    PROVE  /\ call[c] \in Call /\ call[c].at \in DOMAIN Program /\ call[c].at \in 1 .. 13
           /\ At(c) = Program[call[c].at]
           /\ At(c) \in Leg <=> call[c].at \in LegPlaces
           /\ At(c) = <<"store">> <=> call[c].at = 13
           /\ At(c)[1] = "estimate" <=> call[c].at \in 1 .. 3
           /\ At(c)[1] = "fund" <=> call[c].at \in 4 .. 6
           /\ At(c)[1] = "pay" <=> call[c].at \in 9 .. 10
           /\ At(c)[1] \in {"before", "after"} <=> call[c].at \in {7, 8, 11, 12}
           /\ Running(c) => call[c].request \in Request
<1>1. call[c] \in Call /\ call[c].at \in DOMAIN Program /\ At(c) = Program[call[c].at]
  BY DEF IInv, TypeOK, Call, At
<1>2. Running(c) => call[c].request \in Request
  BY DEF IInv, CallInv, Running
<1>3. At(c) \in Leg <=> call[c].at \in LegPlaces
  BY <1>1, LegsInOrder
<1> QED  BY <1>1, <1>2, <1>3, ProgramShape

LEMMA EstimateKind ==
    ASSUME IInv, NEW c \in Calls, Estimate(c)
    PROVE  Ended(c) \/ Advanced(c)
<1> DEFINE w == At(c)[2]
           topUps == call[c].estimate + Missing(c, w)
           new == [call[c] EXCEPT !.estimate = topUps, !.at = @ + 1]
<1>1. /\ Running(c) /\ call[c].at \in 1 .. 3 /\ call[c] \in Call /\ call[c].request \in Request
      /\ w \in Wallet /\ At(c) = Program[call[c].at]
      /\ w = "treasury" <=> call[c].at = 3
      /\ UNCHANGED <<transfer, lamports, receipts, keyed, crossed>>
  <2>1. Running(c) /\ At(c)[1] = "estimate" /\ UNCHANGED <<transfer, lamports, receipts, keyed, crossed>>
    BY DEF Estimate
  <2> QED  BY <2>1, WhereItIs, LegsInOrder DEF Wallet
<1>2. topUps \in Nat /\ call[c].at + 1 \in DOMAIN Program
  BY <1>1, MissingIsNat, ProgramPositions DEF IInv, Call
<1>3. CASE w = "treasury" /\ ~SpendFits(c, topUps)
  <2>1. Throw(c)
    BY <1>3 DEF Estimate
  <2> QED  BY <1>1, <1>3, <2>1, Threw DEF Ended
<1>4. CASE ~(w = "treasury" /\ ~SpendFits(c, topUps))
  <2>1. call' = [call EXCEPT ![c] = new]
    BY <1>4 DEF Estimate
  <2>2. call[c].at = 3 => Debit + topUps <= Cap(call[c].request)
    BY <1>1, <1>4 DEF SpendFits
  <2>3. topUps = call[c].estimate + Missing(c, Program[call[c].at][2])
    BY <1>1
  <2> HIDE DEF topUps, w
  <2>4. /\ new \in Call /\ new.status = "running" /\ new.at = call[c].at + 1
        /\ new.request = call[c].request /\ new.answer = call[c].answer
        /\ new.estimate = topUps /\ new.seen = call[c].seen /\ new.exact = call[c].exact
    BY <1>1, <1>2 DEF Call, Running
  <2> HIDE DEF new
  <2>5. Only(c) /\ call'[c] = new
    BY <2>1, <2>4 DEF Only, IInv, TypeOK
  <2>6. \A v \in DOMAIN Price : Program[call[c].at] # <<"before", v>> /\ Program[call[c].at] # <<"after", v>>
    BY <1>1, ProgramPositions
  <2>7. call[c].at \notin LegPlaces /\ call[c].at \notin {7, 8, 11, 12} /\ call[c].at \in 1 .. 12
    BY <1>1 DEF LegPlaces
  <2> QED  BY <1>1, <2>2, <2>3, <2>4, <2>5, <2>6, <2>7 DEF Advanced
<1> QED  BY <1>3, <1>4

LEMMA LegKinds ==
    ASSUME IInv, NEW c \in Calls, Running(c), call[c].at \in LegPlaces
    PROVE  /\ call[c].at \in 1 .. 12 /\ call[c].at \notin 1 .. 3
           /\ call[c].at \notin {7, 8, 11, 12} /\ call[c].at # 13 /\ call[c].at # 3
           /\ call[c].at < 7 <=> call[c].at \in 4 .. 6
           /\ At(c) \in Leg
           /\ \A w \in DOMAIN Price : /\ Program[call[c].at] # <<"before", w>>
                                      /\ Program[call[c].at] # <<"after", w>>
<1>1. call[c].at \in {4, 5, 6, 9, 10}
  BY DEF LegPlaces
<1>2. Program[call[c].at][1] \in {"fund", "pay"}
  BY <1>1, ProgramPositions DEF Downstream, FeeLeg
<1> QED  BY <1>1, <1>2, WhereItIs

LEMMA SubmitKind ==
    ASSUME IInv, NEW c \in Calls, NEW amount \in Nat, Submit(c, amount),
           Running(c), call[c].at \in LegPlaces, transfer[c][At(c)] = NoTransfer,
           call[c].at < 7 => amount = Missing(c, At(c)[2]),
           UNCHANGED <<call, lamports, receipts, keyed, crossed>>
    PROVE  Submitted(c)
<1> DEFINE t == [amount |-> amount, state |-> "sent"]
           l == At(c)
<1>1. t \in Transfer /\ t.amount = amount /\ t.state = "sent" /\ t # NoTransfer
  BY MarkersAreNoRecords DEF Transfer
<1>2. l \in Leg
  BY LegKinds
<1>3. transfer' = [transfer EXCEPT ![c][l] = t]
  BY DEF Submit
<1> HIDE DEF t
<1>4. /\ transfer'[c][l] = t
      /\ \A d \in Calls, m \in Leg : d # c \/ m # l => transfer'[d][m] = transfer[d][m]
  <2> HIDE DEF l
  <2> QED  BY <1>2, <1>3 DEF IInv, TypeOK
<1> QED  BY <1>1, <1>4 DEF Submitted

LEMMA FundKind ==
    ASSUME IInv, NEW c \in Calls, Fund(c)
    PROVE  Advanced(c) \/ Submitted(c)
<1>1. /\ Running(c) /\ At(c)[1] = "fund" /\ transfer[c][At(c)] = NoTransfer
      /\ UNCHANGED <<lamports, receipts, keyed, crossed>>
  BY DEF Fund
<1>2. /\ call[c].at \in 4 .. 6 /\ call[c].at \in LegPlaces
      /\ At(c)[2] \in Wallet /\ call[c].request \in Request
  BY <1>1, WhereItIs, ProgramPositions DEF LegPlaces
<1>3. Missing(c, At(c)[2]) \in Nat
  BY <1>2, MissingIsNat DEF IInv
<1>4. CASE Missing(c, At(c)[2]) = 0 /\ Advance(c) /\ UNCHANGED transfer
  BY <1>1, <1>2, <1>4, Passed, LegKinds DEF Advanced
<1>5. CASE Submit(c, Missing(c, At(c)[2])) /\ UNCHANGED call
  BY <1>1, <1>2, <1>3, <1>5, SubmitKind
<1> QED  BY <1>4, <1>5 DEF Fund

LEMMA PayKind ==
    ASSUME IInv, NEW c \in Calls, Pay(c)
    PROVE  Submitted(c)
<1>1. /\ Running(c) /\ At(c)[1] = "pay" /\ transfer[c][At(c)] = NoTransfer
      /\ Submit(c, Price[At(c)[2]]) /\ UNCHANGED <<call, lamports, receipts, keyed, crossed>>
  BY DEF Pay
<1>2. call[c].at \in 9 .. 10 /\ call[c].at \in LegPlaces /\ At(c) = Program[call[c].at]
  BY <1>1, WhereItIs DEF LegPlaces
<1>3. Price[At(c)[2]] \in Nat
  BY <1>2, ProgramPositions, PaymentConstants DEF Price, Downstream, FeeLeg
<1>4. ~(call[c].at < 7)
  BY <1>2
<1> QED  BY <1>1, <1>2, <1>3, <1>4, SubmitKind

LEMMA ConfirmKind ==
    ASSUME IInv, NEW c \in Calls, Confirm(c)
    PROVE  Ended(c) \/ Advanced(c)
<1>1. /\ Running(c) /\ At(c) \in Leg /\ transfer[c][At(c)] # NoTransfer /\ OutcomeKnown(c)
      /\ UNCHANGED <<transfer, lamports, receipts, keyed, crossed>>
  BY DEF Confirm
<1>2. call[c].at \in LegPlaces
  BY <1>1, WhereItIs
<1>3. CASE Succeeded(c)
  <2>1. Advance(c) /\ Landed(c, At(c))
    BY <1>1, <1>3 DEF Confirm, Succeeded, Landed
  <2> QED  BY <1>1, <1>2, <2>1, Passed, LegKinds DEF Advanced
<1>4. CASE ~Succeeded(c)
  <2>1. Throw(c) /\ transfer[c][At(c)].state = "dropped"
    BY <1>1, <1>4 DEF Confirm, Succeeded, OutcomeKnown
  <2> QED  BY <1>1, <1>2, <2>1, Threw DEF Ended
<1> QED  BY <1>3, <1>4

LEMMA ReadKind ==
    ASSUME IInv, NEW c \in Calls, ReadBalance(c)
    PROVE  Advanced(c)
<1> DEFINE w == At(c)[2]
           now == lamports[AccountOf(c, w)]
           read == IF At(c)[1] = "before" THEN now ELSE 0
           same == call[c].exact /\ (At(c)[1] = "after" => now - call[c].seen[w] = Price[w])
           new == [call[c] EXCEPT !.seen[w] = read, !.exact = same, !.at = @ + 1]
<1>1. /\ Running(c) /\ At(c)[1] \in {"before", "after"}
      /\ UNCHANGED <<transfer, lamports, receipts, keyed, crossed>>
      /\ call' = [call EXCEPT ![c].seen[w] = read, ![c].exact = same, ![c].at = @ + 1]
  BY DEF ReadBalance
<1>2. /\ call[c] \in Call /\ call[c].at \in {7, 8, 11, 12} /\ call[c].request \in Request
      /\ call[c].at \in 1 .. 12 /\ call[c].at \notin 1 .. 3 /\ call[c].at \notin LegPlaces
      /\ call[c].at + 1 \in DOMAIN Program /\ At(c) = Program[call[c].at]
  BY <1>1, WhereItIs, ProgramPositions DEF LegPlaces
<1>3. w \in DOMAIN Price /\ w \in Wallet /\ DOMAIN Price = {"specialist", "treasury"}
  BY <1>2, LegsInOrder DEF Price, Wallet
<1>4. now \in Nat
  BY <1>2, <1>3 DEF IInv, TypeOK, AccountOf, Account, Request
<1>5. read \in Nat /\ same \in BOOLEAN
  BY <1>4
<1>6. \A v \in DOMAIN Price :
         /\ Program[call[c].at] = <<"before", v>> =>
               w = v /\ read = lamports[AccountOf(c, v)] /\ same = call[c].exact
         /\ Program[call[c].at] = <<"after", v>> =>
               w = v /\ same = (call[c].exact /\ lamports[AccountOf(c, v)] - call[c].seen[v] = Price[v])
  <2> SUFFICES ASSUME NEW v \in DOMAIN Price
               PROVE  /\ Program[call[c].at] = <<"before", v>> =>
                            w = v /\ read = lamports[AccountOf(c, v)] /\ same = call[c].exact
                      /\ Program[call[c].at] = <<"after", v>> =>
                            w = v /\ same = (call[c].exact
                                   /\ lamports[AccountOf(c, v)] - call[c].seen[v] = Price[v])
    OBVIOUS
  <2>1. call[c].exact \in BOOLEAN
    BY <1>2 DEF Call
  <2>2. CASE Program[call[c].at] = <<"before", v>>
    <3>1. w = v /\ At(c)[1] = "before"
      BY <1>2, <2>2
    <3> QED  BY <2>1, <2>2, <3>1
  <2>3. CASE Program[call[c].at] = <<"after", v>>
    <3>1. w = v /\ At(c)[1] = "after"
      BY <1>2, <2>3
    <3> QED  BY <2>1, <2>3, <3>1
  <2> QED  BY <2>2, <2>3
<1> HIDE DEF read, same, now, w
<1>7. call' = [call EXCEPT ![c] = new]
  BY <1>1, <1>2 DEF IInv, TypeOK
<1>8. /\ new \in Call /\ new.status = "running" /\ new.at = call[c].at + 1
      /\ new.request = call[c].request /\ new.answer = call[c].answer
      /\ new.estimate = call[c].estimate /\ new.exact = same /\ new.seen[w] = read
      /\ \A v \in DOMAIN Price \ {w} : new.seen[v] = call[c].seen[v]
  BY <1>1, <1>2, <1>3, <1>5 DEF Call, Running
<1> HIDE DEF new
<1>9. Only(c) /\ call'[c] = new
  BY <1>7, <1>8 DEF Only, IInv, TypeOK
<1>10. call[c].at # 3
  BY <1>2
<1> QED  BY <1>1, <1>2, <1>6, <1>8, <1>9, <1>10 DEF Advanced

LEMMA StoreKind ==
    ASSUME IInv, NEW c \in Calls, Store(c)
    PROVE  Ended(c) \/ Stored(c)
<1> DEFINE r == call[c].request
           receipt == [quote |-> r.quote, key |-> r.key, max |-> r.max, call |-> c,
                       exact |-> call[c].exact]
           new == [call[c] EXCEPT !.status = "returned", !.answer = receipt]
<1>1. /\ Running(c) /\ call[c].at = 13 /\ call[c] \in Call /\ r \in Request
      /\ UNCHANGED <<transfer, lamports, crossed>>
  BY WhereItIs DEF Store
<1>2. CASE ~QuoteFree(r)
  <2>1. Throw(c) /\ UNCHANGED <<receipts, keyed>> /\ AlreadyPaid(r)
    BY <1>2 DEF Store, StoreVars, QuoteFree
  <2> QED  BY <1>1, <2>1, Threw DEF Ended
<1>3. CASE QuoteFree(r)
  <2>1. /\ receipts' = receipts \cup {receipt} /\ ~AlreadyPaid(r)
        /\ keyed' = [keyed EXCEPT ![r.key] = receipt]
        /\ call' = [call EXCEPT ![c] = new]
    BY <1>3 DEF Store, QuoteFree
  <2>2. /\ receipt \in Receipt /\ receipt.quote = r.quote /\ receipt.max = r.max
        /\ receipt.call = c /\ receipt.exact = call[c].exact
    BY <1>1 DEF Receipt, Request, Call
  <2> HIDE DEF receipt
  <2>3. new \in Call /\ new.status = "returned" /\ new.answer = receipt /\ new.request = r
    BY <1>1, <2>2 DEF Call, Status
  <2> HIDE DEF new
  <2>4. Only(c) /\ call'[c] = new
    BY <2>1, <2>3 DEF Only, IInv, TypeOK
  <2> QED  BY <1>1, <2>1, <2>2, <2>3, <2>4 DEF Stored
<1> QED  BY <1>2, <1>3

LEMMA CallKinds ==
    ASSUME IInv, NEW c \in Calls, CallStep(c)
    PROVE  \/ \E r \in Request : Start(c, r)
           \/ Ended(c) \/ Advanced(c) \/ Submitted(c) \/ Stored(c)
<1>1. CASE RpcError(c)
  BY <1>1, Threw DEF RpcError, Ended
<1> QED  BY <1>1, EstimateKind, FundKind, PayKind, ConfirmKind, ReadKind, StoreKind DEF CallStep

LEMMA StartKind ==
    ASSUME IInv, NEW c \in Calls, NEW r \in Request, Start(c, r)
    PROVE  /\ call[c].status = "idle" /\ call[c].answer = NoReceipt /\ ~Running(c)
           /\ Only(c) /\ UNCHANGED <<transfer, lamports, receipts, keyed, crossed>>
           /\ Overlap \/ \A d \in Calls : ~Running(d)
           /\ call'[c].status = Answered(r) /\ call'[c].status # "idle" /\ call'[c].request = r
           /\ call'[c].at = 1 /\ call'[c].estimate = 0 /\ call'[c].exact
           /\ call'[c].answer = IF Answered(r) = "replayed" THEN keyed[r.key] ELSE NoReceipt
           /\ \A l \in Leg : transfer[c][l] = NoTransfer
<1> DEFINE reply == IF Answered(r) = "replayed" THEN keyed[r.key] ELSE NoReceipt
           new == [Idle EXCEPT !.status = Answered(r), !.request = r, !.answer = reply]
<1>1. /\ call[c] = Idle /\ call[c].status = "idle" /\ call[c].answer = NoReceipt
      /\ UNCHANGED <<transfer, lamports, receipts, keyed, crossed>>
      /\ Overlap \/ \A d \in Calls : ~Running(d)
  BY DEF Start, Idle
<1>2. \A l \in Leg : transfer[c][l] = NoTransfer
  BY <1>1 DEF IInv, CallInv
<1>3. Answered(r) \in {"replayed", "threw", "running"}
  BY DEF Answered
<1>4. call' = [call EXCEPT ![c] = new]
  BY <1>1 DEF Start, IInv, TypeOK, Idle
<1>5. /\ new.status = Answered(r) /\ new.request = r /\ new.at = 1 /\ new.estimate = 0
      /\ new.exact /\ new.answer = reply
  BY DEF Idle
<1> HIDE DEF new, reply
<1>6. call'[c] = new /\ \A d \in Calls : d # c => call'[d] = call[d]
  BY <1>4 DEF IInv, TypeOK
<1>7. IInv'
  BY StartStep
<1>8. Only(c)
  BY <1>6, <1>7 DEF Only, IInv, TypeOK
<1> QED  BY <1>1, <1>2, <1>3, <1>5, <1>6, <1>8 DEF Running, reply

LEMMA CrashKind ==
    ASSUME IInv, Crash
    PROVE  /\ Faults /\ UNCHANGED <<transfer, lamports, receipts, keyed, crossed>>
           /\ \A c \in Calls : /\ call'[c].request = call[c].request
                               /\ call'[c].answer = call[c].answer
                               /\ ~Running(c)'
                               /\ Running(c) => call'[c].status = "lost"
                               /\ ~Running(c) => call'[c] = call[c]
<1> DEFINE ended(c) == [call[c] EXCEPT !.status = "lost"]
<1>1. \A c \in Calls : call[c] \in Call
  BY DEF IInv, TypeOK
<1>2. ASSUME NEW c \in Calls
      PROVE  /\ ended(c).status = "lost"
             /\ ended(c).request = call[c].request /\ ended(c).answer = call[c].answer
  BY <1>1 DEF Call, Status
<1>3. /\ call' = [c \in Calls |-> IF Running(c) THEN ended(c) ELSE call[c]]
      /\ Faults /\ UNCHANGED <<transfer, lamports, receipts, keyed, crossed>>
  BY DEF Crash
<1> HIDE DEF ended
<1>4. \A c \in Calls : call'[c] = IF Running(c) THEN ended(c) ELSE call[c]
  BY <1>3
<1> QED  BY <1>2, <1>3, <1>4 DEF Running

\* The accounts of a quote are its own, and none is the funder's.
LEMMA AccountsApart ==
    /\ \A c, d \in Calls, v, w \in Wallet :
          AccountOf(c, v) = AccountOf(d, w) =>
              v = w /\ call[c].request.quote = call[d].request.quote
    /\ \A c \in Calls, w \in Wallet : AccountOf(c, w) # Funder
    /\ DOMAIN Price \subseteq Wallet /\ {"payer", "specialist", "treasury"} = Wallet
<1>1. \A c \in Calls, w \in Wallet : AccountOf(c, w) # Funder
  <2> SUFFICES ASSUME NEW c \in Calls, NEW w \in Wallet, AccountOf(c, w) = Funder PROVE FALSE
    OBVIOUS
  <2>1. AccountOf(c, w)[1] = w /\ Funder[1] = "funder"
    BY DEF AccountOf, Funder
  <2> QED  BY <2>1 DEF Wallet
<1> QED  BY <1>1 DEF AccountOf, Wallet, Price

\* The cluster settles a transfer.
Settled(c, l, s) ==
    /\ InFlight(c, l) /\ UNCHANGED <<call, receipts, keyed>>
    /\ transfer'[c][l] # NoTransfer /\ transfer'[c][l].state = s
    /\ transfer'[c][l].amount = transfer[c][l].amount
    /\ \A d \in Calls, m \in Leg : d # c \/ m # l => transfer'[d][m] = transfer[d][m]

LEMMA SettleKind ==
    ASSUME IInv, NEW c \in Calls, NEW l \in Leg, NEW s \in {"landed", "dropped"},
           InFlight(c, l), transfer' = [transfer EXCEPT ![c][l].state = s],
           UNCHANGED <<call, receipts, keyed>>
    PROVE  Settled(c, l, s)
<1> DEFINE t == [transfer[c][l] EXCEPT !.state = s]
<1>1. transfer[c][l] \in Transfer
  BY DEF IInv, TypeOK, InFlight
<1>2. t # NoTransfer /\ t.state = s /\ t.amount = transfer[c][l].amount
  BY <1>1, MarkersAreNoRecords DEF Transfer
<1>3. transfer' = [transfer EXCEPT ![c] = [transfer[c] EXCEPT ![l] = t]]
  BY DEF IInv, TypeOK
<1> HIDE DEF t
<1>4. transfer'[c][l] = t
  BY <1>3 DEF IInv, TypeOK
<1>5. \A d \in Calls, m \in Leg : d # c \/ m # l => transfer'[d][m] = transfer[d][m]
  BY <1>3 DEF IInv, TypeOK
<1> QED  BY <1>2, <1>4, <1>5 DEF Settled

LEMMA LandKind ==
    ASSUME IInv, NEW c \in Calls, NEW l \in Leg, Land(c, l)
    PROVE  /\ Settled(c, l, "landed")
           /\ transfer[c][l].amount \in Nat /\ call[c].request \in Request
           /\ Source(c, l) \in Account /\ AccountOf(c, l[2]) \in Account
           /\ Source(c, l) # AccountOf(c, l[2])
           /\ lamports'[Source(c, l)] = lamports[Source(c, l)] - transfer[c][l].amount - TxFee
           /\ lamports'[AccountOf(c, l[2])] = lamports[AccountOf(c, l[2])] + transfer[c][l].amount
           /\ \A a \in Account \ {Source(c, l), AccountOf(c, l[2])} : lamports'[a] = lamports[a]
<1> DEFINE from == Source(c, l)
           to == AccountOf(c, l[2])
<1>1. transfer[c][l] \in Transfer /\ transfer[c][l].amount \in Nat
  BY DEF IInv, TypeOK, Land, InFlight, Transfer
<1>2. Settled(c, l, "landed")
  BY SettleKind DEF Land
<1>3. call[c].request \in Request
  BY DEF Land, InFlight, IInv, CallInv
<1>4. from \in Account /\ to \in Account
  <2>1. call[c].request.quote \in Quotes /\ "payer" \in Wallet /\ l[2] \in Wallet
    BY <1>3, LegShape DEF Request, Wallet
  <2> QED  BY <2>1 DEF AccountOf, Account, Source
<1>5. from # to
  <2>1. l[2] \in Wallet /\ (l[1] = "fund" \/ l[2] # "payer") /\ "payer" \in Wallet
    BY LegShape DEF Wallet
  <2> QED  BY <2>1, AccountsApart DEF Source
<1>6. lamports' = [lamports EXCEPT ![from] = @ - transfer[c][l].amount - TxFee,
                                   ![to] = @ + transfer[c][l].amount]
  BY DEF Land
<1> HIDE DEF from, to
<1>7. /\ lamports'[from] = lamports[from] - transfer[c][l].amount - TxFee
      /\ lamports'[to] = lamports[to] + transfer[c][l].amount
      /\ \A a \in Account \ {from, to} : lamports'[a] = lamports[a]
  BY <1>4, <1>5, <1>6 DEF IInv, TypeOK
<1> QED  BY <1>1, <1>2, <1>3, <1>4, <1>5, <1>7 DEF from, to

LEMMA DropKind ==
    ASSUME IInv, NEW c \in Calls, NEW l \in Leg, Drop(c, l)
    PROVE  Settled(c, l, "dropped") /\ UNCHANGED lamports /\ (Faults \/ ~Affordable(c, l))
BY SettleKind DEF Drop

\* The eight kinds of step.
LEMMA NextKinds ==
    ASSUME IInv, Next
    PROVE  \/ Crash
           \/ \E c \in Calls :
                 \/ \E r \in Request : Start(c, r)
                 \/ Ended(c) \/ Advanced(c) \/ Submitted(c) \/ Stored(c)
                 \/ \E l \in Leg : Land(c, l) \/ Drop(c, l)
BY CallKinds DEF Next, Cluster

-----------------------------------------------------------------------------
(* Receipts that say "fail". *)

\* Calls submit in order: nothing ahead of a running call has been submitted,
\* and nothing behind it is in flight.
SequenceInv ==
    \A c \in Calls : Running(c) => \A i \in LegPlaces :
        /\ call[c].at < i => transfer[c][Program[i]] = NoTransfer
        /\ i < call[c].at => ~InFlight(c, Program[i])

LEMMA InitSequence == Init => SequenceInv
BY DEF Init, Idle, SequenceInv, Running

LEMMA NextSequence ==
    ASSUME IInv, SequenceInv, [Next]_vars
    PROVE  SequenceInv'
<1> USE DEF SequenceInv
<1>1. ASSUME NEW c \in Calls, NEW r \in Request, Start(c, r)
      PROVE  SequenceInv'
  <2>1. /\ UNCHANGED transfer /\ call'[c].at = 1
        /\ \A d \in Calls : d # c => call'[d] = call[d]
        /\ \A l \in Leg : transfer[c][l] = NoTransfer
    BY <1>1, StartKind DEF Only
  <2>2. \A i \in LegPlaces : transfer[c][Program[i]] = NoTransfer /\ ~(i < 1)
    BY <2>1, LegsInOrder DEF LegPlaces
  <2> QED  BY <2>1, <2>2 DEF InFlight, Running
<1>2. ASSUME NEW c \in Calls, Ended(c) \/ Stored(c)
      PROVE  SequenceInv'
  BY <1>2 DEF Ended, Stored, Only, InFlight, Running
<1>3. ASSUME NEW c \in Calls, Advanced(c)
      PROVE  SequenceInv'
  <2>1. /\ UNCHANGED transfer /\ call'[c].at = call[c].at + 1 /\ Running(c) /\ call[c].at \in 1 .. 12
        /\ \A d \in Calls : d # c => call'[d] = call[d]
        /\ call[c].at \in LegPlaces => Landed(c, At(c)) \/ transfer[c][At(c)] = NoTransfer
    BY <1>3 DEF Advanced, Only
  <2>2. call[c].at \in LegPlaces => ~InFlight(c, Program[call[c].at])
    BY <2>1, WhereItIs DEF Landed, InFlight
  <2>3. ASSUME NEW i \in LegPlaces
        PROVE  /\ call[c].at + 1 < i => transfer[c][Program[i]] = NoTransfer
               /\ i < call[c].at + 1 => ~InFlight(c, Program[i])
    BY <2>1, <2>2 DEF LegPlaces
  <2> QED  BY <2>1, <2>3 DEF InFlight, Running
<1>4. ASSUME NEW c \in Calls, Submitted(c)
      PROVE  SequenceInv'
  <2>1. /\ UNCHANGED call /\ call[c].at \in LegPlaces /\ At(c) = Program[call[c].at]
        /\ \A d \in Calls, l \in Leg : d # c \/ l # At(c) => transfer'[d][l] = transfer[d][l]
    BY <1>4, WhereItIs DEF Submitted
  <2>2. \A d \in Calls, i \in LegPlaces : d # c \/ i # call[c].at =>
            transfer'[d][Program[i]] = transfer[d][Program[i]]
    BY <2>1, LegsInOrder
  <2>3. \A i \in LegPlaces : i < call[c].at \/ call[c].at < i => i # call[c].at
    BY <2>1 DEF LegPlaces
  <2> QED  BY <2>1, <2>2, <2>3 DEF InFlight, Running
<1>5. CASE Crash
  BY <1>5, CrashKind
<1>6. ASSUME NEW c \in Calls, NEW l \in Leg, NEW s \in {"landed", "dropped"}, Settled(c, l, s)
      PROVE  SequenceInv'
  BY <1>6, LegsInOrder DEF Settled, InFlight, Running
<1>7. CASE UNCHANGED vars
  BY <1>7 DEF vars, InFlight, Running
<1>8. CASE Next
  BY <1>1, <1>2, <1>3, <1>4, <1>5, <1>6, <1>8, NextKinds, LandKind, DropKind
<1> QED  BY <1>7, <1>8

\* What a call has read of a balance still holds, its own payment apart, unless
\* another call's transfer came in between.
Undisturbed(c) ==
    /\ call[c].exact
    /\ call[c].at \in 8 .. 11 =>
          lamports[AccountOf(c, "specialist")] = call[c].seen["specialist"] + SpentOn(c, Downstream)
    /\ call[c].at \in 9 .. 12 =>
          lamports[AccountOf(c, "treasury")] = call[c].seen["treasury"] + SpentOn(c, FeeLeg)
BalanceInv == \A c \in Calls : Running(c) /\ c \notin crossed => Undisturbed(c)

\* What came in between a call's readings is not forgotten.
LEMMA CrossedForGood ==
    ASSUME IInv, [Next]_vars
    PROVE  crossed \subseteq crossed'
<1>1. ASSUME NEW d \in Calls, NEW r \in Request, Start(d, r)
      PROVE  UNCHANGED crossed
  BY <1>1, StartKind
<1>2. ASSUME NEW d \in Calls, Ended(d) \/ Advanced(d) \/ Submitted(d) \/ Stored(d)
      PROVE  UNCHANGED crossed
  BY <1>2 DEF Ended, Advanced, Submitted, Stored
<1>3. ASSUME NEW d \in Calls, NEW l \in Leg, Land(d, l) \/ Drop(d, l)
      PROVE  crossed \subseteq crossed'
  BY <1>3 DEF Land, Drop
<1>4. CASE Crash \/ UNCHANGED vars
  BY <1>4, CrashKind DEF vars
<1>5. CASE Next
  BY <1>1, <1>2, <1>3, <1>4, <1>5, NextKinds
<1> QED  BY <1>4, <1>5

LEMMA InitBalance == Init => BalanceInv
BY DEF Init, Idle, BalanceInv, Running

\* Nothing a call knows of its balances changes when neither it, nor its
\* transfers, nor its two accounts do.
LEMMA BalanceFrame ==
    ASSUME NEW c \in Calls, Undisturbed(c), call'[c] = call[c],
           \A w \in DOMAIN Price : lamports'[AccountOf(c, w)] = lamports[AccountOf(c, w)],
           SpentOn(c, Downstream)' = SpentOn(c, Downstream), SpentOn(c, FeeLeg)' = SpentOn(c, FeeLeg)
    PROVE  Undisturbed(c)'
BY DEF Undisturbed, AccountOf, Price

LEMMA SpentOnKept ==
    ASSUME NEW c \in Calls, NEW l \in Leg, transfer'[c][l] = transfer[c][l]
    PROVE  SpentOn(c, l)' = SpentOn(c, l)
BY DEF SpentOn, Landed

LEMMA AdvancedBalance ==
    ASSUME IInv, SequenceInv, NEW c \in Calls, Advanced(c), Undisturbed(c)
    PROVE  Undisturbed(c)'
<1>1. /\ Running(c) /\ UNCHANGED <<transfer, lamports>> /\ call[c].at \in 1 .. 12
      /\ call'[c].at = call[c].at + 1 /\ call'[c].request = call[c].request
  BY DEF Advanced
<1>2. SpentOn(c, Downstream)' = SpentOn(c, Downstream) /\ SpentOn(c, FeeLeg)' = SpentOn(c, FeeLeg)
  BY <1>1, SpentOnKept, LegShape
<1>3. /\ \A w \in DOMAIN Price : AccountOf(c, w)' = AccountOf(c, w)
      /\ DOMAIN Price = {"specialist", "treasury"}
      /\ Price["specialist"] = Amount /\ Price["treasury"] = Fee
  BY <1>1 DEF AccountOf, Price
<1>4. /\ call[c].at <= 8 => SpentOn(c, Downstream) = 0 /\ SpentOn(c, FeeLeg) = 0
      /\ call[c].at > 9 => SpentOn(c, Downstream) = Amount
      /\ call[c].at > 10 => SpentOn(c, FeeLeg) = Fee
  <2>1. call[c].at <= 8 => transfer[c][Downstream] = NoTransfer /\ transfer[c][FeeLeg] = NoTransfer
    BY <1>1, ProgramPositions DEF SequenceInv, LegPlaces
  <2>2. /\ call[c].at > 9 => Landed(c, Downstream)
        /\ call[c].at > 10 => Landed(c, FeeLeg)
        /\ Landed(c, Downstream) => transfer[c][Downstream].amount = Amount
        /\ Landed(c, FeeLeg) => transfer[c][FeeLeg].amount = Fee
    BY <1>1 DEF IInv, CallInv, Running, Landed
  <2> QED  BY <2>1, <2>2 DEF SpentOn, Landed
<1>5. /\ \A w \in DOMAIN Price : lamports[AccountOf(c, w)] \in Nat /\ call[c].seen[w] \in Nat
      /\ Amount \in Nat /\ Fee \in Nat
  <2>1. call[c].request.quote \in Quotes /\ call[c] \in Call
    BY <1>1, WhereItIs DEF Request
  <2> QED  BY <2>1, <1>3, PaymentConstants DEF IInv, TypeOK, AccountOf, Account, Wallet, Call
<1>6. CASE call[c].at \notin {7, 8, 11, 12}
  <2>1. call'[c].seen = call[c].seen /\ call'[c].exact = call[c].exact
    BY <1>6 DEF Advanced
  <2> QED  BY <1>1, <1>2, <1>3, <1>6, <2>1 DEF Undisturbed
<1>7. CASE call[c].at = 7
  <2>1. Program[7] = <<"before", "specialist">>
    BY DEF Program
  <2>2. call'[c].seen["specialist"] = lamports[AccountOf(c, "specialist")]
        /\ call'[c].exact = call[c].exact
    BY <1>3, <1>7, <2>1 DEF Advanced
  <2> QED  BY <1>1, <1>2, <1>3, <1>4, <1>5, <1>7, <2>2 DEF Undisturbed
<1>8. CASE call[c].at = 8
  <2>1. Program[8] = <<"before", "treasury">>
    BY DEF Program
  <2>2. call'[c].seen["treasury"] = lamports[AccountOf(c, "treasury")]
        /\ call'[c].seen["specialist"] = call[c].seen["specialist"]
        /\ call'[c].exact = call[c].exact
    BY <1>3, <1>8, <2>1 DEF Advanced
  <2> QED  BY <1>1, <1>2, <1>3, <1>4, <1>5, <1>8, <2>2 DEF Undisturbed
<1>9. CASE call[c].at = 11
  <2>1. Program[11] = <<"after", "specialist">>
    BY DEF Program
  <2>2. /\ call'[c].exact = (call[c].exact /\ lamports[AccountOf(c, "specialist")]
                                               - call[c].seen["specialist"] = Amount)
        /\ call'[c].seen["treasury"] = call[c].seen["treasury"]
    BY <1>3, <1>9, <2>1 DEF Advanced
  <2>3. lamports[AccountOf(c, "specialist")] = call[c].seen["specialist"] + Amount
        /\ lamports[AccountOf(c, "treasury")] = call[c].seen["treasury"] + SpentOn(c, FeeLeg)
        /\ call[c].exact
    BY <1>4, <1>9 DEF Undisturbed
  <2>4. lamports[AccountOf(c, "specialist")] - call[c].seen["specialist"] = Amount
    BY <1>3, <1>5, <2>3
  <2>5. call'[c].exact
    BY <2>2, <2>3, <2>4
  <2> QED  BY <1>1, <1>2, <1>3, <1>9, <2>2, <2>3, <2>5 DEF Undisturbed
<1>10. CASE call[c].at = 12
  <2>1. Program[12] = <<"after", "treasury">>
    BY DEF Program
  <2>2. call'[c].exact = (call[c].exact /\ lamports[AccountOf(c, "treasury")]
                                              - call[c].seen["treasury"] = Fee)
    BY <1>3, <1>10, <2>1 DEF Advanced
  <2>3. lamports[AccountOf(c, "treasury")] = call[c].seen["treasury"] + Fee /\ call[c].exact
    BY <1>4, <1>10 DEF Undisturbed
  <2>4. lamports[AccountOf(c, "treasury")] - call[c].seen["treasury"] = Fee
    BY <1>3, <1>5, <2>3
  <2>5. call'[c].exact
    BY <2>2, <2>3, <2>4
  <2> QED  BY <1>1, <1>10, <2>5 DEF Undisturbed
<1> QED  BY <1>6, <1>7, <1>8, <1>9, <1>10

LEMMA LandBalance ==
    ASSUME IInv, SequenceInv, NEW d \in Calls, NEW l \in Leg, Land(d, l),
           NEW c \in Calls, Running(c), c \notin crossed', Undisturbed(c)
    PROVE  Undisturbed(c)'
<1>1. /\ Settled(d, l, "landed") /\ UNCHANGED call
      /\ l[2] \in Wallet /\ call[c].request \in Request
      /\ Downstream \in Leg /\ FeeLeg \in Leg /\ DOMAIN Price = {"specialist", "treasury"}
  BY LandKind, LegShape, WhereItIs DEF Settled, Price
<1>2. \A w \in Wallet : AccountOf(c, w) \in Account
  BY <1>1 DEF AccountOf, Account, Request
<1>3. CASE d # c
  <2>1. ~Crosses(d, l, c)
    BY DEF Land
  <2>2. Program[7] = <<"before", "specialist">> /\ Program[8] = <<"before", "treasury">>
        /\ Program[11] = <<"after", "specialist">> /\ Program[12] = <<"after", "treasury">>
        /\ {7, 8, 11, 12} \subseteq DOMAIN Program
    BY ProgramPositions DEF Program
  <2>3. /\ call[c].at \in 8 .. 11 => Between(c, "specialist")
        /\ call[c].at \in 9 .. 12 => Between(c, "treasury")
    BY <2>2 DEF Between
  <2>4. ASSUME NEW w \in DOMAIN Price, Between(c, w)
        PROVE  lamports'[AccountOf(c, w)] = lamports[AccountOf(c, w)]
    <3>1. AccountOf(c, w) # AccountOf(d, l[2])
      BY <1>1, <1>3, <2>1, <2>4, AccountsApart DEF Crosses
    <3>2. w # "payer" /\ w \in Wallet /\ "payer" \in Wallet
      BY <1>1 DEF Wallet
    <3>3. AccountOf(c, w) # Source(d, l)
      BY <3>2, AccountsApart DEF Source
    <3> QED  BY <1>2, <3>1, <3>2, <3>3, LandKind
  <2>5. /\ SpentOn(c, Downstream)' = SpentOn(c, Downstream)
        /\ SpentOn(c, FeeLeg)' = SpentOn(c, FeeLeg)
    BY <1>1, <1>3, SpentOnKept DEF Settled
  <2>6. \A w \in DOMAIN Price : AccountOf(c, w)' = AccountOf(c, w)
    BY <1>1 DEF AccountOf
  <2> QED  BY <1>1, <2>3, <2>4, <2>5, <2>6 DEF Undisturbed
<1>4. CASE d = c
  <2>1. PICK i \in LegPlaces : Program[i] = l
    BY LegsInOrder
  <2>2. call[c].at = i
    <3>1. InFlight(c, l) /\ transfer[c][l] # NoTransfer
      BY <1>1, <1>4 DEF Settled, InFlight
    <3>2. ~(call[c].at < i) /\ ~(i < call[c].at) /\ call[c].at \in 1 .. 13
      BY <2>1, <3>1, WhereItIs DEF SequenceInv
    <3> QED  BY <3>2 DEF LegPlaces
  <2>3. CASE i \in {4, 5, 6}
    BY <1>1, <2>2, <2>3 DEF Undisturbed
  <2>4. CASE i \in {9, 10}
    <3>1. l[1] # "fund" /\ l \in {Downstream, FeeLeg} /\ l[2] \in DOMAIN Price
      BY <1>1, <2>1, <2>4, ProgramPositions DEF Downstream, FeeLeg
    <3>2. \A w \in DOMAIN Price : w # "payer" /\ AccountOf(c, w) # Source(c, l)
      BY <1>1, <3>1, AccountsApart DEF Source
    <3>3. \A w \in DOMAIN Price :
              lamports'[AccountOf(c, w)] = IF w = l[2]
                                           THEN lamports[AccountOf(c, w)] + transfer[c][l].amount
                                           ELSE lamports[AccountOf(c, w)]
      <4> SUFFICES ASSUME NEW w \in DOMAIN Price
                   PROVE  lamports'[AccountOf(c, w)] = IF w = l[2]
                                           THEN lamports[AccountOf(c, w)] + transfer[c][l].amount
                                           ELSE lamports[AccountOf(c, w)]
        OBVIOUS
      <4>1. CASE w = l[2]
        BY <1>4, <4>1, LandKind
      <4>2. CASE w # l[2]
        <5>1. AccountOf(c, w) # AccountOf(c, l[2]) /\ AccountOf(c, w) \in Account
          BY <1>1, <1>2, <4>2, AccountsApart
        <5> QED  BY <1>4, <3>2, <4>2, <5>1, LandKind
      <4> QED  BY <4>1, <4>2
    <3>4. /\ SpentOn(c, l) = 0 /\ SpentOn(c, l)' = transfer[c][l].amount
          /\ \A m \in Leg : m # l => SpentOn(c, m)' = SpentOn(c, m)
      BY <1>1, <1>4 DEF Settled, InFlight, SpentOn, Landed
    <3>5. \A w \in DOMAIN Price : lamports[AccountOf(c, w)] \in Nat /\ call[c].seen[w] \in Nat
      BY <1>1, <1>2, AccountsApart, WhereItIs DEF IInv, TypeOK, Call
    <3>6. transfer[c][l].amount \in Nat
      BY <1>4, LandKind
    <3>8. \A w \in DOMAIN Price : AccountOf(c, w)' = AccountOf(c, w)
      BY <1>1 DEF AccountOf
    <3>7. CASE i = 9
      <4>1. l = Downstream /\ l[2] = "specialist" /\ l # FeeLeg
        BY <2>1, <3>7, ProgramPositions, LegShape DEF Downstream
      <4> QED  BY <1>1, <2>2, <3>3, <3>4, <3>5, <3>6, <3>7, <3>8, <4>1 DEF Undisturbed
    <3>9. CASE i = 10
      <4>1. l = FeeLeg /\ l[2] = "treasury" /\ l # Downstream
        BY <2>1, <3>9, ProgramPositions, LegShape DEF FeeLeg
      <4> QED  BY <1>1, <2>2, <3>3, <3>4, <3>5, <3>6, <3>8, <3>9, <4>1 DEF Undisturbed
    <3> QED  BY <2>4, <3>7, <3>9
  <2> QED  BY <2>3, <2>4 DEF LegPlaces
<1> QED  BY <1>3, <1>4

LEMMA NextBalance ==
    ASSUME IInv, SequenceInv, BalanceInv, [Next]_vars
    PROVE  BalanceInv'
<1> SUFFICES ASSUME NEW c \in Calls, Running(c)', c \notin crossed'
             PROVE  Undisturbed(c)'
  BY DEF BalanceInv
<1>1. ASSUME Running(c)
      PROVE  Undisturbed(c)
  BY <1>1, CrossedForGood DEF BalanceInv
<1>2. ASSUME Running(c), call'[c] = call[c], UNCHANGED lamports,
             transfer'[c][Downstream] = transfer[c][Downstream],
             transfer'[c][FeeLeg] = transfer[c][FeeLeg]
      PROVE  Undisturbed(c)'
  BY <1>1, <1>2, BalanceFrame, SpentOnKept, LegShape
<1>3. ASSUME NEW d \in Calls, NEW r \in Request, Start(d, r)
      PROVE  Undisturbed(c)'
  <2>1. CASE d = c
    BY <1>3, <2>1, StartKind DEF Undisturbed
  <2>2. CASE d # c
    BY <1>2, <1>3, <2>2, StartKind DEF Only, Running
  <2> QED  BY <2>1, <2>2
<1>4. ASSUME NEW d \in Calls, Ended(d) \/ Stored(d)
      PROVE  Undisturbed(c)'
  <2>1. d # c
    BY <1>4 DEF Ended, Stored, Running
  <2> QED  BY <1>2, <1>4, <2>1 DEF Ended, Stored, Only, Running
<1>5. ASSUME NEW d \in Calls, Advanced(d)
      PROVE  Undisturbed(c)'
  <2>1. CASE d = c
    BY <1>1, <1>5, <2>1, AdvancedBalance DEF Advanced
  <2>2. CASE d # c
    BY <1>2, <1>5, <2>2 DEF Advanced, Only, Running
  <2> QED  BY <2>1, <2>2
<1>6. ASSUME NEW d \in Calls, Submitted(d)
      PROVE  Undisturbed(c)'
  <2>1. UNCHANGED <<call, lamports>> /\ Running(c)
    BY <1>6 DEF Submitted, Running
  <2>2. ASSUME NEW l \in Leg
        PROVE  SpentOn(c, l)' = SpentOn(c, l)
    BY <1>6 DEF Submitted, SpentOn, Landed
  <2> QED  BY <1>1, <2>1, <2>2, BalanceFrame, LegShape
<1>7. CASE Crash
  BY <1>7, CrashKind
<1>8. ASSUME NEW d \in Calls, NEW l \in Leg, Land(d, l)
      PROVE  Undisturbed(c)'
  <2>1. UNCHANGED call /\ Running(c)
    BY <1>8, LandKind DEF Settled, Running
  <2> QED  BY <1>1, <1>8, <2>1, LandBalance
<1>9. ASSUME NEW d \in Calls, NEW l \in Leg, Drop(d, l)
      PROVE  Undisturbed(c)'
  <2>1. UNCHANGED <<call, lamports>> /\ Running(c) /\ Settled(d, l, "dropped")
    BY <1>9, DropKind DEF Settled, Running
  <2>2. ASSUME NEW m \in Leg
        PROVE  SpentOn(c, m)' = SpentOn(c, m)
    BY <2>1 DEF Settled, InFlight, SpentOn, Landed
  <2> QED  BY <1>1, <2>1, <2>2, BalanceFrame, LegShape
<1>10. CASE UNCHANGED vars
  BY <1>2, <1>10 DEF vars, Running
<1>11. CASE Next
  BY <1>3, <1>4, <1>5, <1>6, <1>7, <1>8, <1>9, <1>11, NextKinds
<1> QED  BY <1>10, <1>11

\* A receipt that says "fail" is written by a call that was crossed.
LEMMA NextExplained ==
    ASSUME IInv, BalanceInv, MismatchExplained, [Next]_vars
    PROVE  MismatchExplained'
<1> SUFFICES ASSUME NEW s \in receipts', ~s.exact
             PROVE  s.call \in crossed'
  BY DEF MismatchExplained
<1>1. ASSUME s \in receipts
      PROVE  s.call \in crossed'
  BY <1>1, CrossedForGood DEF MismatchExplained
<1>2. ASSUME NEW c \in Calls, Stored(c), s \notin receipts
      PROVE  s.call \in crossed'
  <2>1. s.call = c /\ s.exact = call[c].exact /\ Running(c) /\ UNCHANGED crossed
    BY <1>2 DEF Stored
  <2> QED  BY <2>1 DEF BalanceInv, Undisturbed
<1>3. ASSUME UNCHANGED receipts
      PROVE  s \in receipts
  BY <1>3
<1>4. CASE Crash \/ UNCHANGED vars
  BY <1>1, <1>4, CrashKind DEF vars
<1>5. ASSUME NEW c \in Calls, NEW r \in Request, Start(c, r)
      PROVE  UNCHANGED receipts
  BY <1>5, StartKind
<1>6. ASSUME NEW c \in Calls, Ended(c) \/ Advanced(c) \/ Submitted(c)
      PROVE  UNCHANGED receipts
  BY <1>6 DEF Ended, Advanced, Submitted
<1>7. ASSUME NEW c \in Calls, NEW l \in Leg, Land(c, l) \/ Drop(c, l)
      PROVE  UNCHANGED receipts
  BY <1>7, LandKind, DropKind DEF Settled
<1>8. CASE Next
  BY <1>1, <1>2, <1>4, <1>5, <1>6, <1>7, <1>8, NextKinds
<1> QED  BY <1>4, <1>8

ExplainedInv == IInv /\ SequenceInv /\ BalanceInv /\ MismatchExplained

LEMMA ExplainedInductive == Spec => []ExplainedInv
<1>1. Init => ExplainedInv
  BY InitIInv, InitSequence, InitBalance DEF ExplainedInv, Init, MismatchExplained
<1>2. ExplainedInv /\ [Next]_vars => ExplainedInv'
  BY NextIInv, NextSequence, NextBalance, NextExplained DEF ExplainedInv
<1> QED  BY <1>1, <1>2, PTL DEF Spec

-----------------------------------------------------------------------------
(* Calls that come one at a time. *)

\* What a running call did not find in the store is still not there: no other
\* call writes it.  A key stays bound to a request like the one it answered.
OneRunning == \A c, d \in Calls : Running(c) /\ Running(d) => c = d
StoreFree ==
    \A c \in Calls : Running(c) =>
        ~AlreadyPaid(call[c].request) /\ keyed[call[c].request.key] = NoReceipt
KeyKept ==
    \A c \in Calls : call[c].answer # NoReceipt =>
        /\ call[c].request \in Request
        /\ keyed[call[c].request.key] # NoReceipt
        /\ SameInput(keyed[call[c].request.key], call[c].request)
SerialInv == OneRunning /\ StoreFree /\ KeyKept

LEMMA InitSerial == Init => SerialInv
BY DEF Init, Idle, SerialInv, OneRunning, StoreFree, KeyKept, Running

LEMMA NextSerial ==
    ASSUME ~Overlap, IInv, SerialInv, [Next]_vars
    PROVE  SerialInv'
<1> USE DEF SerialInv, OneRunning, StoreFree, KeyKept
<1>1. ASSUME NEW c \in Calls, NEW r \in Request, Start(c, r)
      PROVE  SerialInv'
  <2>1. /\ \A d \in Calls : ~Running(d)
        /\ UNCHANGED <<receipts, keyed>> /\ call'[c].status = Answered(r) /\ call'[c].request = r
        /\ call'[c].answer = IF Answered(r) = "replayed" THEN keyed[r.key] ELSE NoReceipt
        /\ \A d \in Calls : d # c => call'[d] = call[d]
    BY <1>1, StartKind DEF Only
  <2>2. /\ Answered(r) = "running" => ~AlreadyPaid(r) /\ keyed[r.key] = NoReceipt
        /\ Answered(r) = "replayed" => keyed[r.key] # NoReceipt /\ SameInput(keyed[r.key], r)
    BY DEF Answered
  <2>3. AlreadyPaid(r)' <=> AlreadyPaid(r)
    BY <2>1 DEF AlreadyPaid
  <2>4. OneRunning' /\ StoreFree'
    BY <2>1, <2>2, <2>3 DEF Running
  <2>5. KeyKept'
    BY <2>1, <2>2
  <2> QED  BY <2>4, <2>5
<1>2. ASSUME NEW c \in Calls, Ended(c) \/ Advanced(c)
      PROVE  SerialInv'
  <2>1. /\ Running(c) /\ UNCHANGED <<receipts, keyed>>
        /\ \A d \in Calls : d # c => call'[d] = call[d]
        /\ call'[c].request = call[c].request /\ call'[c].answer = call[c].answer
    BY <1>2 DEF Ended, Advanced, Only
  <2> QED  BY <2>1 DEF Running, AlreadyPaid
<1>3. ASSUME NEW c \in Calls, Stored(c)
      PROVE  SerialInv'
  <2>1. PICK r \in Receipt :
            /\ r.quote = call[c].request.quote /\ r.max = call[c].request.max
            /\ call'[c].answer = r /\ keyed' = [keyed EXCEPT ![call[c].request.key] = r]
    BY <1>3 DEF Stored
  <2>2. /\ Running(c) /\ call'[c].status = "returned" /\ call'[c].request = call[c].request
        /\ \A d \in Calls : d # c => call'[d] = call[d]
    BY <1>3 DEF Stored, Only
  <2>3. call[c].request.key \in Keys
    BY <2>2, WhereItIs DEF Request
  <2>4. /\ keyed'[call[c].request.key] = r
        /\ \A k \in Keys : k # call[c].request.key => keyed'[k] = keyed[k]
    BY <2>1, <2>3 DEF IInv, TypeOK
  <2>5. \A d \in Calls : ~Running(d)'
    BY <2>2 DEF Running
  <2>6. r # NoReceipt
    BY MarkersAreNoRecords
  <2>7. ASSUME NEW d \in Calls, call'[d].answer # NoReceipt
        PROVE  /\ call'[d].request \in Request
               /\ keyed'[call'[d].request.key] # NoReceipt
               /\ SameInput(keyed'[call'[d].request.key], call'[d].request)
    <3>1. CASE d = c
      BY <2>1, <2>2, <2>4, <2>6, <3>1, WhereItIs DEF SameInput
    <3>2. CASE d # c
      <4>1. call'[d] = call[d] /\ call[d].answer # NoReceipt
        BY <2>2, <2>7, <3>2
      <4>2. call[d].request.key # call[c].request.key
        BY <2>2, <4>1
      <4>3. call[d].request.key \in Keys
        BY <4>1 DEF Request
      <4> QED  BY <2>4, <4>1, <4>2, <4>3
    <3> QED  BY <3>1, <3>2
  <2> QED  BY <2>5, <2>7
<1>4. ASSUME NEW c \in Calls, Submitted(c)
      PROVE  SerialInv'
  BY <1>4 DEF Submitted, Running, AlreadyPaid
<1>5. ASSUME NEW c \in Calls, NEW l \in Leg, NEW s \in {"landed", "dropped"}, Settled(c, l, s)
      PROVE  SerialInv'
  BY <1>5 DEF Settled, Running, AlreadyPaid
<1>6. CASE Crash
  BY <1>6, CrashKind
<1>7. CASE UNCHANGED vars
  BY <1>7 DEF vars, Running, AlreadyPaid
<1>8. CASE Next
  BY <1>1, <1>2, <1>3, <1>4, <1>5, <1>6, <1>8, NextKinds, LandKind, DropKind
<1> QED  BY <1>7, <1>8

LEMMA SerialInductive ==
    ASSUME ~Overlap
    PROVE  Spec => [](IInv /\ SequenceInv /\ SerialInv)
<1>1. Init => IInv /\ SequenceInv /\ SerialInv
  BY InitIInv, InitSequence, InitSerial
<1>2. IInv /\ SequenceInv /\ SerialInv /\ [Next]_vars => (IInv /\ SequenceInv /\ SerialInv)'
  BY NextIInv, NextSequence, NextSerial
<1> QED  BY <1>1, <1>2, PTL DEF Spec

-----------------------------------------------------------------------------
(* One at a time and undisturbed: what a call may spend. *)

FundLeg(w) == <<"fund", w>>
Place(w) == IF w = "payer" THEN 4 ELSE IF w = "specialist" THEN 5 ELSE 6

\* Only the running call has something in flight, and a top-up in flight is what
\* its account lacks.
QuietInv ==
    /\ \A c \in Calls, l \in Leg : InFlight(c, l) => Running(c)
    /\ \A c \in Calls, w \in Wallet : InFlight(c, FundLeg(w)) =>
          transfer[c][FundLeg(w)].amount = Missing(c, w)

\* The estimate of a call covers what it has topped up and what it still will.
TopUp(c, w) ==
    IF call[c].at <= Place(w) - 3 THEN 0
    ELSE IF Landed(c, FundLeg(w)) THEN transfer[c][FundLeg(w)].amount
    ELSE IF call[c].at <= Place(w) THEN Missing(c, w) ELSE 0
EstimateInv ==
    \A c \in Calls : Running(c) =>
        /\ TopUp(c, "payer") + TopUp(c, "specialist") + TopUp(c, "treasury") <= call[c].estimate
        /\ call[c].at > 3 => Debit + call[c].estimate <= Cap(call[c].request)

LEMMA FundLegs ==
    /\ \A w \in Wallet : /\ FundLeg(w) \in Leg /\ FundLeg(w) # Downstream /\ FundLeg(w) # FeeLeg
                         /\ Place(w) \in 4 .. 6 /\ Program[Place(w)] = FundLeg(w)
                         /\ Program[Place(w) - 3][2] = w
                         /\ FundLeg(w)[1] = "fund" /\ FundLeg(w)[2] = w
    /\ \A v, w \in Wallet : v # w => Place(v) # Place(w) /\ FundLeg(v) # FundLeg(w)
    /\ \A i \in 4 .. 6 : \E w \in Wallet : Place(w) = i
<1>1. \A w \in Wallet : /\ Place(w) \in 4 .. 6 /\ Program[Place(w)] = FundLeg(w)
                        /\ Program[Place(w) - 3][2] = w
                        /\ FundLeg(w)[1] = "fund" /\ FundLeg(w)[2] = w
  BY LegsInOrder DEF Wallet, Place, FundLeg
<1>2. \A w \in Wallet : FundLeg(w) \in Leg /\ FundLeg(w) # Downstream /\ FundLeg(w) # FeeLeg
  <2> SUFFICES ASSUME NEW w \in Wallet
               PROVE  FundLeg(w) \in Leg /\ FundLeg(w) # Downstream /\ FundLeg(w) # FeeLeg
    OBVIOUS
  <2>1. Place(w) \in LegPlaces /\ 9 \in LegPlaces /\ 10 \in LegPlaces
    BY <1>1 DEF LegPlaces
  <2> QED  BY <1>1, <2>1, LegsInOrder, ProgramPositions
<1>3. \A v, w \in Wallet : v # w => Place(v) # Place(w) /\ FundLeg(v) # FundLeg(w)
  BY DEF Wallet, Place, FundLeg
<1>4. \A i \in 4 .. 6 : \E w \in Wallet : Place(w) = i
  <2>1. {"payer", "specialist", "treasury"} = Wallet
    BY DEF Wallet
  <2> QED  BY <2>1 DEF Place
<1> QED  BY <1>1, <1>2, <1>3, <1>4

\* What a running call has in flight is what it awaits.
LEMMA AwaitsFlight ==
    ASSUME IInv, SequenceInv, NEW c \in Calls, NEW l \in Leg, Running(c), InFlight(c, l)
    PROVE  l = At(c) /\ call[c].at \in LegPlaces
<1>1. PICK i \in LegPlaces : Program[i] = l
  BY LegsInOrder
<1>2. transfer[c][l] # NoTransfer
  BY DEF InFlight
<1>3. ~(call[c].at < i) /\ ~(i < call[c].at) /\ call[c].at \in 1 .. 13 /\ i \in 1 .. 13
  BY <1>1, <1>2, WhereItIs DEF SequenceInv, LegPlaces
<1>4. call[c].at = i
  BY <1>3
<1> QED  BY <1>1, <1>4, WhereItIs

LEMMA InitQuiet == Init => QuietInv /\ EstimateInv /\ SpendCapped
<1>1. Init => QuietInv
  BY FundLegs DEF Init, QuietInv, InFlight
<1>2. Init => EstimateInv /\ SpendCapped
  BY DEF Init, Idle, EstimateInv, Running, SpendCapped
<1> QED  BY <1>1, <1>2

\* Only a submission puts something in flight.
LEMMA NextQuiet ==
    ASSUME ~Overlap, ~Faults, IInv, SequenceInv, SerialInv, QuietInv, [Next]_vars
    PROVE  QuietInv'
<1>1. ASSUME \A c \in Calls, l \in Leg : ~InFlight(c, l)'
      PROVE  QuietInv'
  BY <1>1, FundLegs DEF QuietInv
<1>2. ASSUME NEW c \in Calls, Running(c), \A l \in Leg : ~InFlight(c, l)'
      PROVE  (\A d \in Calls, l \in Leg : d # c => transfer'[d][l] = transfer[d][l]) => QuietInv'
  <2>1. \A d \in Calls, l \in Leg : d # c => ~InFlight(d, l)
    BY <1>2 DEF SerialInv, OneRunning, QuietInv
  <2> QED  BY <1>1, <1>2, <2>1 DEF InFlight
<1>3. ASSUME NEW c \in Calls, NEW r \in Request, Start(c, r)
      PROVE  QuietInv'
  <2>1. UNCHANGED transfer /\ \A d \in Calls, l \in Leg : ~InFlight(d, l)
    BY <1>3, StartKind DEF QuietInv
  <2> QED  BY <1>1, <2>1 DEF InFlight
<1>4. ASSUME NEW c \in Calls, Ended(c) \/ Stored(c)
      PROVE  QuietInv'
  <2>1. /\ Running(c) /\ UNCHANGED transfer
        /\ \/ call[c].at = 3 \/ call[c].at = 13
           \/ transfer[c][At(c)] # NoTransfer /\ transfer[c][At(c)].state = "dropped"
    BY <1>4 DEF Ended, Stored
  <2>2. \A l \in Leg : ~InFlight(c, l)
    BY <2>1, AwaitsFlight DEF InFlight, LegPlaces
  <2> QED  BY <1>2, <2>1, <2>2 DEF InFlight
<1>5. ASSUME NEW c \in Calls, Advanced(c)
      PROVE  QuietInv'
  <2>1. /\ Running(c) /\ UNCHANGED transfer
        /\ call[c].at \in LegPlaces => Landed(c, At(c)) \/ transfer[c][At(c)] = NoTransfer
    BY <1>5 DEF Advanced
  <2>2. \A l \in Leg : ~InFlight(c, l)
    BY <2>1, AwaitsFlight DEF InFlight, Landed
  <2> QED  BY <1>2, <2>1, <2>2 DEF InFlight
<1>6. ASSUME NEW c \in Calls, Submitted(c)
      PROVE  QuietInv'
  <2>1. /\ Running(c) /\ UNCHANGED <<call, lamports>> /\ call[c].at \in LegPlaces
        /\ \A d \in Calls, l \in Leg : d # c \/ l # At(c) => transfer'[d][l] = transfer[d][l]
        /\ call[c].at < 7 => transfer'[c][At(c)].amount = Missing(c, At(c)[2])
        /\ At(c) = Program[call[c].at]
    BY <1>6, WhereItIs DEF Submitted
  <2>2. \A d \in Calls, l \in Leg : InFlight(d, l)' => Running(d)'
    BY <2>1 DEF QuietInv, InFlight, Running
  <2>3. ASSUME NEW d \in Calls, NEW w \in Wallet, InFlight(d, FundLeg(w))'
        PROVE  transfer'[d][FundLeg(w)].amount = Missing(d, w)'
    <3>1. Missing(d, w)' = Missing(d, w)
      BY <2>1 DEF Missing, AccountOf
    <3>2. CASE d = c /\ FundLeg(w) = At(c)
      <4>1. call[c].at = Place(w) /\ At(c)[2] = w
        <5>1. Place(w) \in LegPlaces
          BY FundLegs DEF LegPlaces
        <5>2. Program[call[c].at] = Program[Place(w)]
          BY <2>1, <3>2, FundLegs
        <5> QED  BY <2>1, <3>2, <5>1, <5>2, FundLegs, LegsInOrder
      <4> QED  BY <2>1, <3>1, <3>2, <4>1, FundLegs
    <3>3. CASE d # c \/ FundLeg(w) # At(c)
      <4>1. transfer'[d][FundLeg(w)] = transfer[d][FundLeg(w)]
        BY <2>1, <3>3, FundLegs
      <4> QED  BY <2>3, <3>1, <4>1 DEF QuietInv, InFlight
    <3> QED  BY <3>2, <3>3
  <2> QED  BY <2>2, <2>3 DEF QuietInv
<1>7. ASSUME NEW c \in Calls, NEW l \in Leg, NEW s \in {"landed", "dropped"}, Settled(c, l, s)
      PROVE  QuietInv'
  <2>1. Running(c)
    BY <1>7 DEF QuietInv, Settled
  <2>2. \A m \in Leg : ~InFlight(c, m)'
    BY <1>7, <2>1, AwaitsFlight DEF Settled, InFlight
  <2> QED  BY <1>2, <1>7, <2>1, <2>2 DEF Settled
<1>8. CASE UNCHANGED vars
  BY <1>8 DEF vars, QuietInv, InFlight, Running, Missing, AccountOf
<1>9. CASE Next
  BY <1>3, <1>4, <1>5, <1>6, <1>7, <1>9, NextKinds, LandKind, DropKind, CrashKind
<1> QED  BY <1>8, <1>9

LEMMA TopUpIsNat ==
    ASSUME IInv, NEW c \in Calls, Running(c), NEW w \in Wallet
    PROVE  TopUp(c, w) \in Nat /\ Missing(c, w) \in Nat
<1>1. Missing(c, w) \in Nat
  BY WhereItIs, MissingIsNat DEF IInv
<1>2. Landed(c, FundLeg(w)) => transfer[c][FundLeg(w)].amount \in Nat
  BY FundLegs DEF IInv, TypeOK, Landed, Transfer
<1> QED  BY <1>1, <1>2 DEF TopUp

LEMMA TopUpKept ==
    ASSUME NEW c \in Calls, NEW w \in Wallet, UNCHANGED <<call, lamports>>,
           transfer[c][FundLeg(w)] # NoTransfer => transfer'[c][FundLeg(w)] = transfer[c][FundLeg(w)],
           Landed(c, FundLeg(w))' => Landed(c, FundLeg(w))
    PROVE  TopUp(c, w)' = TopUp(c, w)
BY DEF TopUp, Missing, AccountOf, Landed

\* Passing an await adds to the expected top-ups what it adds to the estimate.
LEMMA AdvancedTopUp ==
    ASSUME IInv, SequenceInv, NEW c \in Calls, Advanced(c), NEW w \in Wallet
    PROVE  TopUp(c, w)' = TopUp(c, w)
                          + IF call[c].at = Place(w) - 3 THEN Missing(c, w) ELSE 0
<1>1. /\ Running(c) /\ UNCHANGED <<transfer, lamports>> /\ call[c].at \in 1 .. 12
      /\ call'[c].at = call[c].at + 1 /\ call'[c].request = call[c].request
      /\ At(c) = Program[call[c].at]
  BY WhereItIs DEF Advanced
<1>2. Missing(c, w)' = Missing(c, w) /\ Landed(c, FundLeg(w))' = Landed(c, FundLeg(w))
  BY <1>1 DEF Missing, AccountOf, Landed
<1>3. Missing(c, w) \in Nat /\ TopUp(c, w) \in Nat /\ Place(w) \in 4 .. 6
  BY <1>1, TopUpIsNat, FundLegs
<1>4. CASE call[c].at <= Place(w) - 3
  <2>1. ~Landed(c, FundLeg(w))
    <3>1. Place(w) \in LegPlaces /\ call[c].at < Place(w)
      BY <1>1, <1>3, <1>4 DEF LegPlaces
    <3> QED  BY <1>1, <3>1, FundLegs DEF SequenceInv, Landed
  <2> QED  BY <1>1, <1>2, <1>3, <1>4, <2>1 DEF TopUp
<1>5. CASE call[c].at = Place(w)
  <2>1. call[c].at \in LegPlaces /\ At(c) = FundLeg(w) /\ At(c)[2] = w
    BY <1>1, <1>3, <1>5, FundLegs DEF LegPlaces
  <2>2. Landed(c, FundLeg(w)) \/ Missing(c, w) = 0
    BY <2>1 DEF Advanced
  <2> QED  BY <1>1, <1>2, <1>3, <1>5, <2>2 DEF TopUp
<1>6. CASE call[c].at > Place(w) - 3 /\ call[c].at # Place(w)
  BY <1>1, <1>2, <1>3, <1>6 DEF TopUp
<1> QED  BY <1>1, <1>3, <1>4, <1>5, <1>6

\* A top-up that lands is what was missing.
LEMMA LandTopUp ==
    ASSUME IInv, SequenceInv, QuietInv, NEW c \in Calls, NEW l \in Leg, Land(c, l),
           NEW w \in Wallet
    PROVE  TopUp(c, w)' = TopUp(c, w)
<1>1. /\ Settled(c, l, "landed") /\ InFlight(c, l) /\ UNCHANGED call /\ Running(c)
      /\ l[2] \in Wallet /\ call[c].request \in Request
  BY LandKind, LegShape DEF Settled, QuietInv
<1>2. l = At(c) /\ call[c].at \in LegPlaces /\ At(c) = Program[call[c].at]
  BY <1>1, AwaitsFlight, WhereItIs
<1>3. /\ FundLeg(w) \in Leg /\ Place(w) \in 4 .. 6 /\ Place(w) \in LegPlaces
      /\ Program[Place(w)] = FundLeg(w) /\ call[c].at \in 4 .. 10
  BY <1>2, FundLegs DEF LegPlaces
<1>4. CASE FundLeg(w) = l
  <2>1. call[c].at = Place(w)
    BY <1>2, <1>3, <1>4, LegsInOrder
  <2>2. ~Landed(c, l) /\ Landed(c, l)' /\ transfer'[c][l].amount = Missing(c, w)
    BY <1>1, <1>4 DEF Settled, InFlight, Landed, QuietInv
  <2> QED  BY <1>1, <1>3, <1>4, <2>1, <2>2 DEF TopUp
<1>5. CASE FundLeg(w) # l
  <2>1. transfer'[c][FundLeg(w)] = transfer[c][FundLeg(w)]
    BY <1>1, <1>3, <1>5 DEF Settled
  <2>2. call[c].at # Place(w)
    BY <1>2, <1>3, <1>5
  <2>3. CASE call[c].at > Place(w)
    BY <1>1, <1>3, <2>1, <2>3 DEF TopUp, Landed
  <2>4. CASE call[c].at < Place(w)
    <3>1. PICK v \in Wallet : Place(v) = call[c].at
      BY <1>3, <2>4, FundLegs
    <3>2. l = FundLeg(v) /\ v # w /\ l[1] = "fund" /\ l[2] = v
      BY <1>2, <2>2, <3>1, FundLegs
    <3>3. AccountOf(c, w) # Source(c, l) /\ AccountOf(c, w) # AccountOf(c, l[2])
      BY <1>1, <3>2, AccountsApart DEF Source
    <3>4. AccountOf(c, w) \in Account
      BY <1>1 DEF AccountOf, Account, Request
    <3>5. lamports'[AccountOf(c, w)] = lamports[AccountOf(c, w)]
      BY <3>3, <3>4, LandKind
    <3> QED  BY <1>1, <2>1, <3>5 DEF TopUp, Landed, Missing, AccountOf
  <2> QED  BY <1>3, <2>2, <2>3, <2>4
<1> QED  BY <1>4, <1>5

LEMMA NextEstimate ==
    ASSUME ~Overlap, ~Faults, IInv, SequenceInv, SerialInv, QuietInv, EstimateInv, [Next]_vars
    PROVE  EstimateInv'
<1> SUFFICES ASSUME NEW c \in Calls, Running(c)'
             PROVE  /\ TopUp(c, "payer")' + TopUp(c, "specialist")' + TopUp(c, "treasury")'
                           <= call'[c].estimate
                    /\ call'[c].at > 3 => Debit + call'[c].estimate <= Cap(call'[c].request)
  BY DEF EstimateInv
<1> DEFINE Goal ==
               /\ TopUp(c, "payer")' + TopUp(c, "specialist")' + TopUp(c, "treasury")'
                       <= call'[c].estimate
               /\ call'[c].at > 3 => Debit + call'[c].estimate <= Cap(call'[c].request)
<1>0. "payer" \in Wallet /\ "specialist" \in Wallet /\ "treasury" \in Wallet
  BY DEF Wallet
<1>1. ASSUME Running(c), call'[c] = call[c], \A w \in Wallet : TopUp(c, w)' = TopUp(c, w)
      PROVE  Goal
  BY <1>0, <1>1 DEF EstimateInv
<1> HIDE DEF Goal
<1>2. ASSUME NEW d \in Calls, NEW r \in Request, Start(d, r)
      PROVE  Goal
  <2>1. d = c
    <3>1. ~Running(c)
      BY <1>2, StartKind
    <3> QED  BY <1>2, <3>1, StartKind DEF Only, Running
  <2>2. call'[c].at = 1 /\ call'[c].estimate = 0
    BY <1>2, <2>1, StartKind
  <2>3. \A w \in Wallet : TopUp(c, w)' = 0
    BY <2>2, FundLegs DEF TopUp
  <2> QED  BY <1>0, <2>2, <2>3 DEF Goal
<1>3. ASSUME NEW d \in Calls, Ended(d) \/ Stored(d)
      PROVE  FALSE
  <2>1. Running(d) /\ ~Running(d)' /\ \A e \in Calls : e # d => call'[e] = call[e]
    BY <1>3 DEF Ended, Stored, Only, Running
  <2> QED  BY <2>1 DEF Running, SerialInv, OneRunning
<1>4. ASSUME NEW d \in Calls, Advanced(d)
      PROVE  Goal
  <2>1. Running(d) /\ \A e \in Calls : e # d => call'[e] = call[e]
    BY <1>4 DEF Advanced, Only
  <2>2. d = c
    BY <2>1 DEF Running, SerialInv, OneRunning
  <2>3. /\ Running(c) /\ call[c].at \in 1 .. 12 /\ call'[c].at = call[c].at + 1
        /\ call'[c].request = call[c].request
        /\ call[c].at \in 1 .. 3 =>
              call'[c].estimate = call[c].estimate + Missing(c, Program[call[c].at][2])
        /\ call[c].at = 3 => Debit + call'[c].estimate <= Cap(call[c].request)
        /\ call[c].at \notin 1 .. 3 => call'[c].estimate = call[c].estimate
    BY <1>4, <2>2 DEF Advanced
  <2>4. \A w \in Wallet : TopUp(c, w) \in Nat /\ Missing(c, w) \in Nat
    BY <2>3, TopUpIsNat
  <2>5. call[c].estimate \in Nat
    BY WhereItIs DEF Call
  <2>6. /\ TopUp(c, "payer")' = TopUp(c, "payer")
                 + IF call[c].at = 1 THEN Missing(c, "payer") ELSE 0
        /\ TopUp(c, "specialist")' = TopUp(c, "specialist")
                 + IF call[c].at = 2 THEN Missing(c, "specialist") ELSE 0
        /\ TopUp(c, "treasury")' = TopUp(c, "treasury")
                 + IF call[c].at = 3 THEN Missing(c, "treasury") ELSE 0
    BY <1>0, <1>4, <2>2, AdvancedTopUp DEF Place
  <2>7. call'[c].estimate = call[c].estimate
            + (IF call[c].at = 1 THEN Missing(c, "payer") ELSE 0)
            + (IF call[c].at = 2 THEN Missing(c, "specialist") ELSE 0)
            + (IF call[c].at = 3 THEN Missing(c, "treasury") ELSE 0)
    BY <1>0, <2>3, <2>4, <2>5, LegsInOrder
  <2>8. TopUp(c, "payer") + TopUp(c, "specialist") + TopUp(c, "treasury") <= call[c].estimate
    BY <2>3 DEF EstimateInv
  <2>9. TopUp(c, "payer")' + TopUp(c, "specialist")' + TopUp(c, "treasury")' <= call'[c].estimate
    BY <1>0, <2>4, <2>5, <2>6, <2>7, <2>8
  <2>10. call'[c].at > 3 => Debit + call'[c].estimate <= Cap(call'[c].request)
    <3>1. CASE call[c].at = 3
      BY <2>3, <3>1
    <3>2. CASE call[c].at > 3
      BY <2>3, <3>2 DEF EstimateInv
    <3> QED  BY <2>3, <3>1, <3>2
  <2> QED  BY <2>9, <2>10 DEF Goal
<1>5. ASSUME NEW d \in Calls, Submitted(d)
      PROVE  Goal
  <2>1. UNCHANGED <<call, lamports>> /\ Running(c)
    BY <1>5 DEF Submitted, Running
  <2>2. \A w \in Wallet : TopUp(c, w)' = TopUp(c, w)
    BY <1>5, <2>1, TopUpKept, FundLegs DEF Submitted, Landed
  <2> QED  BY <1>1, <2>1, <2>2
<1>6. ASSUME NEW d \in Calls, NEW l \in Leg, Land(d, l)
      PROVE  Goal
  <2>1. Settled(d, l, "landed") /\ Running(d) /\ UNCHANGED call /\ Running(c)
    BY <1>6, LandKind DEF Settled, QuietInv, Running
  <2>2. d = c
    BY <2>1 DEF SerialInv, OneRunning
  <2> QED  BY <1>1, <1>6, <2>1, <2>2, LandTopUp
<1>7. ASSUME NEW d \in Calls, NEW l \in Leg, Drop(d, l)
      PROVE  Goal
  <2>1. Settled(d, l, "dropped") /\ UNCHANGED <<call, lamports>> /\ Running(c)
    BY <1>7, DropKind DEF Settled, Running
  <2>2. \A w \in Wallet : /\ Landed(c, FundLeg(w))' = Landed(c, FundLeg(w))
                          /\ Landed(c, FundLeg(w)) => transfer'[c][FundLeg(w)] = transfer[c][FundLeg(w)]
    BY <2>1, FundLegs DEF Settled, InFlight, Landed
  <2>3. \A w \in Wallet : TopUp(c, w)' = TopUp(c, w)
    BY <2>1, <2>2 DEF TopUp, Missing, AccountOf
  <2> QED  BY <1>1, <2>1, <2>3
<1>8. CASE UNCHANGED vars
  <2>1. \A w \in Wallet : TopUp(c, w)' = TopUp(c, w)
    BY <1>8 DEF vars, TopUp, Missing, AccountOf, Landed
  <2> QED  BY <1>1, <1>8, <2>1 DEF vars, Running, Goal
<1>9. CASE Next
  BY <1>2, <1>3, <1>4, <1>5, <1>6, <1>7, <1>9, NextKinds, CrashKind DEF Goal
<1> QED  BY <1>8, <1>9 DEF Goal

\* A running call has spent no more than its estimate and its payments.
LEMMA RunningSpend ==
    ASSUME IInv, SequenceInv, EstimateInv, NEW c \in Calls, Running(c)
    PROVE  Spent(c) <= Cap(call[c].request)
<1>1. Downstream \in Leg /\ FeeLeg \in Leg /\ call[c].at \in 1 .. 13 /\ call[c].request \in Request
  BY LegShape, WhereItIs
<1>2. Cap(call[c].request) \in Nat /\ Amount \in Nat /\ Fee \in Nat
  BY <1>1, PaymentConstants DEF Cap, Request
<1>3. \A w \in Wallet : TopUp(c, w) \in Nat
  BY TopUpIsNat
<1>4. Spent(c) = SpentOn(c, FundLeg("payer")) + SpentOn(c, FundLeg("specialist"))
                 + SpentOn(c, FundLeg("treasury")) + SpentOn(c, Downstream) + SpentOn(c, FeeLeg)
  BY DEF Spent, FundLeg
<1>5. "payer" \in Wallet /\ "specialist" \in Wallet /\ "treasury" \in Wallet
  BY DEF Wallet
<1>6. CASE call[c].at <= 3
  <2>1. \A l \in Leg : transfer[c][l] = NoTransfer
    <3>1. \A i \in LegPlaces : call[c].at < i
      BY <1>1, <1>6 DEF LegPlaces
    <3> QED  BY <3>1, LegsInOrder DEF SequenceInv
  <2>2. \A l \in Leg : SpentOn(c, l) = 0
    BY <2>1 DEF SpentOn, Landed
  <2>3. Spent(c) = 0
    BY <1>1, <1>4, <1>5, <2>2, FundLegs
  <2> QED  BY <1>2, <2>3
<1>7. CASE call[c].at > 3
  <2>1. \A w \in Wallet : SpentOn(c, FundLeg(w)) <= TopUp(c, w) /\ SpentOn(c, FundLeg(w)) \in Nat
    <3> SUFFICES ASSUME NEW w \in Wallet
                 PROVE  SpentOn(c, FundLeg(w)) <= TopUp(c, w) /\ SpentOn(c, FundLeg(w)) \in Nat
      OBVIOUS
    <3>1. ~(call[c].at <= Place(w) - 3)
      BY <1>1, <1>7, FundLegs
    <3>2. CASE Landed(c, FundLeg(w))
      <4>1. SpentOn(c, FundLeg(w)) = TopUp(c, w)
        BY <3>1, <3>2 DEF SpentOn, TopUp
      <4> QED  BY <1>3, <4>1
    <3>3. CASE ~Landed(c, FundLeg(w))
      <4>1. SpentOn(c, FundLeg(w)) = 0
        BY <3>3 DEF SpentOn
      <4> QED  BY <1>3, <4>1
    <3> QED  BY <3>2, <3>3
  <2>2. /\ SpentOn(c, Downstream) \in {0, Amount} /\ SpentOn(c, FeeLeg) \in {0, Fee}
    BY DEF IInv, CallInv, SpentOn, Landed
  <2>3. /\ TopUp(c, "payer") + TopUp(c, "specialist") + TopUp(c, "treasury") <= call[c].estimate
        /\ Amount + Fee + call[c].estimate <= Cap(call[c].request)
    BY <1>7 DEF EstimateInv, Debit
  <2>4. call[c].estimate \in Nat
    BY WhereItIs DEF Call
  <2> HIDE DEF TopUp, SpentOn, Spent, Cap
  <2> DEFINE p == SpentOn(c, FundLeg("payer"))
             s == SpentOn(c, FundLeg("specialist"))
             t == SpentOn(c, FundLeg("treasury"))
             x == SpentOn(c, Downstream)
             y == SpentOn(c, FeeLeg)
             tp == TopUp(c, "payer")
             ts == TopUp(c, "specialist")
             tt == TopUp(c, "treasury")
             e == call[c].estimate
             k == Cap(call[c].request)
  <2>5. /\ p <= tp /\ s <= ts /\ t <= tt /\ p \in Nat /\ s \in Nat /\ t \in Nat
        /\ tp \in Nat /\ ts \in Nat /\ tt \in Nat /\ x \in {0, Amount} /\ y \in {0, Fee}
        /\ tp + ts + tt <= e /\ Amount + Fee + e <= k /\ k \in Nat /\ e \in Nat
    BY <1>2, <1>3, <1>5, <2>1, <2>2, <2>3, <2>4
  <2>6. Spent(c) = p + s + t + x + y
    BY <1>4
  <2> HIDE DEF p, s, t, x, y, tp, ts, tt, e, k
  <2>7. p + s + t + x + y <= k
    BY <1>2, <2>5
  <2> QED  BY <2>6, <2>7 DEF k
<1> QED  BY <1>1, <1>6, <1>7

RunningWithin == \A c \in Calls : Running(c) => Spent(c) <= Cap(call[c].request)

LEMMA RunningCapped == IInv /\ SequenceInv /\ EstimateInv => RunningWithin
BY RunningSpend DEF RunningWithin

LEMMA NextSpend ==
    ASSUME IInv, SequenceInv, QuietInv, SpendCapped, [Next]_vars,
           RunningWithin'
    PROVE  SpendCapped'
<1> SUFFICES ASSUME NEW c \in Calls, call'[c].request # NoRequest
             PROVE  Spent(c)' <= Cap(call'[c].request)
  BY DEF SpendCapped, Cap
<1>1. ASSUME Running(c)'
      PROVE  Spent(c)' <= Cap(call'[c].request)
  BY <1>1 DEF RunningWithin, Cap
<1>2. ASSUME call'[c].request = call[c].request,
             \A l \in Leg : SpentOn(c, l)' = SpentOn(c, l)
      PROVE  Spent(c)' <= Cap(call'[c].request)
  <2>1. Spent(c)' = Spent(c)
    BY <1>2, FundLegs, LegShape DEF Spent, FundLeg, Wallet
  <2>2. Spent(c) <= Cap(call[c].request)
    BY <1>2 DEF SpendCapped
  <2> QED  BY <1>2, <2>1, <2>2
<1>3. ASSUME UNCHANGED transfer
      PROVE  \A l \in Leg : SpentOn(c, l)' = SpentOn(c, l)
  BY <1>3 DEF SpentOn, Landed
<1>4. ASSUME NEW d \in Calls, NEW r \in Request, Start(d, r)
      PROVE  Spent(c)' <= Cap(call'[c].request)
  <2>1. CASE d # c
    BY <1>2, <1>3, <1>4, <2>1, StartKind DEF Only
  <2>2. CASE d = c
    <3>1. /\ call'[c].request = r /\ UNCHANGED transfer
          /\ \A l \in Leg : transfer[c][l] = NoTransfer
      BY <1>4, <2>2, StartKind
    <3>2. \A l \in Leg : SpentOn(c, l)' = 0
      BY <3>1 DEF SpentOn, Landed
    <3>3. Spent(c)' = 0
      BY <3>2, FundLegs, LegShape DEF Spent, FundLeg, Wallet
    <3>4. Cap(r) \in Nat
      BY PaymentConstants DEF Cap, Request
    <3> QED  BY <3>1, <3>3, <3>4
  <2> QED  BY <2>1, <2>2
<1>5. ASSUME NEW d \in Calls, Ended(d) \/ Advanced(d) \/ Stored(d)
      PROVE  Spent(c)' <= Cap(call'[c].request)
  BY <1>2, <1>3, <1>5 DEF Ended, Advanced, Stored, Only
<1>6. ASSUME NEW d \in Calls, Submitted(d)
      PROVE  Spent(c)' <= Cap(call'[c].request)
  <2>1. UNCHANGED call /\ \A l \in Leg : SpentOn(c, l)' = SpentOn(c, l)
    BY <1>6 DEF Submitted, SpentOn, Landed
  <2> QED  BY <1>2, <2>1
<1>7. ASSUME NEW d \in Calls, NEW l \in Leg, Land(d, l)
      PROVE  Spent(c)' <= Cap(call'[c].request)
  <2>1. Settled(d, l, "landed") /\ Running(d) /\ UNCHANGED call
    BY <1>7, LandKind DEF Settled, QuietInv
  <2>2. CASE d = c
    BY <1>1, <2>1, <2>2 DEF Running
  <2>3. CASE d # c
    <3>1. \A m \in Leg : SpentOn(c, m)' = SpentOn(c, m)
      BY <2>1, <2>3 DEF Settled, SpentOn, Landed
    <3> QED  BY <1>2, <2>1, <3>1
  <2> QED  BY <2>2, <2>3
<1>8. ASSUME NEW d \in Calls, NEW l \in Leg, Drop(d, l)
      PROVE  Spent(c)' <= Cap(call'[c].request)
  <2>1. Settled(d, l, "dropped") /\ UNCHANGED call
    BY <1>8, DropKind DEF Settled
  <2>2. \A m \in Leg : SpentOn(c, m)' = SpentOn(c, m)
    BY <2>1 DEF Settled, InFlight, SpentOn, Landed
  <2> QED  BY <1>2, <2>1, <2>2
<1>9. CASE Crash \/ UNCHANGED vars
  BY <1>2, <1>3, <1>9, CrashKind DEF vars
<1>10. CASE Next
  BY <1>4, <1>5, <1>6, <1>7, <1>8, <1>9, <1>10, NextKinds
<1> QED  BY <1>9, <1>10

FrugalInv == IInv /\ SequenceInv /\ SerialInv /\ QuietInv /\ EstimateInv /\ SpendCapped

LEMMA FrugalInductive ==
    ASSUME ~Overlap, ~Faults
    PROVE  Spec => []FrugalInv
<1>1. Init => FrugalInv
  BY InitIInv, InitSequence, InitSerial, InitQuiet DEF FrugalInv
<1>2. FrugalInv /\ [Next]_vars => FrugalInv'
  <2> SUFFICES ASSUME FrugalInv, [Next]_vars PROVE FrugalInv'
    OBVIOUS
  <2>1. IInv' /\ SequenceInv' /\ SerialInv' /\ QuietInv' /\ EstimateInv'
    BY NextIInv, NextSequence, NextSerial, NextQuiet, NextEstimate DEF FrugalInv
  <2>2. RunningWithin'
    BY <2>1, RunningCapped, PTL
  <2> QED  BY <2>1, <2>2, NextSpend DEF FrugalInv
<1> QED  BY <1>1, <1>2, PTL DEF Spec

-----------------------------------------------------------------------------
(* One at a time and undisturbed, with a fee margin that covers the fees: a  *)
(* quote is settled the way QuotePayment says.                               *)

\* The payer keeps enough for two fees, and what is kept of a balance is rent
\* exempt.
Margins == 2 * TxFee <= FeeMargin /\ RentMinimum <= RentSafety

\* Topped up, the payer can pay the quote, the fee and the cluster's fees, and
\* the treasury can be paid.
LandedCost(c, l) == IF Landed(c, l) THEN transfer[c][l].amount + TxFee ELSE 0
Funds(c) == lamports[AccountOf(c, "payer")] + LandedCost(c, Downstream) + LandedCost(c, FeeLeg)
FundedInv ==
    \A c \in Calls : Running(c) =>
        /\ call[c].at > 4 \/ Landed(c, FundLeg("payer")) => Funds(c) >= Minimum("payer")
        /\ call[c].at > 6 \/ Landed(c, FundLeg("treasury")) =>
              lamports[AccountOf(c, "treasury")] >= Minimum("treasury")

\* A call that has paid the specialist is still running, or there is a receipt
\* of it; the fee comes after, and is never refused.
OutcomeInv ==
    \A c \in Calls :
        /\ Landed(c, Downstream) => Running(c) \/ \E r \in receipts : r.call = c
        /\ Landed(c, FeeLeg) => Landed(c, Downstream)
        /\ transfer[c][FeeLeg] # NoTransfer => transfer[c][FeeLeg].state # "dropped"

LEMMA InitOutcome == Init => FundedInv /\ OutcomeInv
BY LegShape DEF Init, Idle, FundedInv, OutcomeInv, Running, Landed

LEMMA FundsAreNat ==
    ASSUME IInv, NEW c \in Calls, Running(c)
    PROVE  /\ \A w \in Wallet : lamports[AccountOf(c, w)] \in Nat /\ Minimum(w) \in Nat
           /\ LandedCost(c, Downstream) \in {0, Amount + TxFee}
           /\ LandedCost(c, FeeLeg) \in {0, Fee + TxFee}
           /\ Amount \in Nat /\ Fee \in Nat /\ TxFee \in Nat
           /\ Minimum("payer") = RentSafety + Amount + Fee + FeeMargin
           /\ Minimum("treasury") = RentSafety
           /\ RentSafety \in Nat /\ FeeMargin \in Nat /\ RentMinimum \in Nat
<1>1. /\ Amount \in Nat /\ Fee \in Nat /\ TxFee \in Nat
      /\ RentSafety \in Nat /\ FeeMargin \in Nat /\ RentMinimum \in Nat
  BY PaymentConstants
<1>2. \A w \in Wallet : lamports[AccountOf(c, w)] \in Nat
  BY WhereItIs DEF IInv, TypeOK, AccountOf, Account, Request
<1>3. /\ LandedCost(c, Downstream) \in {0, Amount + TxFee}
      /\ LandedCost(c, FeeLeg) \in {0, Fee + TxFee}
  BY DEF IInv, CallInv, LandedCost, Landed
<1> QED  BY <1>1, <1>2, <1>3 DEF Minimum, Debit

\* An account that lacks nothing has the minimum.
LEMMA NothingMissing ==
    ASSUME IInv, NEW c \in Calls, Running(c), NEW w \in Wallet
    PROVE  /\ Missing(c, w) = 0 => lamports[AccountOf(c, w)] >= Minimum(w)
           /\ lamports[AccountOf(c, w)] + Missing(c, w) >= Minimum(w)
BY FundsAreNat DEF Missing

LEMMA AdvancedFunded ==
    ASSUME IInv, FundedInv, NEW c \in Calls, Advanced(c)
    PROVE  /\ call'[c].at > 4 \/ Landed(c, FundLeg("payer"))' => Funds(c)' >= Minimum("payer")
           /\ call'[c].at > 6 \/ Landed(c, FundLeg("treasury"))' =>
                 lamports'[AccountOf(c, "treasury")'] >= Minimum("treasury")
<1>1. /\ Running(c) /\ UNCHANGED <<transfer, lamports>> /\ call[c].at \in 1 .. 12
      /\ call'[c].at = call[c].at + 1 /\ call'[c].request = call[c].request
      /\ call[c].at \in LegPlaces => Landed(c, At(c)) \/ Missing(c, At(c)[2]) = 0
      /\ At(c) = Program[call[c].at]
  BY WhereItIs DEF Advanced
<1>2. /\ Funds(c)' = Funds(c) /\ \A l \in Leg : Landed(c, l)' = Landed(c, l)
      /\ \A w \in Wallet : AccountOf(c, w)' = AccountOf(c, w)
  BY <1>1 DEF Funds, LandedCost, Landed, AccountOf
<1>3. /\ "payer" \in Wallet /\ "treasury" \in Wallet
      /\ FundLeg("payer") \in Leg /\ FundLeg("treasury") \in Leg
  BY FundLegs DEF Wallet
<1>4. call[c].at = 4 => Funds(c) >= Minimum("payer")
  <2> SUFFICES ASSUME call[c].at = 4 PROVE Funds(c) >= Minimum("payer")
    OBVIOUS
  <2>1. At(c) = FundLeg("payer") /\ At(c)[2] = "payer" /\ call[c].at \in LegPlaces
    BY <1>1, LegsInOrder DEF FundLeg, LegPlaces
  <2>2. CASE Landed(c, FundLeg("payer"))
    BY <1>1, <2>2 DEF FundedInv
  <2>3. CASE Missing(c, "payer") = 0
    <3>1. lamports[AccountOf(c, "payer")] >= Minimum("payer")
      BY <1>1, <1>3, <2>3, NothingMissing
    <3> QED  BY <1>1, <1>3, <3>1, FundsAreNat DEF Funds
  <2> QED  BY <1>1, <2>1, <2>2, <2>3
<1>5. call[c].at = 6 => lamports[AccountOf(c, "treasury")] >= Minimum("treasury")
  <2> SUFFICES ASSUME call[c].at = 6 PROVE lamports[AccountOf(c, "treasury")] >= Minimum("treasury")
    OBVIOUS
  <2>1. At(c) = FundLeg("treasury") /\ At(c)[2] = "treasury" /\ call[c].at \in LegPlaces
    BY <1>1, LegsInOrder DEF FundLeg, LegPlaces
  <2>2. CASE Landed(c, FundLeg("treasury"))
    BY <1>1, <2>2 DEF FundedInv
  <2>3. CASE Missing(c, "treasury") = 0
    BY <1>1, <1>3, <2>3, NothingMissing
  <2> QED  BY <1>1, <2>1, <2>2, <2>3
<1>6. /\ call[c].at > 4 \/ Landed(c, FundLeg("payer")) => Funds(c) >= Minimum("payer")
      /\ call[c].at > 6 \/ Landed(c, FundLeg("treasury")) =>
            lamports[AccountOf(c, "treasury")] >= Minimum("treasury")
  BY <1>1 DEF FundedInv
<1>7. /\ call'[c].at > 4 => call[c].at = 4 \/ call[c].at > 4
      /\ call'[c].at > 6 => call[c].at = 6 \/ call[c].at > 6
  BY <1>1
<1> QED  BY <1>1, <1>2, <1>3, <1>4, <1>5, <1>6, <1>7

LEMMA LandFunded ==
    ASSUME IInv, SequenceInv, QuietInv, FundedInv, NEW c \in Calls, NEW l \in Leg, Land(c, l)
    PROVE  /\ call'[c].at > 4 \/ Landed(c, FundLeg("payer"))' => Funds(c)' >= Minimum("payer")
           /\ call'[c].at > 6 \/ Landed(c, FundLeg("treasury"))' =>
                 lamports'[AccountOf(c, "treasury")'] >= Minimum("treasury")
<1>1. /\ Settled(c, l, "landed") /\ InFlight(c, l) /\ UNCHANGED call /\ Running(c)
      /\ l[2] \in Wallet /\ call[c].request \in Request /\ transfer[c][l].amount \in Nat
      /\ Source(c, l) # AccountOf(c, l[2])
      /\ lamports'[Source(c, l)] = lamports[Source(c, l)] - transfer[c][l].amount - TxFee
      /\ lamports'[AccountOf(c, l[2])] = lamports[AccountOf(c, l[2])] + transfer[c][l].amount
      /\ \A a \in Account \ {Source(c, l), AccountOf(c, l[2])} : lamports'[a] = lamports[a]
  BY LandKind, LegShape DEF Settled, QuietInv
<1>2. /\ \A w \in Wallet : AccountOf(c, w) \in Account /\ AccountOf(c, w)' = AccountOf(c, w)
      /\ "payer" \in Wallet /\ "treasury" \in Wallet
      /\ FundLeg("payer") \in Leg /\ FundLeg("treasury") \in Leg
      /\ Downstream \in Leg /\ FeeLeg \in Leg /\ Downstream # FeeLeg
  BY <1>1, FundLegs, LegShape DEF AccountOf, Account, Request, Wallet
<1>3. l = At(c) /\ call[c].at \in LegPlaces /\ At(c) = Program[call[c].at]
  BY <1>1, AwaitsFlight, WhereItIs
<1>4. /\ ~Landed(c, l) /\ Landed(c, l)'
      /\ \A m \in Leg : m # l => Landed(c, m)' = Landed(c, m) /\ LandedCost(c, m)' = LandedCost(c, m)
      /\ LandedCost(c, l) = 0 /\ LandedCost(c, l)' = transfer[c][l].amount + TxFee
  BY <1>1 DEF Settled, InFlight, Landed, LandedCost
<1>5. /\ \A w \in Wallet : lamports[AccountOf(c, w)] \in Nat
      /\ LandedCost(c, Downstream) \in Nat /\ LandedCost(c, FeeLeg) \in Nat /\ TxFee \in Nat
      /\ Minimum("payer") \in Nat /\ Minimum("treasury") \in Nat
  BY <1>1, <1>2, FundsAreNat
<1>6. CASE call[c].at \in 4 .. 6
  <2>1. PICK w \in Wallet : Place(w) = call[c].at
    BY <1>6, FundLegs
  <2>2. l = FundLeg(w) /\ l[1] = "fund" /\ l[2] = w /\ l # Downstream /\ l # FeeLeg
    BY <1>3, <2>1, FundLegs
  <2>3. Source(c, l) = Funder
    BY <2>2 DEF Source
  <2>4. \A v \in Wallet : lamports'[AccountOf(c, v)] =
            IF v = w THEN lamports[AccountOf(c, v)] + transfer[c][l].amount
            ELSE lamports[AccountOf(c, v)]
    <3> SUFFICES ASSUME NEW v \in Wallet
                 PROVE  lamports'[AccountOf(c, v)] =
                            IF v = w THEN lamports[AccountOf(c, v)] + transfer[c][l].amount
                            ELSE lamports[AccountOf(c, v)]
      OBVIOUS
    <3>1. CASE v = w
      BY <1>1, <2>2, <3>1
    <3>2. CASE v # w
      <4>1. AccountOf(c, v) # Source(c, l) /\ AccountOf(c, v) # AccountOf(c, l[2])
        BY <1>1, <2>2, <2>3, <3>2, AccountsApart
      <4> QED  BY <1>1, <1>2, <3>2, <4>1
    <3> QED  BY <3>1, <3>2
  <2>5. /\ LandedCost(c, Downstream)' = LandedCost(c, Downstream)
        /\ LandedCost(c, FeeLeg)' = LandedCost(c, FeeLeg)
    BY <1>2, <1>4, <2>2
  <2>6. transfer[c][l].amount = Missing(c, w)
    BY <1>1, <2>2 DEF QuietInv
  <2>7. w = "payer" => Funds(c)' >= Minimum("payer")
    <3> SUFFICES ASSUME w = "payer" PROVE Funds(c)' >= Minimum("payer")
      OBVIOUS
    <3>1. lamports'[AccountOf(c, "payer")] >= Minimum("payer")
      BY <1>1, <1>2, <2>4, <2>6, NothingMissing
    <3>2. lamports'[AccountOf(c, "payer")] \in Nat
      BY <1>1, <1>2, <1>5, <2>4
    <3>3. Funds(c)' = lamports'[AccountOf(c, "payer")] + LandedCost(c, Downstream) + LandedCost(c, FeeLeg)
      BY <1>2, <2>5 DEF Funds
    <3> QED  BY <1>5, <3>1, <3>2, <3>3
  <2>8. w # "payer" => Funds(c)' = Funds(c)
    BY <1>2, <2>4, <2>5 DEF Funds
  <2>9. w = "treasury" => lamports'[AccountOf(c, "treasury")] >= Minimum("treasury")
    BY <1>1, <1>2, <2>4, <2>6, NothingMissing
  <2>10. /\ w # "payer" => Landed(c, FundLeg("payer"))' = Landed(c, FundLeg("payer"))
         /\ w # "treasury" => Landed(c, FundLeg("treasury"))' = Landed(c, FundLeg("treasury"))
    BY <1>2, <1>4, <2>2, FundLegs
  <2> QED  BY <1>1, <1>2, <2>4, <2>7, <2>8, <2>9, <2>10 DEF FundedInv
<1>7. CASE call[c].at \in 9 .. 10
  <2>1. /\ l \in {Downstream, FeeLeg} /\ l[1] # "fund" /\ l[2] # "payer"
        /\ FundLeg("payer") # l /\ FundLeg("treasury") # l
    BY <1>2, <1>3, <1>7, ProgramPositions, FundLegs DEF Downstream, FeeLeg
  <2>2. Source(c, l) = AccountOf(c, "payer")
    BY <2>1 DEF Source
  <2>3. lamports'[AccountOf(c, "payer")] = lamports[AccountOf(c, "payer")] - transfer[c][l].amount - TxFee
    BY <1>1, <2>2
  <2>4. lamports'[AccountOf(c, "treasury")] >= lamports[AccountOf(c, "treasury")]
    <3>1. CASE l[2] = "treasury"
      BY <1>1, <1>2, <1>5, <3>1
    <3>2. CASE l[2] # "treasury"
      <4>1. AccountOf(c, "treasury") \notin {Source(c, l), AccountOf(c, l[2])}
        BY <1>1, <1>2, <2>2, <3>2, AccountsApart
      <4>2. lamports'[AccountOf(c, "treasury")] = lamports[AccountOf(c, "treasury")]
        BY <1>1, <1>2, <4>1
      <4> QED  BY <1>2, <1>5, <4>2
    <3> QED  BY <3>1, <3>2
  <2>5. Funds(c)' = Funds(c)
    <3>1. CASE l = Downstream
      <4>1. /\ LandedCost(c, Downstream) = 0
            /\ LandedCost(c, Downstream)' = transfer[c][l].amount + TxFee
            /\ LandedCost(c, FeeLeg)' = LandedCost(c, FeeLeg)
        BY <1>2, <1>4, <3>1
      <4>2. /\ Funds(c) = lamports[AccountOf(c, "payer")] + LandedCost(c, FeeLeg)
            /\ Funds(c)' = (lamports[AccountOf(c, "payer")] - transfer[c][l].amount - TxFee)
                             + (transfer[c][l].amount + TxFee) + LandedCost(c, FeeLeg)
        BY <1>2, <1>5, <2>3, <4>1 DEF Funds
      <4> QED  BY <1>1, <1>2, <1>5, <4>2
    <3>2. CASE l = FeeLeg
      <4>1. /\ LandedCost(c, FeeLeg) = 0
            /\ LandedCost(c, FeeLeg)' = transfer[c][l].amount + TxFee
            /\ LandedCost(c, Downstream)' = LandedCost(c, Downstream)
        BY <1>2, <1>4, <3>2
      <4>2. /\ Funds(c) = lamports[AccountOf(c, "payer")] + LandedCost(c, Downstream)
            /\ Funds(c)' = (lamports[AccountOf(c, "payer")] - transfer[c][l].amount - TxFee)
                             + LandedCost(c, Downstream) + (transfer[c][l].amount + TxFee)
        BY <1>2, <1>5, <2>3, <4>1 DEF Funds
      <4> QED  BY <1>1, <1>2, <1>5, <4>2
    <3> QED  BY <2>1, <3>1, <3>2
  <2>6. /\ Landed(c, FundLeg("payer"))' = Landed(c, FundLeg("payer"))
        /\ Landed(c, FundLeg("treasury"))' = Landed(c, FundLeg("treasury"))
    BY <1>2, <1>4, <2>1
  <2>7. Funds(c) >= Minimum("payer") /\ lamports[AccountOf(c, "treasury")] >= Minimum("treasury")
    BY <1>1, <1>7 DEF FundedInv
  <2>8. lamports'[AccountOf(c, "treasury")] >= Minimum("treasury")
    <3>1. lamports'[AccountOf(c, "treasury")] \in Int
      <4>1. IInv'
        BY NextIInv DEF Next, Cluster
      <4> QED  BY <1>2, <4>1 DEF IInv, TypeOK
    <3> QED  BY <1>2, <1>5, <2>4, <2>7, <3>1
  <2> QED  BY <1>2, <2>5, <2>7, <2>8
<1> QED  BY <1>3, <1>6, <1>7 DEF LegPlaces

LEMMA NextFunded ==
    ASSUME ~Overlap, ~Faults, IInv, SequenceInv, SerialInv, QuietInv, FundedInv, [Next]_vars
    PROVE  FundedInv'
<1> DEFINE Goal(c) ==
               /\ call'[c].at > 4 \/ Landed(c, FundLeg("payer"))' => Funds(c)' >= Minimum("payer")
               /\ call'[c].at > 6 \/ Landed(c, FundLeg("treasury"))' =>
                     lamports'[AccountOf(c, "treasury")'] >= Minimum("treasury")
<1> SUFFICES ASSUME NEW c \in Calls, Running(c)' PROVE Goal(c)
  <2>1. \A w \in {"payer", "treasury"} : Minimum(w)' = Minimum(w)
    BY DEF Minimum, Debit
  <2> QED  BY <2>1 DEF FundedInv
<1>1. ASSUME Running(c), UNCHANGED <<call, lamports>>,
             \A l \in Leg : Landed(c, l)' = Landed(c, l) /\ LandedCost(c, l)' = LandedCost(c, l)
      PROVE  Goal(c)
  <2>1. /\ FundLeg("payer") \in Leg /\ FundLeg("treasury") \in Leg
        /\ Downstream \in Leg /\ FeeLeg \in Leg
    BY FundLegs, LegShape DEF Wallet
  <2>2. Funds(c)' = Funds(c) /\ AccountOf(c, "treasury")' = AccountOf(c, "treasury")
    BY <1>1, <2>1 DEF Funds, AccountOf
  <2> QED  BY <1>1, <2>1, <2>2 DEF FundedInv
<1>2. ASSUME NEW d \in Calls, NEW r \in Request, Start(d, r)
      PROVE  Goal(c)
  <2>1. d = c
    <3>1. ~Running(c)
      BY <1>2, StartKind
    <3> QED  BY <1>2, <3>1, StartKind DEF Only, Running
  <2>2. call'[c].at = 1 /\ UNCHANGED transfer /\ \A l \in Leg : transfer[c][l] = NoTransfer
    BY <1>2, <2>1, StartKind
  <2>3. ~Landed(c, FundLeg("payer"))' /\ ~Landed(c, FundLeg("treasury"))'
    BY <2>2, FundLegs DEF Landed, Wallet
  <2> QED  BY <2>2, <2>3
<1>3. ASSUME NEW d \in Calls, Ended(d) \/ Stored(d)
      PROVE  FALSE
  <2>1. Running(d) /\ ~Running(d)' /\ \A e \in Calls : e # d => call'[e] = call[e]
    BY <1>3 DEF Ended, Stored, Only, Running
  <2> QED  BY <2>1 DEF Running, SerialInv, OneRunning
<1>4. ASSUME NEW d \in Calls, Advanced(d)
      PROVE  Goal(c)
  <2>1. Running(d) /\ \A e \in Calls : e # d => call'[e] = call[e]
    BY <1>4 DEF Advanced, Only
  <2>2. d = c
    BY <2>1 DEF Running, SerialInv, OneRunning
  <2> QED  BY <1>4, <2>2, AdvancedFunded
<1>5. ASSUME NEW d \in Calls, Submitted(d)
      PROVE  Goal(c)
  <2>1. UNCHANGED <<call, lamports>> /\ Running(c)
    BY <1>5 DEF Submitted, Running
  <2>2. \A l \in Leg : Landed(c, l)' = Landed(c, l) /\ LandedCost(c, l)' = LandedCost(c, l)
    BY <1>5 DEF Submitted, Landed, LandedCost
  <2> QED  BY <1>1, <2>1, <2>2
<1>6. ASSUME NEW d \in Calls, NEW l \in Leg, Land(d, l)
      PROVE  Goal(c)
  <2>1. Running(d) /\ Running(c)
    BY <1>6, LandKind DEF Settled, QuietInv, Running
  <2>2. d = c
    BY <2>1 DEF SerialInv, OneRunning
  <2> QED  BY <1>6, <2>2, LandFunded
<1>7. ASSUME NEW d \in Calls, NEW l \in Leg, Drop(d, l)
      PROVE  Goal(c)
  <2>1. Settled(d, l, "dropped") /\ UNCHANGED <<call, lamports>> /\ Running(c)
    BY <1>7, DropKind DEF Settled, Running
  <2>2. \A m \in Leg : Landed(c, m)' = Landed(c, m) /\ LandedCost(c, m)' = LandedCost(c, m)
    BY <2>1 DEF Settled, InFlight, Landed, LandedCost
  <2> QED  BY <1>1, <2>1, <2>2
<1>8. CASE UNCHANGED vars
  <2>1. \A l \in Leg : Landed(c, l)' = Landed(c, l) /\ LandedCost(c, l)' = LandedCost(c, l)
    BY <1>8 DEF vars, Landed, LandedCost
  <2> QED  BY <1>1, <1>8, <2>1 DEF vars, Running
<1> HIDE DEF Goal
<1>9. CASE Next
  BY <1>2, <1>3, <1>4, <1>5, <1>6, <1>7, <1>9, NextKinds, CrashKind
<1> QED  BY <1>8, <1>9

\* With the fee margin, the fee is never refused.
LEMMA FeeAffordable ==
    ASSUME Margins, IInv, SequenceInv, QuietInv, FundedInv, NEW c \in Calls, InFlight(c, FeeLeg)
    PROVE  Affordable(c, FeeLeg)
<1>1. /\ Running(c) /\ FeeLeg \in Leg /\ transfer[c][FeeLeg].amount = Fee
      /\ FeeLeg[1] # "fund" /\ FeeLeg[2] = "treasury"
      /\ "payer" \in Wallet /\ "treasury" \in Wallet
  BY LegShape DEF QuietInv, IInv, CallInv, InFlight, FeeLeg, Wallet
<1>2. call[c].at = 10
  BY <1>1, AwaitsFlight, WhereItIs, ProgramShape
<1>3. Source(c, FeeLeg) = AccountOf(c, "payer")
  BY <1>1 DEF Source
<1>4. LandedCost(c, FeeLeg) = 0
  BY DEF LandedCost, Landed, InFlight
<1>5. Funds(c) >= Minimum("payer") /\ lamports[AccountOf(c, "treasury")] >= Minimum("treasury")
  BY <1>1, <1>2 DEF FundedInv
<1>6. lamports[AccountOf(c, "payer")] >= RentSafety + Fee + FeeMargin - TxFee
  BY <1>1, <1>4, <1>5, FundsAreNat DEF Funds
<1>7. lamports[AccountOf(c, "payer")] - Fee - TxFee >= RentSafety
  BY <1>1, <1>6, FundsAreNat DEF Margins
<1>8. /\ lamports[AccountOf(c, "payer")] - Fee - TxFee >= 0
      /\ lamports[AccountOf(c, "payer")] - Fee - TxFee >= RentMinimum
      /\ lamports[AccountOf(c, "treasury")] + Fee >= RentMinimum
  BY <1>1, <1>5, <1>7, FundsAreNat DEF Margins
<1> QED  BY <1>1, <1>3, <1>8 DEF Affordable, Exempt

LEMMA NextOutcome ==
    ASSUME ~Overlap, ~Faults, Margins, IInv, SequenceInv, SerialInv, QuietInv, FundedInv,
           OutcomeInv, [Next]_vars
    PROVE  OutcomeInv'
<1> USE LegShape
<1>1. ASSUME NEW c \in Calls, NEW r \in Request, Start(c, r)
      PROVE  OutcomeInv'
  <2>1. /\ UNCHANGED <<transfer, receipts>> /\ \A l \in Leg : transfer[c][l] = NoTransfer
        /\ \A d \in Calls : d # c => call'[d] = call[d]
    BY <1>1, StartKind DEF Only
  <2>2. ASSUME NEW d \in Calls
        PROVE  OutcomeInv!(d)'
    BY <2>1, <2>2 DEF OutcomeInv, Landed, Running
  <2> QED  BY <2>2 DEF OutcomeInv
<1>2. ASSUME NEW c \in Calls, Ended(c)
      PROVE  OutcomeInv'
  <2>1. /\ Running(c) /\ UNCHANGED <<transfer, receipts>>
        /\ \A d \in Calls : d # c => call'[d] = call[d]
        /\ \/ call[c].at = 3
           \/ /\ call[c].at \in LegPlaces
              /\ transfer[c][At(c)] # NoTransfer /\ transfer[c][At(c)].state = "dropped"
    BY <1>2 DEF Ended, Only, SerialInv, StoreFree
  <2>2. At(c) = Program[call[c].at] /\ 9 \in LegPlaces
    BY WhereItIs DEF LegPlaces
  <2>3. ~Landed(c, Downstream)
    <3>1. CASE call[c].at < 9
      BY <2>1, <2>2, <3>1, ProgramPositions DEF SequenceInv, Landed
    <3>2. CASE call[c].at = 9
      BY <2>1, <2>2, <3>2, ProgramPositions DEF Landed
    <3>3. CASE call[c].at = 10
      BY <2>1, <2>2, <3>3, ProgramPositions DEF OutcomeInv
    <3> QED  BY <2>1, <3>1, <3>2, <3>3 DEF LegPlaces
  <2> QED  BY <2>1, <2>3 DEF OutcomeInv, Landed, Running
<1>3. ASSUME NEW c \in Calls, Advanced(c)
      PROVE  OutcomeInv'
  BY <1>3 DEF Advanced, Only, OutcomeInv, Landed, Running
<1>4. ASSUME NEW c \in Calls, Stored(c)
      PROVE  OutcomeInv'
  <2>1. PICK r \in Receipt : r.call = c /\ receipts' = receipts \cup {r}
    BY <1>4 DEF Stored
  <2> QED  BY <1>4, <2>1 DEF Stored, Only, OutcomeInv, Landed, Running
<1>5. ASSUME NEW c \in Calls, Submitted(c)
      PROVE  OutcomeInv'
  <2>1. /\ UNCHANGED <<call, receipts>> /\ transfer[c][At(c)] = NoTransfer
        /\ transfer'[c][At(c)].state = "sent"
        /\ \A d \in Calls, l \in Leg : d # c \/ l # At(c) => transfer'[d][l] = transfer[d][l]
    BY <1>5 DEF Submitted
  <2>2. \A d \in Calls, l \in Leg : Landed(d, l)' = Landed(d, l)
    BY <2>1 DEF Landed
  <2>3. \A d \in Calls : transfer'[d][FeeLeg] # NoTransfer => transfer'[d][FeeLeg].state # "dropped"
    BY <2>1 DEF OutcomeInv
  <2> QED  BY <2>1, <2>2, <2>3 DEF OutcomeInv, Running
<1>6. ASSUME NEW c \in Calls, NEW l \in Leg, Land(c, l)
      PROVE  OutcomeInv'
  <2>1. Settled(c, l, "landed") /\ Running(c)
    BY <1>6, LandKind DEF Settled, QuietInv
  <2>2. l = FeeLeg => Landed(c, Downstream)
    <3> SUFFICES ASSUME l = FeeLeg PROVE Landed(c, Downstream)
      OBVIOUS
    <3>1. call[c].at = 10
      BY <2>1, AwaitsFlight, WhereItIs, ProgramShape DEF Settled
    <3> QED  BY <2>1, <3>1 DEF IInv, CallInv, Running
  <2>3. ASSUME NEW d \in Calls
        PROVE  OutcomeInv!(d)'
    BY <2>1, <2>2 DEF OutcomeInv, Settled, InFlight, Landed, Running
  <2> QED  BY <2>3 DEF OutcomeInv
<1>7. ASSUME NEW c \in Calls, NEW l \in Leg, Drop(c, l)
      PROVE  OutcomeInv'
  <2>1. Settled(c, l, "dropped") /\ ~Affordable(c, l)
    BY <1>7, DropKind
  <2>2. l # FeeLeg
    BY <2>1, FeeAffordable DEF Settled
  <2>3. ASSUME NEW d \in Calls
        PROVE  OutcomeInv!(d)'
    BY <2>1, <2>2 DEF OutcomeInv, Settled, InFlight, Landed, Running
  <2> QED  BY <2>3 DEF OutcomeInv
<1>8. CASE UNCHANGED vars
  BY <1>8 DEF vars, OutcomeInv, Landed, Running
<1>9. CASE Next
  BY <1>1, <1>2, <1>3, <1>4, <1>5, <1>6, <1>7, <1>9, NextKinds, CrashKind
<1> QED  BY <1>8, <1>9

SettledInv ==
    /\ IInv /\ SequenceInv /\ SerialInv /\ QuietInv /\ FundedInv /\ OutcomeInv

LEMMA InitSettled == Init => SettledInv
BY InitIInv, InitSequence, InitSerial, InitQuiet, InitOutcome DEF SettledInv

LEMMA NextSettled ==
    ASSUME ~Overlap, ~Faults, Margins
    PROVE  SettledInv /\ [Next]_vars => SettledInv'
BY NextIInv, NextSequence, NextSerial, NextQuiet, NextFunded, NextOutcome DEF SettledInv

Chargers(q) == {c \in Calls : Landed(c, FeeLeg) /\ call[c].request.quote = q}
Receipted(q) == \E r \in receipts : r.quote = q

\* Two calls never pay for one quote.
LEMMA OnePayer ==
    ASSUME SettledInv, NEW q, NEW c \in Payers(q), NEW d \in Payers(q)
    PROVE  c = d
<1>1. /\ c \in Calls /\ Landed(c, Downstream) /\ call[c].request.quote = q
      /\ d \in Calls /\ Landed(d, Downstream) /\ call[d].request.quote = q
  BY DEF Payers
<1>2. ASSUME NEW e \in Calls, NEW r \in receipts, Running(e), r.call \in Calls,
             call[e].request.quote = q, call[r.call].request.quote = q
      PROVE  FALSE
  <2>1. r.quote = call[r.call].request.quote
    BY DEF SettledInv, IInv, ReceiptsPaid
  <2> QED  BY <1>2, <2>1 DEF SettledInv, SerialInv, StoreFree, AlreadyPaid
<1>3. /\ Running(c) \/ \E r \in receipts : r.call = c
      /\ Running(d) \/ \E r \in receipts : r.call = d
  BY <1>1 DEF SettledInv, OutcomeInv
<1>4. CASE Running(c) /\ Running(d)
  BY <1>1, <1>4 DEF SettledInv, SerialInv, OneRunning
<1>5. CASE ~Running(c) /\ ~Running(d)
  <2>1. PICK r \in receipts, s \in receipts : r.call = c /\ s.call = d
    BY <1>3, <1>5
  <2>2. r.quote = q /\ s.quote = q
    BY <1>1, <2>1 DEF SettledInv, IInv, ReceiptsPaid
  <2>3. r = s
    BY <2>2 DEF SettledInv, IInv, StoreInv
  <2> QED  BY <2>1, <2>3
<1> QED  BY <1>1, <1>2, <1>3, <1>4, <1>5

LEMMA Counts ==
    /\ \A S : S = {} => Cardinality(S) = 0
    /\ \A S, x : S = {x} => Cardinality(S) = 1
BY FS_EmptySet, FS_Singleton

LEMMA InitSettlement == Init => Settlement!QuoteInit
<1> SUFFICES ASSUME Init PROVE Settlement!QuoteInit
  OBVIOUS
<1>1. \A q \in Quotes : Payers(q) = {} /\ Chargers(q) = {} /\ ~Receipted(q)
  BY LegShape DEF Init, Payers, Chargers, Receipted, Landed
<1>2. \A q \in Quotes : Cardinality(Payers(q)) = 0 /\ Cardinality(Chargers(q)) = 0
  BY <1>1, Counts
<1> QED  BY <1>1, <1>2 DEF Settlement!QuoteInit, Chargers, Receipted

\* What QuotePayment sees.
PaidMap == [q \in Quotes |-> Cardinality(Payers(q))]
ChargedMap == [q \in Quotes |-> Cardinality(Chargers(q))]
ReceiptMap == [q \in Quotes |-> Receipted(q)]
QuoteVars == <<PaidMap, ChargedMap, ReceiptMap>>

\* Steps that pay nothing and write no receipt.
LEMMA UnseenStep ==
    ASSUME \A c \in Calls : /\ Landed(c, Downstream)' = Landed(c, Downstream)
                            /\ Landed(c, FeeLeg)' = Landed(c, FeeLeg)
                            /\ Landed(c, Downstream) \/ Landed(c, FeeLeg) =>
                                  call'[c].request = call[c].request,
           UNCHANGED receipts
    PROVE  UNCHANGED QuoteVars
<1>1. \A q \in Quotes : Payers(q)' = Payers(q) /\ Chargers(q)' = Chargers(q)
  BY DEF Payers, Chargers
<1>2. \A q \in Quotes : Receipted(q)' = Receipted(q)
  BY DEF Receipted
<1> QED  BY <1>1, <1>2 DEF QuoteVars, PaidMap, ChargedMap, ReceiptMap

\* The specialist is paid: nobody had paid for the quote.
LEMMA PaysStep ==
    ASSUME SettledInv, NEW c \in Calls, Land(c, Downstream)
    PROVE  \E q \in Quotes : Settlement!PaySpecialist(q)
<1>0. PICK q \in Quotes : q = call[c].request.quote
  BY LandKind, LegShape DEF SettledInv, Request
<1>1. /\ Settled(c, Downstream, "landed") /\ Running(c) /\ q \in Quotes
      /\ UNCHANGED <<call, receipts>> /\ Downstream \in Leg /\ FeeLeg \in Leg
      /\ Downstream # FeeLeg
  BY <1>0, LandKind, LegShape DEF SettledInv, Settled, QuietInv
<1>2. ~Landed(c, Downstream) /\ Landed(c, Downstream)'
  BY <1>1 DEF Settled, InFlight, Landed
<1>3. /\ \A d \in Calls : d # c => Landed(d, Downstream)' = Landed(d, Downstream)
      /\ \A d \in Calls : Landed(d, FeeLeg)' = Landed(d, FeeLeg)
  BY <1>1 DEF Settled, Landed
<1>4. Payers(q) = {}
  <2> SUFFICES ASSUME NEW d \in Payers(q) PROVE FALSE
    OBVIOUS
  <2>1. d \in Calls /\ Landed(d, Downstream) /\ call[d].request.quote = q /\ d # c
    BY <1>0, <1>2 DEF Payers
  <2>2. ~Running(d)
    BY <1>0, <1>1, <2>1 DEF SettledInv, SerialInv, OneRunning
  <2>3. PICK r \in receipts : r.call = d
    BY <2>1, <2>2 DEF SettledInv, OutcomeInv
  <2>4. r.quote = q
    BY <2>1, <2>3 DEF SettledInv, IInv, ReceiptsPaid
  <2> QED  BY <1>0, <1>1, <2>4 DEF SettledInv, SerialInv, StoreFree, AlreadyPaid
<1>5. Payers(q)' = {c} /\ \A p \in Quotes \ {q} : Payers(p)' = Payers(p)
  BY <1>0, <1>1, <1>2, <1>3, <1>4 DEF Payers
<1>6. \A p \in Quotes : Chargers(p)' = Chargers(p) /\ Receipted(p)' = Receipted(p)
  BY <1>0, <1>1, <1>3 DEF Chargers, Receipted
<1>7. PaidMap[q] = 0 /\ PaidMap' = [PaidMap EXCEPT ![q] = 1]
  <2>1. Cardinality(Payers(q)) = 0 /\ Cardinality(Payers(q)') = 1
    BY <1>4, <1>5, Counts
  <2>2. \A p \in Quotes : Cardinality(Payers(p))' = IF p = q THEN 1 ELSE Cardinality(Payers(p))
    BY <1>5, <2>1
  <2> QED  BY <1>0, <1>1, <2>1, <2>2 DEF PaidMap
<1>8. UNCHANGED <<ChargedMap, ReceiptMap>>
  BY <1>6 DEF ChargedMap, ReceiptMap
<1> QED  BY <1>0, <1>1, <1>7, <1>8 DEF Settlement!PaySpecialist, PaidMap, ChargedMap, ReceiptMap,
                                Chargers, Receipted

\* The fee is charged, once, for a quote that is paid.
LEMMA ChargesStep ==
    ASSUME SettledInv, NEW c \in Calls, Land(c, FeeLeg)
    PROVE  \E q \in Quotes : Settlement!ChargeFee(q)
<1>0. PICK q \in Quotes : q = call[c].request.quote
  BY LandKind, LegShape DEF SettledInv, Request
<1>1. /\ Settled(c, FeeLeg, "landed") /\ Running(c) /\ q \in Quotes /\ InFlight(c, FeeLeg)
      /\ UNCHANGED <<call, receipts>> /\ Downstream \in Leg /\ FeeLeg \in Leg
      /\ Downstream # FeeLeg
  BY <1>0, LandKind, LegShape DEF SettledInv, Settled, QuietInv
<1>2. ~Landed(c, FeeLeg) /\ Landed(c, FeeLeg)'
  BY <1>1 DEF Settled, InFlight, Landed
<1>3. /\ \A d \in Calls : d # c => Landed(d, FeeLeg)' = Landed(d, FeeLeg)
      /\ \A d \in Calls : Landed(d, Downstream)' = Landed(d, Downstream)
  BY <1>1 DEF Settled, Landed
<1>4. Landed(c, Downstream)
  <2>1. call[c].at = 10
    BY <1>0, <1>1, AwaitsFlight, WhereItIs, ProgramShape DEF SettledInv
  <2> QED  BY <1>0, <1>1, <2>1 DEF SettledInv, IInv, CallInv, Running
<1>5. Payers(q) = {c}
  BY <1>0, <1>4, OnePayer DEF Payers
<1>6. Chargers(q) = {}
  BY <1>2, <1>5 DEF Chargers, Payers, SettledInv, OutcomeInv
<1>7. Chargers(q)' = {c} /\ \A p \in Quotes \ {q} : Chargers(p)' = Chargers(p)
  BY <1>0, <1>1, <1>2, <1>3, <1>6 DEF Chargers
<1>8. \A p \in Quotes : Payers(p)' = Payers(p) /\ Receipted(p)' = Receipted(p)
  BY <1>0, <1>1, <1>3 DEF Payers, Receipted
<1>9. PaidMap[q] = 1
  BY <1>0, <1>1, <1>5, Counts DEF PaidMap
<1>10. ChargedMap[q] = 0 /\ ChargedMap' = [ChargedMap EXCEPT ![q] = 1]
  <2>1. Cardinality(Chargers(q)) = 0 /\ Cardinality(Chargers(q)') = 1
    BY <1>6, <1>7, Counts
  <2>2. \A p \in Quotes : Cardinality(Chargers(p))' = IF p = q THEN 1 ELSE Cardinality(Chargers(p))
    BY <1>7, <2>1
  <2> QED  BY <1>0, <1>1, <2>1, <2>2 DEF ChargedMap
<1>11. UNCHANGED <<PaidMap, ReceiptMap>>
  BY <1>8 DEF PaidMap, ReceiptMap
<1> QED  BY <1>0, <1>1, <1>9, <1>10, <1>11 DEF Settlement!ChargeFee, PaidMap, ChargedMap, ReceiptMap,
                                        Chargers, Receipted

\* The receipt is kept, once, for a quote whose fee is charged.
LEMMA KeepsStep ==
    ASSUME SettledInv, NEW c \in Calls, Stored(c)
    PROVE  \E q \in Quotes : Settlement!KeepReceipt(q)
<1>0. PICK q \in Quotes : q = call[c].request.quote
  BY WhereItIs DEF SettledInv, Stored, Request
<1>1. /\ Running(c) /\ call[c].at = 13 /\ UNCHANGED transfer /\ ~Receipted(q)
      /\ \A d \in Calls : call'[d].request = call[d].request
  BY <1>0 DEF Stored, Only, AlreadyPaid, Receipted
<1>2. q \in Quotes /\ Landed(c, Downstream) /\ Landed(c, FeeLeg)
  BY <1>1 DEF SettledInv, IInv, CallInv, Running
<1>3. Payers(q) = {c}
  BY <1>0, <1>2, OnePayer DEF Payers
<1>4. Chargers(q) = {c}
  BY <1>0, <1>2, <1>3 DEF Chargers, Payers, SettledInv, OutcomeInv
<1>5. ChargedMap[q] = 1
  BY <1>2, <1>4, Counts DEF ChargedMap
<1>6. \A p \in Quotes : Payers(p)' = Payers(p) /\ Chargers(p)' = Chargers(p)
  BY <1>1 DEF Payers, Chargers, Landed
<1>7. \A p \in Quotes : Receipted(p)' <=> p = q \/ Receipted(p)
  BY <1>0 DEF Stored, Receipted
<1>8. ~ReceiptMap[q] /\ ReceiptMap' = [ReceiptMap EXCEPT ![q] = TRUE]
  <2>1. \A p \in Quotes : Receipted(p)' = IF p = q THEN TRUE ELSE Receipted(p)
    BY <1>7 DEF Receipted
  <2> QED  BY <1>0, <1>1, <1>2, <2>1 DEF ReceiptMap
<1>9. UNCHANGED <<PaidMap, ChargedMap>>
  BY <1>6 DEF PaidMap, ChargedMap
<1> QED  BY <1>2, <1>5, <1>8, <1>9 DEF Settlement!KeepReceipt, PaidMap, ChargedMap, ReceiptMap,
                                      Chargers, Receipted

LEMMA SettlementStep ==
    ASSUME SettledInv, [Next]_vars
    PROVE  [Settlement!QuoteNext]_QuoteVars
<1> USE LegShape
<1>1. ASSUME NEW c \in Calls, NEW r \in Request, Start(c, r)
      PROVE  UNCHANGED QuoteVars
  <2>1. /\ UNCHANGED <<transfer, receipts>> /\ \A l \in Leg : transfer[c][l] = NoTransfer
        /\ \A d \in Calls : d # c => call'[d] = call[d]
    BY <1>1, StartKind DEF Only, SettledInv
  <2> QED  BY <2>1, UnseenStep DEF Landed
<1>2. ASSUME NEW c \in Calls, Ended(c) \/ Advanced(c)
      PROVE  UNCHANGED QuoteVars
  <2>1. /\ UNCHANGED <<transfer, receipts>>
        /\ \A d \in Calls : call'[d].request = call[d].request
    BY <1>2 DEF Ended, Advanced, Only
  <2> QED  BY <2>1, UnseenStep DEF Landed
<1>3. ASSUME NEW c \in Calls, Submitted(c)
      PROVE  UNCHANGED QuoteVars
  <2>1. UNCHANGED <<call, receipts>> /\ \A d \in Calls, l \in Leg : Landed(d, l)' = Landed(d, l)
    BY <1>3 DEF Submitted, Landed
  <2> QED  BY <2>1, UnseenStep
<1>4. ASSUME NEW c \in Calls, Stored(c)
      PROVE  Settlement!QuoteNext
  BY <1>4, KeepsStep DEF Settlement!QuoteNext
<1>5. ASSUME NEW c \in Calls, NEW l \in Leg, Land(c, l)
      PROVE  Settlement!QuoteNext \/ UNCHANGED QuoteVars
  <2>1. CASE l = Downstream
    BY <1>5, <2>1, PaysStep DEF Settlement!QuoteNext
  <2>2. CASE l = FeeLeg
    BY <1>5, <2>2, ChargesStep DEF Settlement!QuoteNext
  <2>3. CASE l # Downstream /\ l # FeeLeg
    <3>1. /\ UNCHANGED <<call, receipts>>
          /\ \A d \in Calls : /\ Landed(d, Downstream)' = Landed(d, Downstream)
                               /\ Landed(d, FeeLeg)' = Landed(d, FeeLeg)
      BY <1>5, <2>3, LandKind DEF Settled, Landed, SettledInv
    <3> QED  BY <3>1, UnseenStep
  <2> QED  BY <2>1, <2>2, <2>3
<1>6. ASSUME NEW c \in Calls, NEW l \in Leg, Drop(c, l)
      PROVE  UNCHANGED QuoteVars
  <2>1. UNCHANGED <<call, receipts>> /\ \A d \in Calls, m \in Leg : Landed(d, m)' = Landed(d, m)
    BY <1>6, DropKind DEF Settled, InFlight, Landed, SettledInv
  <2> QED  BY <2>1, UnseenStep
<1>7. CASE Crash
  <2>1. /\ UNCHANGED <<transfer, receipts>>
        /\ \A d \in Calls : call'[d].request = call[d].request
    BY <1>7, CrashKind DEF SettledInv
  <2> QED  BY <2>1, UnseenStep DEF Landed
<1>8. CASE UNCHANGED vars
  <2>1. UNCHANGED <<call, transfer, receipts>>
    BY <1>8 DEF vars
  <2> QED  BY <2>1, UnseenStep DEF Landed
<1>9. CASE Next
  BY <1>1, <1>2, <1>3, <1>4, <1>5, <1>6, <1>7, <1>9, NextKinds DEF SettledInv
<1> QED  BY <1>8, <1>9

-----------------------------------------------------------------------------
(* A second payment, whatever fails. *)

\* A call that returned has its receipt in the store; one that was answered
\* from the store submitted nothing.
AccountedInv ==
    \A c \in Calls :
        /\ call[c].status \in {"idle", "replayed"} => \A l \in Leg : transfer[c][l] = NoTransfer
        /\ call[c].status = "returned" => \E r \in receipts : r.call = c

LEMMA InitAccounted == Init => AccountedInv
BY DEF Init, Idle, AccountedInv

LEMMA NextAccounted ==
    ASSUME IInv, AccountedInv, [Next]_vars
    PROVE  AccountedInv'
<1> USE DEF AccountedInv
<1>1. ASSUME NEW c \in Calls, NEW r \in Request, Start(c, r)
      PROVE  AccountedInv'
  <2>1. /\ UNCHANGED <<transfer, receipts>> /\ call'[c].status = Answered(r)
        /\ \A d \in Calls : d # c => call'[d] = call[d]
        /\ \A l \in Leg : transfer[c][l] = NoTransfer
    BY <1>1, StartKind DEF Only
  <2>2. Answered(r) # "returned"
    BY DEF Answered
  <2> QED  BY <2>1, <2>2
<1>2. ASSUME NEW c \in Calls, Ended(c) \/ Advanced(c)
      PROVE  AccountedInv'
  BY <1>2 DEF Ended, Advanced, Only
<1>3. ASSUME NEW c \in Calls, Stored(c)
      PROVE  AccountedInv'
  BY <1>3 DEF Stored, Only
<1>4. ASSUME NEW c \in Calls, Submitted(c)
      PROVE  AccountedInv'
  BY <1>4 DEF Submitted, Running
<1>5. ASSUME NEW c \in Calls, NEW l \in Leg, NEW s \in {"landed", "dropped"}, Settled(c, l, s)
      PROVE  AccountedInv'
  BY <1>5 DEF Settled, InFlight
<1>6. CASE Crash
  BY <1>6, CrashKind
<1>7. CASE UNCHANGED vars
  BY <1>7 DEF vars
<1>8. CASE Next
  BY <1>1, <1>2, <1>3, <1>4, <1>5, <1>6, <1>8, NextKinds, LandKind, DropKind
<1> QED  BY <1>7, <1>8

Failed(c) == call[c].status \in {"threw", "lost"}

\* A call that paid and did not fail is still running, or wrote the receipt.
LEMMA PaidIsAccounted ==
    ASSUME IInv, AccountedInv, NEW q \in Quotes, NEW c \in Payers(q), ~Failed(c)
    PROVE  /\ c \in Calls /\ call[c].request.quote = q
           /\ Running(c) \/ \E r \in receipts : r.call = c /\ r.quote = q
<1>1. c \in Calls /\ Landed(c, Downstream) /\ call[c].request.quote = q
  BY DEF Payers
<1>2. call[c].status \in Status \ {"idle", "replayed"}
  BY <1>1, LegShape DEF AccountedInv, Landed, IInv, TypeOK, Call
<1>3. Running(c) \/ \E r \in receipts : r.call = c
  BY <1>1, <1>2 DEF Running, Failed, Status, AccountedInv
<1> QED  BY <1>1, <1>3 DEF IInv, ReceiptsPaid

\* Of the calls that paid one quote, at most one ends without having failed.
NoSilentSecondPayment ==
    \A q \in Quotes : \A c, d \in Payers(q) :
        c # d => Failed(c) \/ Failed(d) \/ Running(c) \/ Running(d)
SecondPaymentFollowsFailure ==
    \A q \in Quotes : \A c, d \in Payers(q) : c # d => Failed(c) \/ Failed(d)

-----------------------------------------------------------------------------
(* The theorems. *)

\* Calls, transfers, balances and the store keep their types, whatever the
\* amounts, caps and faults: no balance goes below zero and no call runs past
\* the end of executeDevnetPayment.
THEOREM PaymentTypeCorrect == Spec => []TypeOK
<1>1. IInv => TypeOK
  BY DEF IInv
<1> QED  BY <1>1, Inductive, PTL

\* Every receipt that executeDevnetPayment ever stores stands for two landed
\* transfers with the amounts of its quote, however many calls overlap and
\* whatever RPC errors, expired transactions and crashes there are.
THEOREM StoredReceiptsPaid == Spec => []ReceiptsPaid
<1>1. IInv => ReceiptsPaid
  BY DEF IInv
<1> QED  BY <1>1, Inductive, PTL

\* All callers that ever get an answer for a quote get the same receipt, and
\* store.json keeps it.
THEOREM AnswersAgree == Spec => []OneAnswer
<1>1. IInv => OneAnswer
  BY IInvImpliesOneAnswer
<1> QED  BY <1>1, Inductive, PTL

\* A receipt says "fail" only if another call's transfer moved one of the balances
\* it compares between the two readings of it, whatever overlaps, fails or crashes.
THEOREM MismatchHasCause == Spec => []MismatchExplained
<1>1. ExplainedInv => MismatchExplained
  BY DEF ExplainedInv
<1> QED  BY <1>1, ExplainedInductive, PTL

\* Calls one at a time never answer one key for two different requests, even
\* when RPC calls fail and the bridge crashes between them.
THEOREM KeysBind ==
    ASSUME ~Overlap
    PROVE  Spec => []KeyBinds
<1>1. IInv /\ SequenceInv /\ SerialInv => KeyBinds
  BY DEF SerialInv, KeyKept, KeyBinds, SameInput
<1> QED  BY <1>1, SerialInductive, PTL

\* Calls one at a time, none of which fails half-way, spend within their cap,
\* top-ups included, whatever the balances they find.
THEOREM SpendWithinCap ==
    ASSUME ~Overlap, ~Faults
    PROVE  Spec => []SpendCapped
<1>1. FrugalInv => SpendCapped
  BY DEF FrugalInv
<1> QED  BY <1>1, FrugalInductive, PTL

\* Calls one at a time, none of which fails half-way, settle every quote the way
\* QuotePayment says - the specialist once, then the fee, then the receipt -
\* if the fee margin covers both transaction fees and rentSafetyLamports the
\* cluster's rent minimum.
THEOREM SerialCallsImplementQuotePayment ==
    ASSUME ~Overlap, ~Faults, Margins
    PROVE  Spec => ImplementsQuotePayment
<1>1. Init => SettledInv /\ Settlement!QuoteInit
  BY InitSettled, InitSettlement
<1>2. SettledInv /\ [Next]_vars => SettledInv'
  BY NextSettled
<1>3. SettledInv /\ [Next]_vars =>
          [Settlement!QuoteNext]_<<[q \in Quotes |-> Cardinality(Payers(q))],
              [q \in Quotes |-> Cardinality({c \in Calls :
                   Landed(c, FeeLeg) /\ call[c].request.quote = q})],
              [q \in Quotes |-> \E r \in receipts : r.quote = q]>>
  BY SettlementStep DEF QuoteVars, PaidMap, ChargedMap, ReceiptMap, Chargers, Receipted
<1>4. Spec => Settlement!QuoteSpec
  BY <1>1, <1>2, <1>3, PTL DEF Spec, Settlement!QuoteSpec
<1> QED  BY <1>4 DEF ImplementsQuotePayment

\* Under the same conditions no specialist is paid twice for a quote; with faults
\* a retry can pay again.
THEOREM PaidOnceUndisturbed ==
    ASSUME ~Overlap, ~Faults, Margins
    PROVE  Spec => []PaidOnce
<1>1. SettledInv => PaidOnce
  <2> SUFFICES ASSUME SettledInv, NEW q \in Quotes PROVE Cardinality(Payers(q)) <= 1
    BY DEF PaidOnce
  <2>1. CASE Payers(q) = {}
    BY <2>1, Counts
  <2>2. ASSUME NEW c \in Payers(q)
        PROVE  Cardinality(Payers(q)) <= 1
    <3>1. \A d \in Payers(q) : d = c
      BY <2>2, OnePayer
    <3>2. Payers(q) = {c}
      BY <2>2, <3>1
    <3>3. Cardinality(Payers(q)) = 1
      BY <3>2, Counts
    <3> QED  BY <3>3
  <2> QED  BY <2>1, <2>2
<1>2. Init => SettledInv
  BY InitSettled
<1>3. SettledInv /\ [Next]_vars => SettledInv'
  BY NextSettled
<1> QED  BY <1>1, <1>2, <1>3, PTL DEF Spec

\* Whatever overlaps, fails or crashes: of the calls that have paid the
\* specialist of one quote, at most one ends with its receipt; to the caller of
\* every other one executeDevnetPayment has thrown, or the bridge has died.
THEOREM NoTwoPaymentsReturned == Spec => []NoSilentSecondPayment
<1>1. IInv /\ AccountedInv => NoSilentSecondPayment
  <2> SUFFICES ASSUME IInv, AccountedInv, NEW q \in Quotes,
                      NEW c \in Payers(q), NEW d \in Payers(q), c # d,
                      ~Failed(c), ~Failed(d), ~Running(c), ~Running(d)
               PROVE  FALSE
    BY DEF NoSilentSecondPayment
  <2>1. PICK r \in receipts : r.call = c /\ r.quote = q
    BY PaidIsAccounted
  <2>2. PICK s \in receipts : s.call = d /\ s.quote = q
    BY PaidIsAccounted
  <2> QED  BY <2>1, <2>2 DEF IInv, StoreInv
<1>2. Init => IInv /\ AccountedInv
  BY InitIInv, InitAccounted
<1>3. IInv /\ AccountedInv /\ [Next]_vars => (IInv /\ AccountedInv)'
  BY NextIInv, NextAccounted
<1> QED  BY <1>1, <1>2, <1>3, PTL DEF Spec

\* Calls one at a time pay a quote twice only after one of the two calls
\* failed: the retry of a failure is the one way to a second payment.
THEOREM PaidAgainOnlyAfterFailure ==
    ASSUME ~Overlap
    PROVE  Spec => []SecondPaymentFollowsFailure
<1> DEFINE Inv == IInv /\ SequenceInv /\ SerialInv /\ AccountedInv
<1>1. Inv => SecondPaymentFollowsFailure
  <2> SUFFICES ASSUME Inv, NEW q \in Quotes, NEW c \in Payers(q), NEW d \in Payers(q),
                      c # d, ~Failed(c), ~Failed(d)
               PROVE  FALSE
    BY DEF SecondPaymentFollowsFailure
  <2>1. /\ c \in Calls /\ call[c].request.quote = q /\ d \in Calls /\ call[d].request.quote = q
        /\ Running(c) \/ \E r \in receipts : r.call = c /\ r.quote = q
        /\ Running(d) \/ \E r \in receipts : r.call = d /\ r.quote = q
    BY PaidIsAccounted
  <2>2. ~Running(c) \/ ~Running(d)
    BY <2>1 DEF SerialInv, OneRunning
  <2>3. Running(c) \/ Running(d) => \A r \in receipts : r.quote # q
    BY <2>1 DEF SerialInv, StoreFree, AlreadyPaid
  <2>4. PICK r \in receipts, s \in receipts : r.call = c /\ s.call = d /\ r.quote = q /\ s.quote = q
    BY <2>1, <2>2, <2>3
  <2> QED  BY <2>4 DEF IInv, StoreInv
<1>2. Init => Inv
  BY InitIInv, InitSequence, InitSerial, InitAccounted
<1>3. Inv /\ [Next]_vars => Inv'
  BY NextIInv, NextSequence, NextSerial, NextAccounted
<1> QED  BY <1>1, <1>2, <1>3, PTL DEF Spec
=============================================================================
