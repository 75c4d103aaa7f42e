---------------------------- MODULE DevnetPayment ---------------------------
(***************************************************************************)
(* reddi.execute_devnet_payment of packages/rap-mcp-bridge: concurrent     *)
(* calls of one bridge process, each a sequence of awaits between the      *)
(* check of the local store and the write of its receipt.  The cluster     *)
(* applies a submitted transfer later, or never; an RPC error or a lost    *)
(* confirmation ends the call while its transfer may still land; a crash   *)
(* ends every call and keeps the store.  All quotes have the same amount,  *)
(* are known to the store and eligible for devnet.                         *)
(***************************************************************************)
EXTENDS Integers, Sequences, FiniteSets

CONSTANTS
    Calls,              \* tool calls that may be made
    Quotes, Keys,       \* quote ids and idempotency keys they name
    Maxima,             \* values of maxTotalDebitLamports
    Amount, Fee,        \* lamports of the quote and of the protocol fee
    RentSafety,         \* rentSafetyLamports
    FeeMargin,          \* the 20_000 lamports a payer keeps for transaction fees
    ConfigCap,          \* devnetMaxTotalDebitLamports
    TxFee, RentMinimum, \* the cluster's fee per signature and rent minimum
    FunderLamports,     \* what the funder wallet starts with
    NoReceipt, NoTransfer, NoRequest,
    Overlap,            \* may a call start while another is running?
    Faults              \* may RPC calls fail, transactions expire, the bridge crash?

ASSUME PaymentConstants ==
    /\ Maxima \subseteq Nat
    /\ {Amount, Fee, RentSafety, FeeMargin, ConfigCap, TxFee, RentMinimum, FunderLamports}
          \subseteq Nat
    /\ {Overlap, Faults} \subseteq BOOLEAN

Wallet == {"payer", "specialist", "treasury"}
Funder == <<"funder">>
Account == {Funder} \cup (Wallet \X Quotes)

\* The awaits of a call that it acts upon, in order; readings that are only
\* reported (a balance after its top-up, the payer's) are left out.  Mutants: the first balances are read before
\* the top-ups; the fee is charged before the specialist is paid.
ProgramReadsFirst == <<
    <<"estimate", "payer">>, <<"estimate", "specialist">>, <<"estimate", "treasury">>,
    <<"before", "specialist">>, <<"before", "treasury">>,
    <<"fund", "payer">>, <<"fund", "specialist">>, <<"fund", "treasury">>,
    <<"pay", "specialist">>, <<"pay", "treasury">>,
    <<"after", "specialist">>, <<"after", "treasury">>,
    <<"store">> >>
ProgramFeeFirst == <<
    <<"estimate", "payer">>, <<"estimate", "specialist">>, <<"estimate", "treasury">>,
    <<"fund", "payer">>, <<"fund", "specialist">>, <<"fund", "treasury">>,
    <<"before", "specialist">>, <<"before", "treasury">>,
    <<"pay", "treasury">>, <<"pay", "specialist">>,
    <<"after", "specialist">>, <<"after", "treasury">>,
    <<"store">> >>
Program == <<
    <<"estimate", "payer">>, <<"estimate", "specialist">>, <<"estimate", "treasury">>,
    <<"fund", "payer">>, <<"fund", "specialist">>, <<"fund", "treasury">>,
    <<"before", "specialist">>, <<"before", "treasury">>,
    <<"pay", "specialist">>, <<"pay", "treasury">>,
    <<"after", "specialist">>, <<"after", "treasury">>,
    <<"store">> >>
Steps == {Program[i] : i \in DOMAIN Program}
Leg == {s \in Steps : s[1] \in {"fund", "pay"}}
Downstream == <<"pay", "specialist">>
FeeLeg == <<"pay", "treasury">>
Price == [w \in {"specialist", "treasury"} |-> IF w = "specialist" THEN Amount ELSE Fee]

Request == [quote : Quotes, key : Keys, max : Maxima]
SameInput(r, s) == r.quote = s.quote /\ r.max = s.max
Cap(r) == IF r.max <= ConfigCap THEN r.max ELSE ConfigCap
Debit == Amount + Fee
Minimum(w) == IF w = "payer" THEN RentSafety + Debit + FeeMargin ELSE RentSafety

VARIABLES
    call,       \* the state of every call
    transfer,   \* the transaction of every leg of every call, or NoTransfer
    lamports,   \* the cluster's balance of every account
    receipts,   \* store.json: devnetReceipts
    keyed,      \* store.json: devnetIdempotency, resolved to the receipt
    crossed     \* history: calls between whose two readings of a balance another
                \* call's transfer moved that balance

vars == <<call, transfer, lamports, receipts, keyed, crossed>>

Receipt == [quote : Quotes, key : Keys, max : Maxima, call : Calls, exact : BOOLEAN]
Status == {"idle", "running", "returned", "replayed", "threw", "lost"}
Call == [status : Status, request : Request \cup {NoRequest}, at : DOMAIN Program,
         estimate : Nat, seen : [{"specialist", "treasury"} -> Nat], exact : BOOLEAN,
         answer : Receipt \cup {NoReceipt}]
Transfer == [amount : Nat, state : {"sent", "landed", "dropped"}]

ASSUME MarkersAreNoRecords ==
    NoReceipt \notin Receipt /\ NoTransfer \notin Transfer /\ NoRequest \notin Request

TypeOK ==
    /\ call \in [Calls -> Call]
    /\ transfer \in [Calls -> [Leg -> Transfer \cup {NoTransfer}]]
    /\ lamports \in [Account -> Nat]
    /\ receipts \subseteq Receipt
    /\ keyed \in [Keys -> Receipt \cup {NoReceipt}]
    /\ crossed \subseteq Calls

Idle == [status |-> "idle", request |-> NoRequest, at |-> 1, estimate |-> 0,
         seen |-> [w \in {"specialist", "treasury"} |-> 0], exact |-> TRUE,
         answer |-> NoReceipt]

Init ==
    /\ call = [c \in Calls |-> Idle]
    /\ transfer = [c \in Calls |-> [l \in Leg |-> NoTransfer]]
    /\ lamports = [a \in Account |-> IF a = Funder THEN FunderLamports ELSE 0]
    /\ receipts = {}
    /\ keyed = [k \in Keys |-> NoReceipt]
    /\ crossed = {}

Running(c) == call[c].status = "running"
At(c) == Program[call[c].at]
AccountOf(c, w) == <<w, call[c].request.quote>>
StoreVars == <<receipts, keyed>>

-----------------------------------------------------------------------------
(* The call *)

\* listDevnetReceipts finds a receipt of the quote.
AlreadyPaid(r) == \E s \in receipts : s.quote = r.quote

\* The checks a call makes before its first await.  Mutant: requestHash is not
\* compared.
AnsweredUnhashed(r) ==
    IF keyed[r.key] # NoReceipt THEN "replayed"
    ELSE IF AlreadyPaid(r) THEN "threw" ELSE "running"
Answered(r) ==
    IF keyed[r.key] # NoReceipt
    THEN IF SameInput(keyed[r.key], r) THEN "replayed" ELSE "threw"
    ELSE IF AlreadyPaid(r) THEN "threw" ELSE "running"

Start(c, r) ==
    /\ call[c] = Idle
    /\ Overlap \/ \A d \in Calls : ~Running(d)
    /\ call' = [call EXCEPT ![c].status = Answered(r), ![c].request = r,
                            ![c].answer = IF Answered(r) = "replayed" THEN keyed[r.key] ELSE @]
    /\ UNCHANGED <<transfer, lamports, receipts, keyed, crossed>>

Throw(c) == call' = [call EXCEPT ![c].status = "threw"]
Advance(c) == call' = [call EXCEPT ![c].at = @ + 1]

\* What the account lacks.
Missing(c, w) ==
    IF lamports[AccountOf(c, w)] >= Minimum(w) THEN 0
    ELSE Minimum(w) - lamports[AccountOf(c, w)]

\* The top-ups are estimated from three balances; with the last one, their sum
\* and the payment are compared with the cap.  Mutant: the cap bounds the
\* payment only.
DebitFits(c, topUps) == Debit <= Cap(call[c].request)
SpendFits(c, topUps) == Debit + topUps <= Cap(call[c].request)

Estimate(c) ==
    /\ Running(c) /\ At(c)[1] = "estimate"
    /\ LET w == At(c)[2]
           topUps == call[c].estimate + Missing(c, w)
       IN  IF w = "treasury" /\ ~SpendFits(c, topUps)
           THEN Throw(c)
           ELSE call' = [call EXCEPT ![c].estimate = topUps, ![c].at = @ + 1]
    /\ UNCHANGED <<transfer, lamports, receipts, keyed, crossed>>

Submit(c, amount) ==
    transfer' = [transfer EXCEPT ![c][At(c)] = [amount |-> amount, state |-> "sent"]]

\* ensureBalance reads the balance again, and submits what is missing now.
Fund(c) ==
    /\ Running(c) /\ At(c)[1] = "fund" /\ transfer[c][At(c)] = NoTransfer
    /\ LET missing == Missing(c, At(c)[2])
       IN  \/ /\ missing = 0
              /\ Advance(c) /\ UNCHANGED transfer
           \/ /\ missing > 0
              /\ Submit(c, missing) /\ UNCHANGED call
    /\ UNCHANGED <<lamports, receipts, keyed, crossed>>

Pay(c) ==
    /\ Running(c) /\ At(c)[1] = "pay" /\ transfer[c][At(c)] = NoTransfer
    /\ Submit(c, Price[At(c)[2]])
    /\ UNCHANGED <<call, lamports, receipts, keyed, crossed>>

\* sendAndConfirmTransaction returns when the transaction landed, and throws when
\* it cannot land any more.  Mutants: it waits for ever; it only waits.
OutcomeLandedOnly(c) == transfer[c][At(c)].state = "landed"
OutcomeKnown(c) == transfer[c][At(c)].state \in {"landed", "dropped"}
SucceededAnyway(c) == transfer[c][At(c)].state # "sent"
Succeeded(c) == transfer[c][At(c)].state = "landed"

Confirm(c) ==
    /\ Running(c) /\ At(c) \in Leg /\ transfer[c][At(c)] # NoTransfer
    /\ OutcomeKnown(c)
    /\ IF Succeeded(c) THEN Advance(c) ELSE Throw(c)
    /\ UNCHANGED <<transfer, lamports, receipts, keyed, crossed>>

\* Balances read before and after the payment, to be compared.
ReadBalance(c) ==
    /\ Running(c) /\ At(c)[1] \in {"before", "after"}
    /\ LET w == At(c)[2]
           now == lamports[AccountOf(c, w)]
       IN  call' = [call EXCEPT
                ![c].seen[w] = IF At(c)[1] = "before" THEN now ELSE 0,
                ![c].exact = call[c].exact /\
                                (At(c)[1] = "after" => now - call[c].seen[w] = Price[w]),
                ![c].at = @ + 1]
    /\ UNCHANGED <<transfer, lamports, receipts, keyed, crossed>>

\* upsertDevnetReceipt: one receipt per quote; the key is bound to it whatever
\* it was bound to.  Mutant: no look at the receipts there are.
QuoteFreeOfKey(r) == ~\E s \in receipts : s.quote = r.quote /\ s.key = r.key
QuoteFree(r) == ~AlreadyPaid(r)

Store(c) ==
    /\ Running(c) /\ At(c) = <<"store">>
    /\ LET r == call[c].request
           receipt == [quote |-> r.quote, key |-> r.key, max |-> r.max, call |-> c,
                       exact |-> call[c].exact]
       IN  IF QuoteFree(r)
           THEN /\ receipts' = receipts \cup {receipt}
                /\ keyed' = [keyed EXCEPT ![r.key] = receipt]
                /\ call' = [call EXCEPT ![c].status = "returned", ![c].answer = receipt]
           ELSE Throw(c) /\ UNCHANGED StoreVars
    /\ UNCHANGED <<transfer, lamports, crossed>>

\* An RPC request fails, or a confirmation does not come in time.
RpcError(c) ==
    /\ Faults
    /\ Running(c) /\ At(c) # <<"store">>
    /\ Throw(c)
    /\ UNCHANGED <<transfer, lamports, receipts, keyed, crossed>>

\* The host ends the bridge; calls are forgotten, store.json is not.
Crash ==
    /\ Faults
    /\ \E c \in Calls : Running(c)
    /\ call' = [c \in Calls |-> IF Running(c) THEN [call[c] EXCEPT !.status = "lost"] ELSE call[c]]
    /\ UNCHANGED <<transfer, lamports, receipts, keyed, crossed>>

-----------------------------------------------------------------------------
(* The cluster *)

Source(c, l) == IF l[1] = "fund" THEN Funder ELSE AccountOf(c, "payer")
Exempt(balance) == balance = 0 \/ balance >= RentMinimum

Affordable(c, l) ==
    LET left == lamports[Source(c, l)] - transfer[c][l].amount - TxFee
    IN  /\ left >= 0 /\ Exempt(left)
        /\ Exempt(lamports[AccountOf(c, l[2])] + transfer[c][l].amount)

InFlight(c, l) == transfer[c][l] # NoTransfer /\ transfer[c][l].state = "sent"

\* Call d has read the balance of w that l credits, and has yet to read it again.
Between(d, w) ==
    \E i, j \in DOMAIN Program :
        /\ Program[i] = <<"before", w>> /\ Program[j] = <<"after", w>>
        /\ call[d].at \in i + 1 .. j
Crosses(c, l, d) ==
    /\ Running(d) /\ Between(d, l[2])
    /\ d # c /\ call[d].request.quote = call[c].request.quote

Land(c, l) ==
    /\ InFlight(c, l) /\ Affordable(c, l)
    /\ transfer' = [transfer EXCEPT ![c][l].state = "landed"]
    /\ lamports' = [lamports EXCEPT
                        ![Source(c, l)] = @ - transfer[c][l].amount - TxFee,
                        ![AccountOf(c, l[2])] = @ + transfer[c][l].amount]
    /\ crossed' = crossed \cup {d \in Calls : Crosses(c, l, d)}
    /\ UNCHANGED <<call, receipts, keyed>>

\* Preflight rejects what cannot be paid; a blockhash may expire.
Drop(c, l) ==
    /\ InFlight(c, l) /\ (Faults \/ ~Affordable(c, l))
    /\ transfer' = [transfer EXCEPT ![c][l].state = "dropped"]
    /\ UNCHANGED <<call, lamports, receipts, keyed, crossed>>

CallStep(c) ==
    \/ \E r \in Request : Start(c, r)
    \/ Estimate(c) \/ Fund(c) \/ Pay(c) \/ Confirm(c) \/ ReadBalance(c) \/ Store(c)
    \/ RpcError(c)
Cluster(c) == \E l \in Leg : Land(c, l) \/ Drop(c, l)

Next == Crash \/ \E c \in Calls : CallStep(c) \/ Cluster(c)

Spec == Init /\ [][Next]_vars

\* The event loop runs whatever can run; the cluster settles every submitted
\* transaction one way or the other (a blockhash is valid for 150 blocks).
Fairness ==
    \A c \in Calls :
        /\ WF_vars(Estimate(c) \/ Fund(c) \/ Pay(c) \/ Confirm(c) \/ ReadBalance(c) \/ Store(c))
        /\ \A l \in Leg : WF_vars(Land(c, l) \/ Drop(c, l))
FairSpec == Spec /\ Fairness

-----------------------------------------------------------------------------
(* Properties *)

Landed(c, l) == transfer[c][l] # NoTransfer /\ transfer[c][l].state = "landed"
Payers(q) == {c \in Calls : Landed(c, Downstream) /\ call[c].request.quote = q}

\* A stored receipt was paid for: both transfers of the call that wrote it
\* landed, with the amounts of the quote, whatever failed around it.
ReceiptsPaid ==
    \A r \in receipts :
        /\ Landed(r.call, Downstream) /\ transfer[r.call][Downstream].amount = Amount
        /\ Landed(r.call, FeeLeg) /\ transfer[r.call][FeeLeg].amount = Fee
        /\ call[r.call].request.quote = r.quote

\* However many callers there are, with however many keys, those that get an
\* answer for a quote get the same receipt, and the store still has it.
OneAnswer ==
    \A c \in Calls : call[c].answer # NoReceipt =>
        /\ call[c].answer \in receipts
        /\ \A d \in Calls :
              call[d].answer # NoReceipt /\ call[c].request.quote = call[d].request.quote =>
                call[d].answer = call[c].answer

\* devnetPaymentSemantics is "fail" only if, between the two readings of one of
\* the balances it compares, the transfer of another call moved that balance: a
\* call's own payment and top-ups, and whatever landed earlier, never do it.
MismatchExplained == \A r \in receipts : ~r.exact => r.call \in crossed

\* The specialist of a quote is paid at most once.
PaidOnce == \A q \in Quotes : Cardinality(Payers(q)) <= 1

\* What a call made the funder and the payer spend (cluster fees aside) is
\* within the cap it was given.
SpentOn(c, l) == IF Landed(c, l) THEN transfer[c][l].amount ELSE 0
Spent(c) == SpentOn(c, <<"fund", "payer">>) + SpentOn(c, <<"fund", "specialist">>)
            + SpentOn(c, <<"fund", "treasury">>) + SpentOn(c, Downstream) + SpentOn(c, FeeLeg)
SpendCapped == \A c \in Calls : call[c].request # NoRequest => Spent(c) <= Cap(call[c].request)

\* Reuse of an idempotency key with a different request fails closed.
KeyBinds ==
    \A c, d \in Calls :
        /\ call[c].answer # NoReceipt /\ call[d].answer # NoReceipt
        /\ call[c].request.key = call[d].request.key
        => SameInput(call[c].request, call[d].request)

\* Undisturbed calls settle quotes the way QuotePayment says.
Settlement == INSTANCE QuotePayment WITH
    paid <- [q \in Quotes |-> Cardinality(Payers(q))],
    charged <- [q \in Quotes |-> Cardinality({c \in Calls :
                    Landed(c, FeeLeg) /\ call[c].request.quote = q})],
    receipted <- [q \in Quotes |-> \E r \in receipts : r.quote = q]
ImplementsQuotePayment == Settlement!QuoteSpec

\* Every call ends.
CallsEnd == \A c \in Calls : Running(c) ~> ~Running(c)
=============================================================================
