--------------------------- MODULE SpecialistCall ---------------------------
(***************************************************************************)
(* reddi.execute_x402_specialist_call of packages/rap-mcp-bridge against   *)
(* the payment gate of a specialist: an unpaid request, the challenge, the *)
(* checks and the USDC transfer of executeDevnetUsdcPayment, the paid      *)
(* request, and the receipt in store.json, with the awaits in between.     *)
(* Calls of one bridge process overlap; RPC and HTTP requests fail,        *)
(* transactions expire, and the bridge or the runtime may be restarted.    *)
(***************************************************************************)
EXTENDS SpecialistRuntime

CONSTANTS
    Keys, Bodies,       \* idempotency keys; endpoint and body of a request
    Maxima, ConfigCap,  \* maxUsdcMicroUnits of a call and of the bridge
    Price,              \* amount of the specialist's challenge
    Payees, Specialist, \* wallets a call may expect, the one of the specialist
    AnyPayee,           \* no expectedPayTo
    Usdc, Sol,          \* what the bridge's wallet may start with
    MinFee, TxFee       \* minFeeLamports, and the cluster's fee

ASSUME CallConstants ==
    /\ Copies \subseteq Nat
    /\ Maxima \subseteq Nat /\ Usdc \subseteq Nat /\ Sol \subseteq Nat
    /\ {ConfigCap, Price, MinFee, TxFee} \subseteq Nat
    /\ None \notin {"sent", "landed", "dropped"} /\ None \notin Nonces
    /\ AllowRealPayment \in BOOLEAN

CallInput == [key : Keys, body : Bodies, max : Maxima, payee : Payees \cup {AnyPayee}]
SameRequest(r, s) == r.body = s.body /\ r.max = s.max

VARIABLES
    call,       \* every tool call
    wallet,     \* balances of the bridge's wallet on the cluster
    keyed       \* store.json: idempotency key to receipt

vars == <<chain, gateVars, faults, call, wallet, keyed>>

\* What a call does next, and how it ended.
Stage == {"idle", "unpaid", "balances", "submit", "confirm", "paid", "response",
          "returned", "replayed", "threw", "lost"}
Unpaying == {"idle", "unpaid", "balances", "submit", "replayed"}
Ended == {"returned", "replayed", "threw", "lost"}
Receipt == [key : Keys, body : Bodies, max : Maxima, call : Calls]
ASSUME NoReceipt == None \notin Receipt

TypeOK ==
    /\ RuntimeTypeOK
    /\ call \in [Calls -> [stage : Stage, input : CallInput \cup {None},
                          answer : Receipt \cup {None}, peers : SUBSET Calls]]
    /\ \A c \in Calls : call[c].stage \in Unpaying => chain[c] = None
    /\ wallet \in [sol : Nat, usdc : Nat]
    /\ keyed \in [Keys -> Receipt \cup {None}]

Init ==
    /\ RuntimeInit
    /\ chain = [c \in Calls |-> None]
    /\ faults = 0
    /\ call = [c \in Calls |-> [stage |-> "idle", input |-> None, answer |-> None, peers |-> {}]]
    /\ wallet \in [sol : Sol, usdc : Usdc]
    /\ keyed = [k \in Keys |-> None]

Running(c) == call[c].stage \notin Ended \cup {"idle"}
GoTo(c, stage) == call' = [call EXCEPT ![c].stage = stage]
Env == <<chain, gateVars, faults, wallet>>

-----------------------------------------------------------------------------
(* The call *)

\* The checks before the first await.  A stored receipt is returned for the
\* request it was made for, if it paid the wallet the caller expects.
Expects(r) == r.payee \in {AnyPayee, Specialist}
FirstStageAlways(r) == "unpaid"
FirstStage(r) ==
    IF keyed[r.key] = None THEN "unpaid"
    ELSE IF SameRequest(keyed[r.key], r) /\ Expects(r) THEN "replayed" ELSE "threw"

\* peers remembers which calls the new one overlaps.
Start(c, r) ==
    /\ call[c].stage = "idle"
    /\ call' = [call EXCEPT ![c] =
                    [stage |-> FirstStage(r), input |-> r,
                     answer |-> IF FirstStage(r) = "replayed" THEN keyed[r.key] ELSE None,
                     peers |-> {d \in Calls : Running(d)}]]
    /\ UNCHANGED <<Env, keyed>>

\* The 402 answer to the unpaid request: payee, endpoint, network, currency and
\* amount are checked.  Mutant: the amount is not.
PayeeOnly(r) == Expects(r)
Acceptable(r) ==
    /\ Expects(r)
    /\ Price <= r.max /\ Price <= ConfigCap

Challenge(c) ==
    /\ call[c].stage = "unpaid"
    /\ IssueChallenge(c)
    /\ IF Acceptable(call[c].input) THEN GoTo(c, "balances") ELSE GoTo(c, "threw")
    /\ UNCHANGED <<chain, gate, seen, served, restarts, faults, wallet, keyed>>

Ready == wallet.sol >= MinFee /\ wallet.usdc >= Price

ReadBalances(c) ==
    /\ call[c].stage = "balances"
    /\ IF Ready THEN GoTo(c, "submit") ELSE GoTo(c, "threw")
    /\ UNCHANGED <<Env, keyed>>

SubmitUsdcTransfer(c) ==
    /\ call[c].stage = "submit"
    /\ chain' = [chain EXCEPT ![c] = "sent"]
    /\ GoTo(c, "confirm")
    /\ UNCHANGED <<gateVars, faults, wallet, keyed>>

\* sendAndConfirmTransaction returns or throws.
Confirm(c) ==
    /\ call[c].stage = "confirm" /\ chain[c] # "sent"
    /\ IF chain[c] = "landed" THEN GoTo(c, "paid") ELSE GoTo(c, "threw")
    /\ UNCHANGED <<Env, keyed>>

\* The request is sent again, with the receipt; the runtime receives it.
Retry(c) ==
    /\ call[c].stage = "paid"
    /\ \E i \in Copies : (\A j \in Copies : i <= j) /\ Receive(<<c, i>>)
    /\ GoTo(c, "response")
    /\ UNCHANGED <<chain, nonce, seen, served, restarts, faults, wallet, keyed>>

\* upsertX402SpecialistReceipt returns the receipt a key already has, if it is
\* for the same request.  Mutant: the last one wins.
Overwrite(r) == TRUE
KeyFree(r) == keyed[r.key] = None

\* The answer to the paid request the bridge sent: 200, or anything else.
\* Mutants: the status is not looked at; a broken connection is waited for.
AnsweredSomehow(c) == \E i \in Copies :
    (\A j \in Copies : i <= j) /\ gate[<<c, i>>] \in {"answered", "refused"}
Answered(c) == \E i \in Copies : (\A j \in Copies : i <= j) /\ gate[<<c, i>>] = "answered"
RefusedOnly(c) == \E i \in Copies :
    (\A j \in Copies : i <= j) /\ gate[<<c, i>>] = "refused"
Unanswered(c) == \E i \in Copies :
    (\A j \in Copies : i <= j) /\ gate[<<c, i>>] \in {"refused", "dead"}

Store(c) ==
    /\ call[c].stage = "response" /\ Answered(c)
    /\ LET r == call[c].input
           receipt == [key |-> r.key, body |-> r.body, max |-> r.max, call |-> c]
       IN  \/ /\ KeyFree(r)
              /\ keyed' = [keyed EXCEPT ![r.key] = receipt]
              /\ call' = [call EXCEPT ![c].stage = "returned", ![c].answer = receipt]
           \/ /\ ~KeyFree(r) /\ SameRequest(keyed[r.key], r)
              /\ call' = [call EXCEPT ![c].stage = "returned", ![c].answer = keyed[r.key]]
              /\ UNCHANGED keyed
           \/ /\ ~KeyFree(r) /\ ~SameRequest(keyed[r.key], r)
              /\ GoTo(c, "threw")
              /\ UNCHANGED keyed
    /\ UNCHANGED Env

\* The paid request got another 402, or no answer at all.
RetryFailed(c) ==
    /\ call[c].stage = "response" /\ Unanswered(c)
    /\ GoTo(c, "threw")
    /\ UNCHANGED <<Env, keyed>>

\* Any awaited request fails or is not confirmed in time.
AwaitFails(c) ==
    /\ Fault
    /\ Running(c)
    /\ GoTo(c, "threw")
    /\ UNCHANGED <<chain, gateVars, wallet, keyed>>

BridgeCrash ==
    /\ Fault
    /\ \E c \in Calls : Running(c)
    /\ call' = [c \in Calls |-> IF Running(c) THEN [call[c] EXCEPT !.stage = "lost"] ELSE call[c]]
    /\ UNCHANGED <<chain, gateVars, wallet, keyed>>

-----------------------------------------------------------------------------
(* The cluster, and the network between the bridge and the specialist *)

Affordable == wallet.usdc >= Price /\ wallet.sol >= TxFee

Land(c) ==
    /\ chain[c] = "sent" /\ Affordable
    /\ chain' = [chain EXCEPT ![c] = "landed"]
    /\ wallet' = [sol |-> wallet.sol - TxFee, usdc |-> wallet.usdc - Price]
    /\ UNCHANGED <<gateVars, faults, call, keyed>>

Reject(c) ==
    /\ chain[c] = "sent" /\ ~Affordable
    /\ chain' = [chain EXCEPT ![c] = "dropped"]
    /\ UNCHANGED <<gateVars, faults, wallet, call, keyed>>

Expire(c) ==
    /\ Fault
    /\ chain[c] = "sent" /\ Affordable
    /\ chain' = [chain EXCEPT ![c] = "dropped"]
    /\ UNCHANGED <<gateVars, wallet, call, keyed>>

\* A paid request arrives once more.
Duplicate(c) ==
    /\ Fault
    /\ \E i, j \in Copies : gate[<<c, i>>] # "none" /\ i < j /\ Receive(<<c, j>>)
    /\ UNCHANGED <<chain, nonce, seen, served, restarts, wallet, call, keyed>>

BridgeStep(c) ==
    \/ Challenge(c) \/ ReadBalances(c) \/ SubmitUsdcTransfer(c) \/ Confirm(c)
    \/ Retry(c) \/ Store(c) \/ RetryFailed(c)

Next ==
    \/ \E c \in Calls :
          \/ \E r \in CallInput : Start(c, r)
          \/ BridgeStep(c) \/ AwaitFails(c)
          \/ Land(c) \/ Reject(c) \/ Expire(c) \/ Duplicate(c)
    \/ \E q \in Request : RuntimeStep(q) /\ UNCHANGED <<call, wallet, keyed>>
    \/ RuntimeCrash /\ UNCHANGED <<call, wallet, keyed>>
    \/ BridgeCrash

Spec == Init /\ [][Next]_vars

\* Both event loops run what can run; a submitted transaction is settled.
Fairness ==
    /\ \A c \in Calls : WF_vars(BridgeStep(c)) /\ WF_vars(Land(c) \/ Reject(c) \/ Expire(c))
    /\ \A q \in Request : WF_vars((Verify(q) \/ Answer(q)) /\ UNCHANGED <<call, wallet, keyed>>)
FairSpec == Spec /\ Fairness

-----------------------------------------------------------------------------
(* Properties *)

\* A stored receipt is for a call that was paid for, within the cap it was
\* given, and whose nonce the specialist answered.
ReceiptsEarned ==
    \A k \in Keys : keyed[k] # None =>
        LET c == keyed[k].call IN
        /\ chain[c] = "landed"
        /\ nonce[c] # None /\ served[nonce[c]] > 0
        /\ Price <= keyed[k].max
        /\ call[c].input.key = k /\ SameRequest(call[c].input, keyed[k])

\* All answers given for a key are one receipt, which is for the request of
\* every caller that got it, and the store keeps it.
KeyBinds ==
    \A c \in Calls : call[c].answer # None =>
        /\ call[c].answer = keyed[call[c].input.key]
        /\ SameRequest(call[c].answer, call[c].input)

\* Two payments under one key need a fault, calls that overlap, or a specialist
\* that issues challenges and accepts no real payment: then a call is charged,
\* throws with its key unbound, and the next one with the key is charged too.
PaidOnceUnlessDisturbed ==
    AllowRealPayment => \A c, d \in Calls :
        /\ c # d /\ chain[c] = "landed" /\ chain[d] = "landed"
        /\ call[c].input.key = call[d].input.key
        => faults > 0 \/ c \in call[d].peers \/ d \in call[c].peers

\* Without a fault, a call that was charged by a specialist that accepts real
\* payments gets an answer, unless another request took its key in the meantime.
\* (A chat completion does; the gate's delegation_live mode, which refuses after
\* a verified payment, is not modelled.)
ChargedIsAnswered ==
    AllowRealPayment => \A c \in Calls : call[c].stage = "threw" /\ chain[c] = "landed" /\ faults = 0 =>
        keyed[call[c].input.key] # None /\ ~SameRequest(keyed[call[c].input.key], call[c].input)

\* Every call ends.
CallsEnd == \A c \in Calls : Running(c) ~> ~Running(c)
=============================================================================
