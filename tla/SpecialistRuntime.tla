-------------------------- MODULE SpecialistRuntime -------------------------
(***************************************************************************)
(* The payment gate of packages/openrouter-specialists: a request without  *)
(* a payment header gets a 402 challenge with a fresh nonce, which the     *)
(* runtime does not remember; a paid one names a nonce and a transaction.  *)
(* The transaction is looked up on the cluster and compared with the price *)
(* and the payee, the nonce is burned in the replay store of the process,  *)
(* and the request is forwarded upstream.  Nothing ties the transaction to *)
(* the nonce: the challenge a receipt is compared with is rebuilt from the *)
(* receipt's own nonce.  Nothing catches what these awaits throw           *)
(* (server.ts), so a failure ends the process, and with it the replay      *)
(* store and all requests.                                                 *)
(*                                                                         *)
(* The transaction that pays a call is named by the call.  Its paid        *)
(* request may arrive more than once: the copies are numbered.  Requests   *)
(* are those of this bridge; what anybody else may send is not modelled.   *)
(***************************************************************************)
EXTENDS Naturals, FiniteSets

CONSTANTS
    Calls,          \* calls, and what is named by them
    Copies,         \* copies of a paid request
    Nonces,         \* what randomUUID returns
    AllowRealPayment, \* config.allowRealPayment
    MaxFaults,      \* bound on the faults of a behaviour
    None            \* no transaction, no receipt, no request

VARIABLES
    chain,          \* per call, its USDC transfer: None, "sent", "landed", "dropped"
    gate,           \* per call and copy, its paid request at the runtime
    nonce,          \* per call, the nonce of the challenge it got, which its receipt names
    seen,           \* nonces in the replay store
    served,         \* per nonce, how often the upstream answered a request that named it
    restarts,       \* how often the runtime was restarted
    faults          \* faults so far

gateVars == <<gate, nonce, seen, served, restarts>>

Request == Calls \X Copies
GateState == {"none", "verifying", "upstream", "refused", "answered", "dead"}

RuntimeTypeOK ==
    /\ chain \in [Calls -> {None, "sent", "landed", "dropped"}]
    /\ gate \in [Request -> GateState]
    /\ nonce \in [Calls -> Nonces \cup {None}]
    /\ seen \subseteq Nonces
    /\ served \in [Nonces -> Nat]
    /\ restarts \in Nat /\ faults \in Nat

RuntimeInit ==
    /\ gate = [q \in Request |-> "none"]
    /\ nonce = [c \in Calls |-> None]
    /\ seen = {}
    /\ served = [n \in Nonces |-> 0]
    /\ restarts = 0

Fault == faults < MaxFaults /\ faults' = faults + 1

Becomes(q, state) == gate' = [gate EXCEPT ![q] = state]

\* The 402 answer to an unpaid request of call c: randomUUID never repeats.
IssueChallenge(c) ==
    \E n \in Nonces :
        /\ \A d \in Calls : nonce[d] # n
        /\ nonce' = [nonce EXCEPT ![c] = n]

\* handleChatCompletions runs to its first await: getParsedTransaction.  The
\* demo verifier declines a receipt that names a transaction, and without
\* allowRealPayment (the default) its answer is final: a challenge was issued
\* that no payment satisfies.
Receive(q) ==
    /\ gate[q] = "none"
    /\ Becomes(q, IF AllowRealPayment THEN "verifying" ELSE "refused")

\* The transaction the receipt names, as the runtime's RPC node shows it: any
\* transfer of the price to the specialist will do, whatever the nonce.
Settles(c) == chain[c] = "landed"

\* The replay store takes a nonce once.  Mutants: it only remembers it; the demo
\* verifier takes it before it declines the receipt.
Unchecked(n) == TRUE
TakenByDemo(n) == n \notin seen \cup {n}
NonceFree(n) == n \notin seen

Verify(q) ==
    /\ gate[q] = "verifying"
    /\ LET c == q[1]
       IN  IF Settles(c) /\ NonceFree(nonce[c])
           THEN Becomes(q, "upstream") /\ seen' = seen \cup {nonce[c]}
           ELSE Becomes(q, "refused") /\ UNCHANGED seen
    /\ UNCHANGED <<chain, nonce, served, restarts, faults>>

\* The RPC node does not have a confirmed transaction yet.
VerifyTooEarly(q) ==
    /\ Fault
    /\ gate[q] = "verifying" /\ Settles(q[1])
    /\ Becomes(q, "refused")
    /\ UNCHANGED <<chain, nonce, seen, served, restarts>>

\* createChatCompletion returns.
Answer(q) ==
    /\ gate[q] = "upstream"
    /\ Becomes(q, "answered")
    /\ served' = [served EXCEPT ![nonce[q[1]]] = @ + 1]
    /\ UNCHANGED <<chain, nonce, seen, restarts, faults>>

\* The RPC node or the upstream fails one request, and the process ends; it is
\* started again with an empty replay store.
RuntimeCrash ==
    /\ Fault
    /\ \E q \in Request : gate[q] \in {"verifying", "upstream"}
    /\ gate' = [q \in Request |->
                   IF gate[q] \in {"verifying", "upstream"} THEN "dead" ELSE gate[q]]
    /\ seen' = {}
    /\ restarts' = restarts + 1
    /\ UNCHANGED <<chain, nonce, served>>

RuntimeStep(q) == Verify(q) \/ VerifyTooEarly(q) \/ Answer(q)

-----------------------------------------------------------------------------
(* Properties *)

\* A nonce is answered once in the life of a process, however many copies of
\* the receipts that name it arrive and however their verifications, each with
\* an await between the lookup and the replay store, interleave.  This is all
\* the gate promises: it burns nonces and not transfers, so that a payment buys
\* one answer because this bridge sends each transfer under one nonce.
ServedOnce == \A n \in Nonces : served[n] <= 1 + restarts
=============================================================================
