------------------------ MODULE SpecialistCallProofs ------------------------
(***************************************************************************)
(* For any calls, keys, bodies, caps, copies and faults: a nonce is        *)
(* answered once per life of the runtime, stored receipts were earned, and *)
(* an idempotency key is answered with one receipt.                        *)
(***************************************************************************)
EXTENDS SpecialistCall, TLAPS

\* A nonce is of one call, whose requests name it, and only those are burned.
NonceInv ==
    /\ \A c, d \in Calls : c # d /\ nonce[c] = nonce[d] => nonce[c] = None
    /\ \A c \in Calls, i \in Copies : gate[<<c, i>>] # "none" => nonce[c] # None
    /\ \A n \in seen : \E c \in Calls : nonce[c] = n

\* A request gets upstream only after its transfer landed.
GateInv ==
    \A c \in Calls, i \in Copies :
        /\ gate[<<c, i>>] = "upstream" => chain[c] = "landed"
        /\ gate[<<c, i>>] = "answered" => chain[c] = "landed" /\ served[nonce[c]] > 0

\* A copy that is upstream holds the one answer its nonce has left.
OnceInv ==
    /\ \A n \in Nonces : /\ served[n] <= 1 + restarts
                         /\ n \notin seen => served[n] <= restarts
    /\ \A c \in Calls, i \in Copies : gate[<<c, i>>] = "upstream" =>
          /\ nonce[c] \in seen /\ served[nonce[c]] <= restarts
          /\ \A j \in Copies : gate[<<c, j>>] = "upstream" => i = j

\* What a call has established when it is at a stage.
Priced == {"balances", "submit", "confirm", "paid", "response"}
Progress ==
    \A c \in Calls :
        /\ call[c].stage # "idle" => call[c].input \in CallInput
        /\ call[c].stage = "idle" => call[c].answer = None
        /\ call[c].stage \in Priced => Price <= call[c].input.max
        /\ call[c].stage \in {"paid", "response"} => chain[c] = "landed"
        /\ call[c].stage \in {"idle", "unpaid"} => nonce[c] = None
        /\ call[c].stage \in Priced => nonce[c] # None

\* The call a stored receipt names has started, so its input is fixed.
Named == \A k \in Keys : keyed[k] # None => call[keyed[k].call].stage # "idle"

IInv == TypeOK /\ NonceInv /\ GateInv /\ OnceInv /\ Progress /\ Named /\ ReceiptsEarned /\ KeyBinds

USE DEF Stage, Unpaying, Ended, Priced, GateState

LEMMA InitIInv == Init => IInv
  <1> SUFFICES ASSUME Init PROVE IInv
    OBVIOUS
  <1> USE DEF Init, RuntimeInit, Request
  <1>1. TypeOK
    BY CallConstants DEF TypeOK, RuntimeTypeOK
  <1>2. NonceInv /\ GateInv /\ OnceInv
    BY DEF NonceInv, GateInv, OnceInv
  <1>3. Progress /\ Named /\ ReceiptsEarned /\ KeyBinds
    BY DEF Progress, Named, ReceiptsEarned, KeyBinds
  <1> QED
    BY <1>1, <1>2, <1>3 DEF IInv

\* What the gate knows stays true while the nonces it was shown stay.
LEMMA GateKept ==
  ASSUME TypeOK, NonceInv, GateInv, OnceInv, UNCHANGED <<chain, gate, seen, served, restarts>>,
         \A d \in Calls : nonce[d] # None => nonce'[d] = nonce[d]
  PROVE  GateInv' /\ OnceInv'
  <1>1. \A d \in Calls, i \in Copies :
            gate'[<<d, i>>] # "none" => gate[<<d, i>>] # "none" /\ nonce'[d] = nonce[d]
    BY DEF NonceInv
  <1>2. GateInv'
    BY <1>1 DEF GateInv
  <1>3. OnceInv'
    BY <1>1 DEF OnceInv
  <1> QED
    BY <1>2, <1>3

LEMMA NonceKept ==
  ASSUME NonceInv, UNCHANGED <<nonce, gate, seen>>
  PROVE  NonceInv'
  BY DEF NonceInv

\* Steps that move one call to another stage, with or without its challenge, and
\* touch neither the gate, the cluster nor the store.
LEMMA StageStep ==
  ASSUME IInv, NEW c \in Calls, NEW s \in Stage, GoTo(c, s),
         UNCHANGED <<chain, gate, seen, served, restarts, wallet, keyed>>, faults' \in Nat,
         nonce' \in [Calls -> Nonces \cup {None}],
         \A d \in Calls : d # c \/ nonce[d] # None => nonce'[d] = nonce[d],
         NonceInv', s \in Priced => nonce'[c] # None,
         call[c].stage # "idle", s \notin {"idle", "unpaid"},
         s \in Unpaying => call[c].stage \in Unpaying,
         s \in Priced => Price <= call[c].input.max,
         s \in {"paid", "response"} => chain[c] = "landed"
  PROVE  IInv'
  <1> USE DEF IInv
  <1>1. /\ call' \in [Calls -> [stage : Stage, input : CallInput \cup {None},
                                answer : Receipt \cup {None}, peers : SUBSET Calls]]
        /\ call'[c] = [call[c] EXCEPT !.stage = s]
        /\ \A d \in Calls \ {c} : call'[d] = call[d]
    BY DEF GoTo, TypeOK
  <1>2. /\ call'[c].stage = s /\ call'[c].input = call[c].input
        /\ call'[c].answer = call[c].answer
    BY <1>1 DEF TypeOK
  <1>3. TypeOK'
    BY <1>1, <1>2 DEF TypeOK, RuntimeTypeOK
  <1>4. GateInv' /\ OnceInv'
    BY GateKept
  <1>5. Progress'
    BY <1>1, <1>2 DEF Progress
  <1>6. Named'
    BY <1>1, <1>2 DEF Named, TypeOK, Receipt
  <1>7. ReceiptsEarned'
    BY <1>1, <1>2 DEF ReceiptsEarned, SameRequest, TypeOK, Receipt
  <1>8. KeyBinds'
    BY <1>1, <1>2 DEF KeyBinds, SameRequest
  <1> QED
    BY <1>3, <1>4, <1>5, <1>6, <1>7, <1>8

LEMMA StartStep ==
  ASSUME IInv, NEW c \in Calls, NEW r \in CallInput, Start(c, r)
  PROVE  IInv'
  <1> USE DEF IInv, Env
  <1> DEFINE started == [stage |-> FirstStage(r), input |-> r,
                         answer |-> IF FirstStage(r) = "replayed" THEN keyed[r.key] ELSE None,
                         peers |-> {d \in Calls : Running(d)}]
  <1>1. r.key \in Keys /\ keyed[r.key] \in Receipt \cup {None}
    BY DEF CallInput, TypeOK
  <1>2. /\ FirstStage(r) \in {"unpaid", "replayed", "threw"}
        /\ FirstStage(r) = "replayed" => keyed[r.key] # None /\ SameRequest(keyed[r.key], r)
    BY DEF FirstStage
  <1>3. started \in [stage : Stage, input : CallInput \cup {None},
                     answer : Receipt \cup {None}, peers : SUBSET Calls]
    BY <1>1, <1>2
  <1>4. /\ call' = [call EXCEPT ![c] = started] /\ call[c].stage = "idle"
        /\ UNCHANGED <<chain, gate, nonce, seen, served, restarts, faults, wallet, keyed>>
    BY DEF Start, gateVars
  <1>5. /\ started.stage = FirstStage(r) /\ started.input = r
        /\ started.answer # None => FirstStage(r) = "replayed" /\ started.answer = keyed[r.key]
    OBVIOUS
  <1> HIDE DEF started
  <1>6. /\ call' \in [Calls -> [stage : Stage, input : CallInput \cup {None},
                                answer : Receipt \cup {None}, peers : SUBSET Calls]]
        /\ call'[c] = started
        /\ \A d \in Calls \ {c} : call'[d] = call[d]
    BY <1>3, <1>4 DEF TypeOK
  <1>7. TypeOK'
    BY <1>4, <1>6 DEF TypeOK, RuntimeTypeOK
  <1>8. NonceInv' /\ GateInv' /\ OnceInv'
    BY <1>4, NonceKept, GateKept
  <1>9. Progress'
    BY <1>2, <1>4, <1>5, <1>6 DEF Progress
  <1>10. Named' /\ ReceiptsEarned'
    BY <1>2, <1>4, <1>5, <1>6 DEF Named, ReceiptsEarned, SameRequest, TypeOK, Receipt
  <1>11. KeyBinds'
    BY <1>1, <1>2, <1>4, <1>5, <1>6 DEF KeyBinds, SameRequest
  <1> QED
    BY <1>7, <1>8, <1>9, <1>10, <1>11

\* The 402 answer brings a nonce nobody has.
LEMMA FreshNonce ==
  ASSUME IInv, NEW c \in Calls, Challenge(c)
  PROVE  /\ nonce' \in [Calls -> Nonces \cup {None}] /\ nonce'[c] # None
         /\ \A d \in Calls : d # c \/ nonce[d] # None => nonce'[d] = nonce[d]
         /\ \A d \in Calls : nonce'[d] \in seen => nonce'[d] = nonce[d]
         /\ NonceInv'
  <1>1. PICK n \in Nonces : /\ \A d \in Calls : nonce[d] # n
                            /\ nonce' = [nonce EXCEPT ![c] = n]
    BY DEF Challenge, IssueChallenge
  <1>2. /\ nonce' \in [Calls -> Nonces \cup {None}] /\ nonce'[c] = n /\ n # None
        /\ \A d \in Calls \ {c} : nonce'[d] = nonce[d]
    BY <1>1, CallConstants DEF IInv, TypeOK, RuntimeTypeOK
  <1>3. nonce[c] = None /\ n \notin seen /\ UNCHANGED <<gate, seen>>
    BY <1>1 DEF IInv, Progress, NonceInv, Challenge
  <1>4. NonceInv'
    <2>1. \A d, e \in Calls : d # e /\ nonce'[d] = nonce'[e] => nonce'[d] = None
      BY <1>1, <1>2 DEF IInv, NonceInv
    <2>2. \A d \in Calls, i \in Copies : gate'[<<d, i>>] # "none" => nonce'[d] # None
      BY <1>2, <1>3 DEF IInv, NonceInv
    <2>3. \A m \in seen' : \E d \in Calls : nonce'[d] = m
      <3> SUFFICES ASSUME NEW m \in seen PROVE \E d \in Calls : nonce'[d] = m
        BY <1>3
      <3>1. PICK d \in Calls : nonce[d] = m
        BY DEF IInv, NonceInv
      <3>2. m \in Nonces
        BY DEF IInv, TypeOK, RuntimeTypeOK
      <3> QED
        BY <1>2, <1>3, <3>1, <3>2, CallConstants
    <2> QED
      BY <2>1, <2>2, <2>3 DEF NonceInv
  <1> QED
    BY <1>2, <1>3, <1>4

LEMMA BridgeChecks ==
  ASSUME IInv, NEW c \in Calls,
         Challenge(c) \/ ReadBalances(c) \/ Confirm(c) \/ RetryFailed(c)
  PROVE  IInv'
  <1> USE DEF Env, gateVars, Acceptable, TypeOK, RuntimeTypeOK
  <1>1. CASE Challenge(c)
    <2>1. PICK s \in {"balances", "threw"} : GoTo(c, s) /\ (s = "balances" => Price <= call[c].input.max)
      BY <1>1 DEF Challenge
    <2>2. /\ nonce' \in [Calls -> Nonces \cup {None}] /\ nonce'[c] # None
          /\ \A d \in Calls : d # c \/ nonce[d] # None => nonce'[d] = nonce[d]
          /\ NonceInv'
      BY <1>1, FreshNonce
    <2> QED
      BY <1>1, <2>1, <2>2, StageStep DEF Challenge, IInv
  <1>2. CASE ReadBalances(c)
    <2>1. PICK s \in {"submit", "threw"} : GoTo(c, s)
      BY <1>2 DEF ReadBalances
    <2> QED
      BY <1>2, <2>1, NonceKept, StageStep DEF ReadBalances, IInv, Progress
  <1>3. CASE Confirm(c)
    <2>1. PICK s \in {"paid", "threw"} : GoTo(c, s) /\ (s = "paid" => chain[c] = "landed")
      BY <1>3 DEF Confirm
    <2> QED
      BY <1>3, <2>1, NonceKept, StageStep DEF Confirm, IInv, Progress
  <1>4. CASE RetryFailed(c)
    BY <1>4, NonceKept, StageStep DEF RetryFailed, IInv
  <1> QED
    BY <1>1, <1>2, <1>3, <1>4

LEMMA FailStep ==
  ASSUME IInv, NEW c \in Calls, AwaitFails(c)
  PROVE  IInv'
  BY NonceKept, StageStep DEF AwaitFails, Fault, Running, gateVars, IInv, TypeOK, RuntimeTypeOK

\* Steps that change the gate of one request only.
LEMMA ArrivalStep ==
  ASSUME IInv, NEW c \in Calls, NEW i \in Copies, Receive(<<c, i>>), nonce[c] # None,
         UNCHANGED <<chain, nonce, seen, served, restarts>>
  PROVE  (gate \in [Request -> GateState])' /\ NonceInv' /\ GateInv' /\ OnceInv'
  <1>1. gate' \in [Request -> GateState]
    BY DEF IInv, TypeOK, RuntimeTypeOK, Receive, Becomes
  <1>2. \A d \in Calls, j \in Copies :
            gate'[<<d, j>>] \in {"upstream", "answered"} => gate'[<<d, j>>] = gate[<<d, j>>]
    BY DEF IInv, TypeOK, RuntimeTypeOK, Receive, Becomes, Request
  <1>3. GateInv'
    BY <1>2 DEF IInv, GateInv
  <1>4. OnceInv'
    BY <1>2 DEF IInv, OnceInv
  <1>5. \A d \in Calls, j \in Copies : d # c => gate'[<<d, j>>] = gate[<<d, j>>]
    BY DEF IInv, TypeOK, RuntimeTypeOK, Receive, Becomes, Request
  <1>6. NonceInv'
    BY <1>5 DEF IInv, NonceInv
  <1> QED
    BY <1>1, <1>3, <1>4, <1>6

\* What a step keeps that leaves calls, transfers and store alone and takes no
\* answer back.
LEMMA CallsKept ==
  ASSUME IInv, UNCHANGED <<chain, call, wallet, keyed, nonce>>, served' \in [Nonces -> Nat],
         \A n \in Nonces : served'[n] >= served[n]
  PROVE  Progress' /\ Named' /\ ReceiptsEarned' /\ KeyBinds'
  <1> USE DEF IInv
  <1>1. Progress' /\ Named' /\ KeyBinds'
    BY DEF Progress, Named, KeyBinds, SameRequest
  <1>2. ReceiptsEarned'
    BY DEF ReceiptsEarned, SameRequest, TypeOK, RuntimeTypeOK, Receipt
  <1> QED
    BY <1>1, <1>2

\* The cluster settles a transfer that was sent.
LEMMA SettleStep ==
  ASSUME IInv, NEW c \in Calls, Land(c) \/ Reject(c) \/ Expire(c)
  PROVE  IInv'
  <1> USE DEF IInv, gateVars
  <1>1. /\ chain[c] = "sent"
        /\ UNCHANGED <<gate, nonce, seen, served, restarts, call, keyed>>
        /\ faults' \in Nat
    BY DEF Land, Reject, Expire, Fault, TypeOK, RuntimeTypeOK
  <1>2. chain' \in [Calls -> {None, "sent", "landed", "dropped"}]
    BY DEF Land, Reject, Expire, TypeOK, RuntimeTypeOK
  <1>3. \A d \in Calls \ {c} : chain'[d] = chain[d]
    BY DEF Land, Reject, Expire, TypeOK, RuntimeTypeOK
  <1>4. wallet' \in [sol : Nat, usdc : Nat]
    BY CallConstants DEF Land, Reject, Expire, Affordable, TypeOK
  <1>5. TypeOK'
    <2>1. call[c].stage \notin Unpaying
      BY <1>1, CallConstants DEF TypeOK
    <2> QED
      BY <1>1, <1>2, <1>3, <1>4, <2>1 DEF TypeOK, RuntimeTypeOK
  <1>6. NonceInv' /\ GateInv' /\ OnceInv'
    BY <1>1, <1>3 DEF NonceInv, GateInv, OnceInv
  <1>7. Progress' /\ Named' /\ KeyBinds'
    BY <1>1, <1>3 DEF Progress, Named, KeyBinds, SameRequest
  <1>8. ReceiptsEarned'
    BY <1>1, <1>3 DEF ReceiptsEarned, SameRequest, TypeOK, Receipt
  <1> QED
    BY <1>5, <1>6, <1>7, <1>8

LEMMA SubmitStep ==
  ASSUME IInv, NEW c \in Calls, SubmitUsdcTransfer(c)
  PROVE  IInv'
  <1> USE DEF IInv, gateVars
  <1>1. /\ call[c].stage = "submit" /\ chain[c] = None
        /\ UNCHANGED <<gate, nonce, seen, served, restarts, faults, wallet, keyed>>
    BY DEF SubmitUsdcTransfer, TypeOK
  <1>2. /\ chain' \in [Calls -> {None, "sent", "landed", "dropped"}]
        /\ \A d \in Calls \ {c} : chain'[d] = chain[d]
    BY DEF SubmitUsdcTransfer, TypeOK, RuntimeTypeOK
  <1>3. /\ call' \in [Calls -> [stage : Stage, input : CallInput \cup {None},
                                answer : Receipt \cup {None}, peers : SUBSET Calls]]
        /\ call'[c] = [call[c] EXCEPT !.stage = "confirm"]
        /\ \A d \in Calls \ {c} : call'[d] = call[d]
    BY DEF SubmitUsdcTransfer, GoTo, TypeOK
  <1>4. /\ call'[c].stage = "confirm" /\ call'[c].input = call[c].input
        /\ call'[c].answer = call[c].answer
    BY <1>3 DEF TypeOK
  <1>5. TypeOK'
    <2>1. RuntimeTypeOK'
      BY <1>1, <1>2 DEF TypeOK, RuntimeTypeOK
    <2>2. \A d \in Calls : call'[d].stage \in Unpaying => chain'[d] = None
      BY <1>2, <1>3, <1>4 DEF TypeOK
    <2> QED
      BY <1>1, <1>3, <2>1, <2>2 DEF TypeOK
  <1>6. chain[c] # "landed"
    BY <1>1, CallConstants
  <1>7. NonceInv' /\ GateInv' /\ OnceInv'
    BY <1>1, <1>2, <1>6 DEF NonceInv, GateInv, OnceInv
  <1>8. Progress'
    BY <1>1, <1>2, <1>3, <1>4 DEF Progress
  <1>9. Named' /\ ReceiptsEarned'
    BY <1>1, <1>2, <1>3, <1>4, <1>6 DEF Named, ReceiptsEarned, SameRequest, TypeOK, Receipt
  <1>10. KeyBinds'
    BY <1>1, <1>3, <1>4 DEF KeyBinds, SameRequest
  <1> QED
    BY <1>5, <1>7, <1>8, <1>9, <1>10

LEMMA RetryStep ==
  ASSUME IInv, NEW c \in Calls, Retry(c)
  PROVE  IInv'
  <1> USE DEF IInv
  <1>1. PICK i \in Copies : Receive(<<c, i>>)
    BY DEF Retry
  <1>2. /\ call[c].stage = "paid" /\ chain[c] = "landed" /\ nonce[c] # None
        /\ UNCHANGED <<chain, nonce, seen, served, restarts, faults, wallet, keyed>>
    BY DEF Retry, Progress
  <1>3. (gate \in [Request -> GateState])' /\ NonceInv' /\ GateInv' /\ OnceInv'
    BY <1>1, <1>2, ArrivalStep
  <1>4. /\ call' \in [Calls -> [stage : Stage, input : CallInput \cup {None},
                                answer : Receipt \cup {None}, peers : SUBSET Calls]]
        /\ call'[c] = [call[c] EXCEPT !.stage = "response"]
        /\ \A d \in Calls \ {c} : call'[d] = call[d]
    BY DEF Retry, GoTo, TypeOK
  <1>5. /\ call'[c].stage = "response" /\ call'[c].input = call[c].input
        /\ call'[c].answer = call[c].answer
    BY <1>4 DEF TypeOK
  <1>6. TypeOK'
    BY <1>2, <1>3, <1>4, <1>5 DEF TypeOK, RuntimeTypeOK
  <1>7. Progress'
    BY <1>2, <1>4, <1>5 DEF Progress
  <1>8. Named' /\ ReceiptsEarned'
    BY <1>2, <1>4, <1>5 DEF Named, ReceiptsEarned, SameRequest, TypeOK, Receipt
  <1>9. KeyBinds'
    BY <1>2, <1>4, <1>5 DEF KeyBinds, SameRequest
  <1> QED
    BY <1>3, <1>6, <1>7, <1>8, <1>9

LEMMA DuplicateStep ==
  ASSUME IInv, NEW c \in Calls, Duplicate(c)
  PROVE  IInv'
  <1>1. PICK i \in Copies : Receive(<<c, i>>)
    BY DEF Duplicate
  <1>2. /\ UNCHANGED <<chain, nonce, seen, served, restarts, wallet, call, keyed>>
        /\ faults' \in Nat /\ nonce[c] # None
    BY DEF Duplicate, Fault, IInv, TypeOK, RuntimeTypeOK, NonceInv
  <1>3. (gate \in [Request -> GateState])' /\ NonceInv' /\ GateInv' /\ OnceInv'
    BY <1>1, <1>2, ArrivalStep
  <1>4. TypeOK'
    BY <1>2, <1>3 DEF IInv, TypeOK, RuntimeTypeOK
  <1>5. Progress' /\ Named' /\ ReceiptsEarned' /\ KeyBinds'
    BY <1>2, CallsKept DEF IInv, TypeOK, RuntimeTypeOK
  <1> QED
    BY <1>3, <1>4, <1>5 DEF IInv

LEMMA BridgeCrashStep == IInv /\ BridgeCrash => IInv'
  <1> SUFFICES ASSUME IInv, BridgeCrash PROVE IInv'
    OBVIOUS
  <1> USE DEF IInv
  <1>1. UNCHANGED <<chain, gate, nonce, seen, served, restarts, wallet, keyed>> /\ faults' \in Nat
    BY DEF BridgeCrash, Fault, gateVars, TypeOK, RuntimeTypeOK
  <1>2. \A c \in Calls :
            /\ Running(c) => call'[c] = [call[c] EXCEPT !.stage = "lost"]
            /\ ~Running(c) => call'[c] = call[c]
    BY DEF BridgeCrash
  <1>3. call' \in [Calls -> [stage : Stage, input : CallInput \cup {None},
                            answer : Receipt \cup {None}, peers : SUBSET Calls]]
    BY DEF BridgeCrash, TypeOK
  <1>4. \A c \in Calls :
            /\ call'[c].input = call[c].input /\ call'[c].answer = call[c].answer
            /\ call'[c].stage \in {call[c].stage, "lost"}
            /\ call[c].stage = "idle" <=> call'[c].stage = "idle"
    BY ZenonT(60), <1>2 DEF TypeOK, Running
  <1>5. TypeOK'
    BY <1>1, <1>3, <1>4 DEF TypeOK, RuntimeTypeOK
  <1>6. NonceInv' /\ GateInv' /\ OnceInv'
    BY <1>1, NonceKept, GateKept
  <1>7. Progress'
    BY <1>1, <1>4 DEF Progress
  <1>8. Named' /\ ReceiptsEarned'
    BY <1>1, <1>4 DEF Named, ReceiptsEarned, SameRequest, TypeOK, Receipt
  <1>9. KeyBinds'
    BY <1>1, <1>4 DEF KeyBinds, SameRequest
  <1> QED
    BY <1>5, <1>6, <1>7, <1>8, <1>9

LEMMA StoreStep ==
  ASSUME IInv, NEW c \in Calls, Store(c)
  PROVE  IInv'
  <1> USE DEF IInv, Env
  <1> DEFINE r == call[c].input
             receipt == [key |-> r.key, body |-> r.body, max |-> r.max, call |-> c]
  <1>1. /\ call[c].stage = "response" /\ r \in CallInput
        /\ chain[c] = "landed" /\ nonce[c] # None /\ served[nonce[c]] > 0 /\ Price <= r.max
        /\ UNCHANGED <<chain, gate, nonce, seen, served, restarts, faults, wallet>>
    BY DEF Store, Progress, Answered, GateInv, gateVars
  <1>2. r.key \in Keys /\ keyed[r.key] \in Receipt \cup {None}
    BY <1>1 DEF CallInput, TypeOK
  <1>3. NonceInv' /\ GateInv' /\ OnceInv'
    BY <1>1, NonceKept, GateKept
  <1>4. CASE ~KeyFree(r) /\ ~SameRequest(keyed[r.key], r)
    BY <1>1, <1>3, <1>4, StageStep DEF Store, TypeOK, RuntimeTypeOK
  <1>5. CASE ~KeyFree(r) /\ SameRequest(keyed[r.key], r)
    <2>1. /\ UNCHANGED keyed /\ keyed[r.key] # None
          /\ call' = [call EXCEPT ![c].stage = "returned", ![c].answer = keyed[r.key]]
      BY <1>5 DEF Store, KeyFree
    <2>2. /\ call' \in [Calls -> [stage : Stage, input : CallInput \cup {None},
                                  answer : Receipt \cup {None}, peers : SUBSET Calls]]
          /\ call'[c].stage = "returned" /\ call'[c].input = r /\ call'[c].answer = keyed[r.key]
          /\ \A d \in Calls \ {c} : call'[d] = call[d]
      BY ZenonT(60), <1>1, <1>2, <2>1 DEF TypeOK
    <2> HIDE DEF r, receipt
    <2>3. TypeOK'
      BY <1>1, <2>1, <2>2 DEF TypeOK, RuntimeTypeOK
    <2>4. Progress'
      BY <1>1, <2>2 DEF Progress
    <2>5. /\ \A d \in Calls :
                /\ call'[d].input = call[d].input
                /\ call[d].stage # "idle" => call'[d].stage # "idle"
          /\ \A k \in Keys : keyed[k] # None => keyed[k].call \in Calls
          /\ keyed' = keyed
      BY <2>1, <2>2 DEF TypeOK, Receipt, r
    <2>6. KeyBinds'
      BY <1>2, <1>5, <2>1, <2>2 DEF KeyBinds, SameRequest
    <2>7. Named /\ ReceiptsEarned
      OBVIOUS
    <2> HIDE DEF IInv
    <2>8. Named'
      BY <2>5, <2>7 DEF Named
    <2>9. ReceiptsEarned'
      BY <1>1, <2>5, <2>7 DEF ReceiptsEarned, SameRequest
    <2> QED
      BY <1>3, <2>3, <2>4, <2>6, <2>8, <2>9 DEF IInv
  <1>6. CASE KeyFree(r)
    <2>1. /\ keyed[r.key] = None
          /\ keyed' = [keyed EXCEPT ![r.key] = receipt]
          /\ call' = [call EXCEPT ![c].stage = "returned", ![c].answer = receipt]
      BY <1>6 DEF Store, KeyFree
    <2>2. /\ receipt \in Receipt
          /\ receipt.call = c /\ receipt.max = r.max /\ receipt.body = r.body
      BY <1>1 DEF CallInput, Receipt
    <2>9. /\ r = call[c].input
          /\ call[c] \in [stage : Stage, input : CallInput \cup {None},
                          answer : Receipt \cup {None}, peers : SUBSET Calls]
      BY DEF TypeOK
    <2> HIDE DEF r, receipt
    <2>3. /\ call' \in [Calls -> [stage : Stage, input : CallInput \cup {None},
                                  answer : Receipt \cup {None}, peers : SUBSET Calls]]
          /\ call'[c].stage = "returned" /\ call'[c].input = r /\ call'[c].answer = receipt
          /\ \A d \in Calls \ {c} : call'[d] = call[d]
      BY <2>1, <2>2, <2>9 DEF TypeOK
    <2>4. /\ keyed' \in [Keys -> Receipt \cup {None}]
          /\ keyed'[r.key] = receipt
          /\ \A k \in Keys \ {r.key} : keyed'[k] = keyed[k]
      BY <1>2, <2>1, <2>2 DEF TypeOK
    <2>5. TypeOK'
      BY <1>1, <2>3, <2>4 DEF TypeOK, RuntimeTypeOK
    <2>6. Progress'
      BY <1>1, <2>3 DEF Progress
    <2>7. Named'
      BY <1>1, <2>2, <2>3, <2>4, <2>9 DEF Named, TypeOK, Receipt
    <2>10. ReceiptsEarned'
      <3>1. receipt # None
        BY <1>2, <2>2, NoReceipt
      <3> QED
        BY <1>1, <2>2, <2>3, <2>4, <2>9, <3>1 DEF ReceiptsEarned, SameRequest, TypeOK, Receipt
    <2>8. KeyBinds'
      <3>1. \A d \in Calls \ {c} : call[d].answer # None =>
                /\ call[d].input.key \in Keys \ {r.key}
                /\ call[d].answer = keyed[call[d].input.key] /\ SameRequest(call[d].answer, call[d].input)
        BY <2>1 DEF KeyBinds, Progress, CallInput
      <3> QED
        BY <2>2, <2>3, <2>4, <3>1 DEF KeyBinds, SameRequest
    <2> QED
      BY <1>3, <2>5, <2>6, <2>7, <2>8, <2>10
  <1> QED
    BY <1>4, <1>5, <1>6

\* The runtime's own steps move one request, and change nothing of the bridge.
LEMMA RuntimeKeeps ==
  ASSUME IInv, UNCHANGED <<chain, call, wallet, keyed, nonce>>,
         (gate \in [Request -> GateState])', (seen \subseteq Nonces)', served' \in [Nonces -> Nat],
         restarts' \in Nat, faults' \in Nat, \A n \in Nonces : served'[n] >= served[n],
         NonceInv', GateInv', OnceInv'
  PROVE  IInv'
  <1>1. TypeOK'
    BY DEF IInv, TypeOK, RuntimeTypeOK
  <1>2. Progress' /\ Named' /\ ReceiptsEarned' /\ KeyBinds'
    BY CallsKept
  <1> QED
    BY <1>1, <1>2 DEF IInv

LEMMA VerifyStep ==
  ASSUME IInv, NEW c \in Calls, NEW i \in Copies, UNCHANGED <<call, wallet, keyed>>,
         Verify(<<c, i>>) \/ VerifyTooEarly(<<c, i>>)
  PROVE  IInv'
  <1> USE DEF IInv
  <1> DEFINE q == <<c, i>>
             n == nonce[c]
  <1>1. /\ q \in Request /\ q[1] = c
        /\ gate[q] = "verifying" /\ UNCHANGED <<chain, nonce, served, restarts>>
        /\ faults' \in Nat
    BY DEF Verify, VerifyTooEarly, Fault, Request, TypeOK, RuntimeTypeOK
  <1>2. \/ /\ n \notin seen /\ chain[c] = "landed"
           /\ gate' = [gate EXCEPT ![q] = "upstream"] /\ seen' = seen \cup {n}
        \/ gate' = [gate EXCEPT ![q] = "refused"] /\ seen' = seen
    BY DEF Verify, VerifyTooEarly, Settles, NonceFree, Becomes
  <1>3. PICK s \in {"upstream", "refused"} :
            /\ gate' = [gate EXCEPT ![q] = s]
            /\ s = "upstream" => /\ n \notin seen /\ chain[c] = "landed"
                                 /\ seen' = seen \cup {n}
            /\ s = "refused" => seen' = seen
    BY <1>2
  <1>4. /\ gate' \in [Request -> GateState] /\ gate'[q] = s
        /\ \A d \in Calls, j \in Copies : <<d, j>> # q => gate'[<<d, j>>] = gate[<<d, j>>]
    BY <1>1, <1>3 DEF TypeOK, RuntimeTypeOK, Request
  <1>5. n \in Nonces
    BY <1>1 DEF NonceInv, TypeOK, RuntimeTypeOK
  <1>6. (seen \subseteq Nonces)' /\ seen \subseteq seen' /\ seen' \subseteq seen \cup {n}
    BY <1>3, <1>5 DEF TypeOK, RuntimeTypeOK
  <1>7. NonceInv'
    <2>1. \A d \in Calls, j \in Copies : gate'[<<d, j>>] # "none" => nonce[d] # None
      BY <1>1, <1>4 DEF NonceInv
    <2> QED
      BY <1>1, <1>6, <2>1 DEF NonceInv
  <1> HIDE DEF n
  <1>8. GateInv'
    <2> SUFFICES ASSUME NEW d \in Calls, NEW j \in Copies
                 PROVE  /\ gate'[<<d, j>>] = "upstream" => chain[d] = "landed"
                        /\ gate'[<<d, j>>] = "answered" => chain[d] = "landed" /\ served[nonce[d]] > 0
      BY <1>1 DEF GateInv
    <2>1. CASE d = c /\ j = i
      BY <1>3, <1>4, <2>1
    <2>2. CASE ~(d = c /\ j = i)
      BY <1>4, <2>2 DEF GateInv
    <2> QED
      BY <2>1, <2>2
  <1>9. OnceInv'
    <2>1. \A m \in Nonces : served[m] <= 1 + restarts /\ (m \notin seen' => served[m] <= restarts)
      BY <1>6 DEF OnceInv
    <2>2. ASSUME NEW d \in Calls, NEW j \in Copies, gate'[<<d, j>>] = "upstream"
          PROVE  /\ nonce[d] \in seen' /\ served[nonce[d]] <= restarts
                 /\ \A k \in Copies : gate'[<<d, k>>] = "upstream" => j = k
      <3>1. CASE d # c \/ s = "refused"
        <4>1. \A k \in Copies : gate'[<<d, k>>] = "upstream" => gate[<<d, k>>] = "upstream"
          BY <1>4, <3>1
        <4> QED
          BY <1>6, <2>2, <4>1 DEF OnceInv
      <3>2. CASE d = c /\ s = "upstream"
        <4>1. n \notin seen /\ n \in seen'
          BY <1>3, <3>2
        <4>2. \A k \in Copies : gate[<<c, k>>] # "upstream"
          BY <4>1 DEF OnceInv, n
        <4>3. \A k \in Copies : gate'[<<c, k>>] = "upstream" => k = i
          BY <1>4, <4>2
        <4> QED
          BY <1>5, <2>2, <3>2, <4>1, <4>3 DEF OnceInv, n
      <3> QED
        BY <3>1, <3>2
    <2> QED
      BY <1>1, <2>1, <2>2 DEF OnceInv
  <1>10. served' \in [Nonces -> Nat] /\ restarts' \in Nat /\ \A m \in Nonces : served'[m] >= served[m]
    BY <1>1 DEF TypeOK, RuntimeTypeOK
  <1> QED
    BY <1>1, <1>4, <1>6, <1>7, <1>8, <1>9, <1>10, RuntimeKeeps

LEMMA AnswerStep ==
  ASSUME IInv, NEW c \in Calls, NEW i \in Copies, UNCHANGED <<call, wallet, keyed>>,
         Answer(<<c, i>>)
  PROVE  IInv'
  <1> USE DEF IInv
  <1> DEFINE q == <<c, i>>
             n == nonce[c]
  <1>1. /\ q \in Request /\ gate[q] = "upstream"
        /\ UNCHANGED <<chain, nonce, seen, restarts, faults>>
        /\ gate' = [gate EXCEPT ![q] = "answered"]
        /\ served' = [served EXCEPT ![n] = @ + 1]
    BY DEF Answer, Becomes, Request
  <1>2. /\ gate' \in [Request -> GateState] /\ gate'[q] = "answered"
        /\ \A d \in Calls, j \in Copies : <<d, j>> # q => gate'[<<d, j>>] = gate[<<d, j>>]
    BY <1>1 DEF TypeOK, RuntimeTypeOK, Request
  <1>3. chain[c] = "landed" /\ n \in seen /\ served[n] <= restarts /\ n \in Nonces /\ n # None
    BY <1>1 DEF GateInv, OnceInv, NonceInv, TypeOK, RuntimeTypeOK
  <1>4. \A d \in Calls \ {c} : nonce[d] # n
    BY <1>3 DEF NonceInv
  <1>5. NonceInv'
    <2>1. \A d \in Calls, j \in Copies : gate'[<<d, j>>] # "none" => nonce[d] # None
      BY <1>2, <1>3 DEF NonceInv
    <2> QED
      BY <1>1, <2>1 DEF NonceInv
  <1>6. nonce[c] = n
    OBVIOUS
  <1> HIDE DEF n
  <1>7. /\ served' \in [Nonces -> Nat] /\ served'[n] = served[n] + 1
        /\ \A m \in Nonces \ {n} : served'[m] = served[m]
        /\ \A m \in Nonces : served[m] \in Nat
    BY <1>1, <1>3 DEF TypeOK, RuntimeTypeOK
  <1>8. \A m \in Nonces : served'[m] >= served[m]
    BY <1>7
  <1>9. \A d \in Calls \ {c}, j \in Copies :
            gate'[<<d, j>>] = gate[<<d, j>>] /\ (gate[<<d, j>>] # "none" => nonce[d] \in Nonces \ {n})
    <2> SUFFICES ASSUME NEW d \in Calls \ {c}, NEW j \in Copies
                 PROVE  /\ gate'[<<d, j>>] = gate[<<d, j>>]
                        /\ gate[<<d, j>>] # "none" => nonce[d] \in Nonces \ {n}
      OBVIOUS
    <2>1. gate'[<<d, j>>] = gate[<<d, j>>]
      BY <1>2
    <2>2. nonce[d] \in Nonces \cup {None} /\ nonce[d] # n
      BY <1>4 DEF TypeOK, RuntimeTypeOK
    <2>3. gate[<<d, j>>] # "none" => nonce[d] # None
      BY DEF NonceInv
    <2> QED
      BY <2>1, <2>2, <2>3
  <1>10. GateInv'
    <2> SUFFICES ASSUME NEW d \in Calls, NEW j \in Copies
                 PROVE  /\ gate'[<<d, j>>] = "upstream" => chain[d] = "landed"
                        /\ gate'[<<d, j>>] = "answered" => chain[d] = "landed" /\ served'[nonce[d]] > 0
      BY <1>1 DEF GateInv
    <2>1. CASE d = c
      BY <1>3, <1>6, <1>7, <2>1
    <2>2. CASE d # c
      BY <1>7, <1>9, <2>2 DEF GateInv
    <2> QED
      BY <2>1, <2>2
  <1>11. \A j \in Copies : gate'[<<c, j>>] # "upstream"
    BY <1>1, <1>2 DEF OnceInv
  <1>12. restarts \in Nat
    BY DEF TypeOK, RuntimeTypeOK
  <1>13. OnceInv'
    <2>1. \A m \in Nonces : served'[m] <= 1 + restarts /\ (m \notin seen => served'[m] <= restarts)
      BY <1>3, <1>7, <1>12 DEF OnceInv
    <2>2. ASSUME NEW d \in Calls, NEW j \in Copies, gate'[<<d, j>>] = "upstream"
          PROVE  /\ nonce[d] \in seen /\ served'[nonce[d]] <= restarts
                 /\ \A k \in Copies : gate'[<<d, k>>] = "upstream" => j = k
      <3>1. d # c
        BY <1>11, <2>2
      <3>2. \A k \in Copies : gate'[<<d, k>>] = gate[<<d, k>>]
        BY <1>9, <3>1
      <3>3. nonce[d] \in Nonces \ {n}
        BY <1>9, <2>2, <3>1
      <3> QED
        BY <1>7, <2>2, <3>2, <3>3 DEF OnceInv
    <2> QED
      BY <1>1, <2>1, <2>2 DEF OnceInv
  <1> QED
    BY <1>1, <1>2, <1>5, <1>7, <1>8, <1>10, <1>12, <1>13, RuntimeKeeps DEF TypeOK, RuntimeTypeOK

LEMMA RuntimeCrashStep ==
  ASSUME IInv, UNCHANGED <<call, wallet, keyed>>, RuntimeCrash
  PROVE  IInv'
  <1> USE DEF IInv
  <1>1. /\ seen' = {} /\ restarts' = restarts + 1 /\ restarts \in Nat /\ faults' \in Nat
        /\ UNCHANGED <<chain, nonce, served>>
        /\ served \in [Nonces -> Nat]
    BY DEF RuntimeCrash, Fault, TypeOK, RuntimeTypeOK
  <1>2. gate' \in [Request -> GateState]
    BY DEF RuntimeCrash, TypeOK, RuntimeTypeOK
  <1>3. \A c \in Calls, j \in Copies :
            /\ gate'[<<c, j>>] # "upstream"
            /\ gate'[<<c, j>>] = "answered" => gate[<<c, j>>] = "answered"
            /\ gate'[<<c, j>>] # "none" => gate[<<c, j>>] # "none"
    BY DEF RuntimeCrash, Request
  <1>4. GateInv' /\ NonceInv'
    BY <1>1, <1>3 DEF GateInv, NonceInv
  <1>5. OnceInv'
    BY <1>1, <1>3 DEF OnceInv
  <1>6. \A n \in Nonces : served'[n] >= served[n]
    BY <1>1
  <1> QED
    BY <1>1, <1>2, <1>4, <1>5, <1>6, RuntimeKeeps

LEMMA StepIInv == IInv /\ [Next]_vars => IInv'
  <1> SUFFICES ASSUME IInv, [Next]_vars PROVE IInv'
    OBVIOUS
  <1>1. ASSUME NEW c \in Calls, NEW r \in CallInput, Start(c, r) PROVE IInv'
    BY <1>1, StartStep
  <1>2. ASSUME NEW c \in Calls, BridgeStep(c) PROVE IInv'
    BY <1>2, BridgeChecks, SubmitStep, RetryStep, StoreStep DEF BridgeStep
  <1>3. ASSUME NEW c \in Calls,
               AwaitFails(c) \/ Land(c) \/ Reject(c) \/ Expire(c) \/ Duplicate(c) PROVE IInv'
    BY <1>3, FailStep, SettleStep, DuplicateStep
  <1>4. ASSUME NEW q \in Request, RuntimeStep(q), UNCHANGED <<call, wallet, keyed>> PROVE IInv'
    <2>1. PICK c \in Calls, i \in Copies : q = <<c, i>>
      BY <1>4 DEF Request
    <2> QED
      BY <1>4, <2>1, VerifyStep, AnswerStep DEF RuntimeStep
  <1>5. CASE RuntimeCrash /\ UNCHANGED <<call, wallet, keyed>>
    BY <1>5, RuntimeCrashStep
  <1>6. CASE BridgeCrash
    BY <1>6, BridgeCrashStep
  <1>7. CASE UNCHANGED vars
    BY <1>7 DEF vars, IInv, TypeOK, RuntimeTypeOK, gateVars, NonceInv, GateInv,
                OnceInv, Progress, Named,
                ReceiptsEarned, KeyBinds, SameRequest
  <1> QED
    BY <1>1, <1>2, <1>3, <1>4, <1>5, <1>6, <1>7 DEF Next

LEMMA Invariance == Spec => []IInv
  BY InitIInv, StepIInv, PTL DEF Spec

-----------------------------------------------------------------------------
(* Without a fault.  A call pays only at its own stages, its one request is *)
(* answered, and it ends without a receipt only if its key was taken.  So a  *)
(* later call with its key finds the key taken and does not pay.             *)

Early == {"idle", "unpaid", "balances", "submit", "confirm", "paid"}
MayPay(c) == call[c].stage \in {"unpaid", "balances", "submit"} \/ chain[c] \in {"sent", "landed"}
SameKey(c, d) == /\ call[c].stage # "idle" /\ call[d].stage # "idle"
                 /\ call[c].input.key = call[d].input.key
Beside(c, d) == c \in call[d].peers \/ d \in call[c].peers

GateCalm ==
    \A c \in Calls, i \in Copies :
        /\ call[c].stage \in Early => nonce[c] \notin seen /\ gate[<<c, i>>] = "none"
        /\ gate[<<c, i>>] # "none" =>
              /\ \A j \in Copies : i <= j
              /\ chain[c] = "landed"
              /\ gate[<<c, i>>] \in {"verifying", "upstream", "answered"}
              /\ gate[<<c, i>>] = "verifying" => nonce[c] \notin seen

StageCalm ==
    \A c \in Calls :
        /\ chain[c] = "sent" => call[c].stage = "confirm"
        /\ call[c].stage # "lost"
        /\ call[c].stage = "returned" => call[c].answer # None

OnePays ==
    \A c, d \in Calls : c # d /\ SameKey(c, d) /\ MayPay(c) /\ MayPay(d) => Beside(c, d)

Calm == faults = 0 /\ AllowRealPayment => GateCalm /\ StageCalm /\ OnePays /\ ChargedIsAnswered

\* A call goes on to a stage that takes it no nearer to a payment.
LEMMA CalmMove ==
  ASSUME IInv, Calm, faults = 0, AllowRealPayment, NEW c \in Calls, NEW s \in Stage, GoTo(c, s),
         UNCHANGED <<chain, gate, seen, keyed>>,
         \A d \in Calls : nonce'[d] \in seen => nonce'[d] = nonce[d],
         call[c].stage # "idle", s \notin {"idle", "lost", "returned"},
         s \in Early => call[c].stage \in Early,
         s \in {"unpaid", "balances", "submit"} => MayPay(c),
         chain[c] = "sent" => s = "confirm",
         s = "threw" /\ chain[c] = "landed" =>
            /\ keyed[call[c].input.key] # None
            /\ ~SameRequest(keyed[call[c].input.key], call[c].input)
  PROVE  Calm'
  <1>1. /\ call'[c].stage = s /\ call'[c].input = call[c].input
        /\ call'[c].answer = call[c].answer /\ call'[c].peers = call[c].peers
        /\ \A d \in Calls \ {c} : call'[d] = call[d]
    BY DEF GoTo, IInv, TypeOK
  <1>2. GateCalm /\ StageCalm /\ OnePays /\ ChargedIsAnswered
    BY DEF Calm
  <1>3. GateCalm'
    BY <1>1, <1>2 DEF GateCalm, Early
  <1>4. StageCalm'
    BY <1>1, <1>2 DEF StageCalm
  <1>5. OnePays'
    <2>1. \A d \in Calls : MayPay(d)' => MayPay(d)
      BY <1>1 DEF MayPay
    <2>2. \A d, e \in Calls : (SameKey(d, e)' => SameKey(d, e)) /\ (Beside(d, e) => Beside(d, e)')
      BY <1>1 DEF SameKey, Beside
    <2> QED
      BY <1>2, <2>1, <2>2 DEF OnePays
  <1>6. ChargedIsAnswered'
    BY <1>1, <1>2 DEF ChargedIsAnswered, SameRequest
  <1> QED
    BY <1>3, <1>4, <1>5, <1>6 DEF Calm

\* A call that has ended keeps its key for itself if it was charged.
LEMMA KeyTaken ==
  ASSUME IInv, Calm, faults = 0, AllowRealPayment, NEW d \in Calls, call[d].stage \in Ended, MayPay(d)
  PROVE  keyed[call[d].input.key] # None
  <1>1. chain[d] = "landed"
    BY DEF Calm, StageCalm, MayPay
  <1>2. call[d].stage \notin {"replayed", "lost"}
    BY <1>1, CallConstants DEF Calm, StageCalm, IInv, TypeOK
  <1>3. CASE call[d].stage = "threw"
    BY <1>1, <1>3 DEF Calm, ChargedIsAnswered
  <1>4. CASE call[d].stage = "returned"
    BY <1>4 DEF Calm, StageCalm, IInv, KeyBinds
  <1> QED
    BY <1>2, <1>3, <1>4

LEMMA CalmStart ==
  ASSUME IInv, Calm, faults = 0, AllowRealPayment, NEW c \in Calls, NEW r \in CallInput, Start(c, r)
  PROVE  Calm'
  <1>1. /\ call[c].stage = "idle" /\ chain[c] = None
        /\ UNCHANGED <<chain, gate, nonce, seen, faults, keyed>>
        /\ call'[c].stage = FirstStage(r) /\ call'[c].input = r
        /\ call'[c].peers = {d \in Calls : Running(d)}
        /\ \A d \in Calls \ {c} : call'[d] = call[d]
    BY DEF Start, Env, gateVars, IInv, TypeOK
  <1>2. /\ FirstStage(r) \in {"unpaid", "replayed", "threw"}
        /\ FirstStage(r) = "unpaid" => keyed[r.key] = None
    BY DEF FirstStage
  <1>3. GateCalm /\ StageCalm /\ OnePays /\ ChargedIsAnswered
    BY DEF Calm
  <1>4. chain[c] \notin {"sent", "landed"}
    BY <1>1, CallConstants
  <1>5. GateCalm'
    BY <1>1, <1>3 DEF GateCalm, Early
  <1>6. StageCalm'
    BY <1>1, <1>2, <1>3, <1>4 DEF StageCalm
  <1>7. OnePays'
    <2>1. \A d \in Calls \ {c} : (MayPay(d)' <=> MayPay(d))
      BY <1>1 DEF MayPay
    <2>2. MayPay(c)' => keyed[r.key] = None
      BY <1>1, <1>2, <1>4 DEF MayPay
    <2>3. ASSUME NEW d \in Calls \ {c}, SameKey(c, d)', MayPay(c)', MayPay(d)'
          PROVE  d \in call'[c].peers
      <3>1. call[d].stage # "idle" /\ call[d].input.key = r.key /\ MayPay(d)
        BY <1>1, <2>1, <2>3 DEF SameKey
      <3>2. call[d].stage \notin Ended
        BY <2>2, <2>3, <3>1, KeyTaken
      <3> QED
        BY <1>1, <3>1, <3>2 DEF Running
    <2>4. \A d, e \in Calls \ {c} : /\ SameKey(d, e)' => SameKey(d, e)
                                    /\ Beside(d, e) => Beside(d, e)'
      BY <1>1 DEF SameKey, Beside
    <2> SUFFICES ASSUME NEW d \in Calls, NEW e \in Calls, d # e, SameKey(d, e)', MayPay(d)', MayPay(e)'
                 PROVE  Beside(d, e)'
      BY DEF OnePays
    <2>5. CASE d = c
      BY <2>3, <2>5 DEF Beside
    <2>6. CASE e = c
      BY <2>3, <2>6 DEF Beside, SameKey
    <2>7. CASE d # c /\ e # c
      BY <1>3, <2>1, <2>4, <2>7 DEF OnePays
    <2> QED
      BY <2>5, <2>6, <2>7
  <1>8. ChargedIsAnswered'
    BY <1>1, <1>3, <1>4 DEF ChargedIsAnswered, SameRequest
  <1> QED
    BY <1>5, <1>6, <1>7, <1>8 DEF Calm

\* The steps of a call up to its transfer, and its failures.
LEMMA CalmChecks ==
  ASSUME IInv, Calm, faults = 0, AllowRealPayment, NEW c \in Calls,
         Challenge(c) \/ ReadBalances(c) \/ Confirm(c) \/ RetryFailed(c)
  PROVE  Calm'
  <1> USE DEF Env, gateVars
  <1>1. CASE Challenge(c)
    <2>1. PICK s \in {"balances", "threw"} : GoTo(c, s)
      BY <1>1 DEF Challenge
    <2>2. call[c].stage = "unpaid" /\ chain[c] = None /\ UNCHANGED <<chain, gate, seen, keyed>>
      BY <1>1 DEF Challenge, IInv, TypeOK
    <2>3. \A d \in Calls : nonce'[d] \in seen => nonce'[d] = nonce[d]
      BY <1>1, FreshNonce
    <2> QED
      BY <2>1, <2>2, <2>3, CallConstants, CalmMove DEF Early, MayPay
  <1>2. CASE ReadBalances(c)
    <2>1. PICK s \in {"submit", "threw"} : GoTo(c, s)
      BY <1>2 DEF ReadBalances
    <2>2. /\ call[c].stage = "balances" /\ chain[c] = None
          /\ UNCHANGED <<chain, gate, nonce, seen, keyed>>
      BY <1>2 DEF ReadBalances, IInv, TypeOK
    <2> QED
      BY <2>1, <2>2, CallConstants, CalmMove DEF Early, MayPay
  <1>3. CASE Confirm(c)
    <2>1. PICK s \in {"paid", "threw"} : GoTo(c, s) /\ (s = "threw" => chain[c] # "landed")
      BY <1>3 DEF Confirm
    <2>2. /\ call[c].stage = "confirm" /\ chain[c] # "sent"
          /\ UNCHANGED <<chain, gate, nonce, seen, keyed>>
      BY <1>3 DEF Confirm
    <2> QED
      BY <2>1, <2>2, CalmMove DEF Early
  <1>4. CASE RetryFailed(c)
    BY <1>4 DEF RetryFailed, Unanswered, Calm, GateCalm
  <1> QED
    BY <1>1, <1>2, <1>3, <1>4

LEMMA CalmSubmit ==
  ASSUME IInv, Calm, faults = 0, AllowRealPayment, NEW c \in Calls, SubmitUsdcTransfer(c)
  PROVE  Calm'
  <1>1. /\ call[c].stage = "submit" /\ UNCHANGED <<gate, nonce, seen, keyed>>
        /\ call'[c].stage = "confirm" /\ call'[c].input = call[c].input
        /\ call'[c].answer = call[c].answer /\ call'[c].peers = call[c].peers
        /\ \A d \in Calls \ {c} : call'[d] = call[d]
        /\ chain'[c] = "sent" /\ \A d \in Calls \ {c} : chain'[d] = chain[d]
    BY DEF SubmitUsdcTransfer, GoTo, gateVars, IInv, TypeOK, RuntimeTypeOK
  <1>2. GateCalm /\ StageCalm /\ OnePays /\ ChargedIsAnswered
    BY DEF Calm
  <1>3. GateCalm'
    BY <1>1, <1>2 DEF GateCalm, Early
  <1>4. StageCalm'
    BY <1>1, <1>2 DEF StageCalm
  <1>5. OnePays'
    <2>1. \A d \in Calls : MayPay(d)' => MayPay(d)
      BY <1>1 DEF MayPay
    <2>2. \A d, e \in Calls : (SameKey(d, e)' => SameKey(d, e)) /\ (Beside(d, e) => Beside(d, e)')
      BY <1>1 DEF SameKey, Beside
    <2> QED
      BY <1>2, <2>1, <2>2 DEF OnePays
  <1>6. ChargedIsAnswered'
    BY <1>1, <1>2 DEF ChargedIsAnswered, SameRequest
  <1> QED
    BY <1>3, <1>4, <1>5, <1>6 DEF Calm

\* The one paid request of a call.
LEMMA CalmRetry ==
  ASSUME IInv, Calm, faults = 0, AllowRealPayment, NEW c \in Calls, Retry(c)
  PROVE  Calm'
  <1>1. PICK i \in Copies : (\A j \in Copies : i <= j) /\ Receive(<<c, i>>)
    BY DEF Retry
  <1>2. /\ call[c].stage = "paid" /\ chain[c] = "landed" /\ UNCHANGED <<chain, nonce, seen, keyed>>
        /\ call'[c].stage = "response" /\ call'[c].input = call[c].input
        /\ call'[c].answer = call[c].answer /\ call'[c].peers = call[c].peers
        /\ \A d \in Calls \ {c} : call'[d] = call[d]
    BY DEF Retry, GoTo, IInv, TypeOK, Progress
  <1>3. /\ gate'[<<c, i>>] = "verifying"
        /\ \A d \in Calls, j \in Copies : ~(d = c /\ j = i) => gate'[<<d, j>>] = gate[<<d, j>>]
    BY <1>1 DEF Receive, Becomes, IInv, TypeOK, RuntimeTypeOK, Request
  <1>4. GateCalm /\ StageCalm /\ OnePays /\ ChargedIsAnswered
    BY DEF Calm
  <1>5. GateCalm'
    <2>1. nonce[c] \notin seen /\ \A j \in Copies : gate[<<c, j>>] = "none"
      BY <1>1, <1>2, <1>4 DEF GateCalm, Early
    <2> SUFFICES ASSUME NEW d \in Calls, NEW j \in Copies
                 PROVE  /\ call'[d].stage \in Early => nonce'[d] \notin seen' /\ gate'[<<d, j>>] = "none"
                        /\ gate'[<<d, j>>] # "none" =>
                             /\ \A k \in Copies : j <= k
                             /\ chain'[d] = "landed"
                             /\ gate'[<<d, j>>] \in {"verifying", "upstream", "answered"}
                             /\ gate'[<<d, j>>] = "verifying" => nonce'[d] \notin seen'
      BY DEF GateCalm
    <2>2. CASE d = c
      BY <1>1, <1>2, <1>3, <2>1, <2>2 DEF Early
    <2>3. CASE d # c
      BY <1>2, <1>3, <1>4, <2>3 DEF GateCalm
    <2> QED
      BY <2>2, <2>3
  <1>6. StageCalm'
    BY <1>2, <1>4 DEF StageCalm
  <1>7. OnePays'
    <2>1. \A d \in Calls : MayPay(d)' => MayPay(d)
      BY <1>2 DEF MayPay
    <2>2. \A d, e \in Calls : (SameKey(d, e)' => SameKey(d, e)) /\ (Beside(d, e) => Beside(d, e)')
      BY <1>2 DEF SameKey, Beside
    <2> QED
      BY <1>4, <2>1, <2>2 DEF OnePays
  <1>8. ChargedIsAnswered'
    BY <1>2, <1>4 DEF ChargedIsAnswered, SameRequest
  <1> QED
    BY <1>5, <1>6, <1>7, <1>8 DEF Calm

LEMMA CalmStore ==
  ASSUME IInv, Calm, faults = 0, AllowRealPayment, NEW c \in Calls, Store(c)
  PROVE  Calm'
  <1> DEFINE r == call[c].input
             receipt == [key |-> r.key, body |-> r.body, max |-> r.max, call |-> c]
  <1>1. /\ call[c].stage = "response" /\ chain[c] = "landed" /\ r \in CallInput
        /\ UNCHANGED <<chain, gate, nonce, seen>>
        /\ \A k \in Keys : keyed[k] # None => keyed'[k] = keyed[k]
    BY DEF Store, Env, gateVars, IInv, TypeOK, Progress, KeyFree
  <1>2. r.key \in Keys /\ receipt \in Receipt
    BY <1>1 DEF CallInput, Receipt
  <1>3. CASE ~KeyFree(r) /\ ~SameRequest(keyed[r.key], r)
    BY <1>1, <1>3, CalmMove DEF Store, KeyFree, Early
  <1>4. CASE KeyFree(r) \/ SameRequest(keyed[r.key], r)
    <2>1. /\ call'[c].stage = "returned" /\ call'[c].input = r
          /\ call'[c].answer \in {receipt, keyed[r.key]} \ {None}
          /\ call'[c].peers = call[c].peers
          /\ \A d \in Calls \ {c} : call'[d] = call[d]
      <3>1. receipt # None
        BY <1>2, NoReceipt
      <3>2. \E answer \in {receipt, keyed[r.key]} \ {None} :
               call' = [call EXCEPT ![c].stage = "returned", ![c].answer = answer]
        BY <1>4, <3>1 DEF Store, KeyFree
      <3> HIDE DEF receipt
      <3> QED
        BY <3>2 DEF IInv, TypeOK
    <2>2. GateCalm /\ StageCalm /\ OnePays /\ ChargedIsAnswered
      BY DEF Calm
    <2> HIDE DEF r, receipt
    <2>3. GateCalm'
      BY <1>1, <2>1, <2>2 DEF GateCalm, Early
    <2>4. StageCalm'
      BY <1>1, <2>1, <2>2, CallConstants DEF StageCalm
    <2>5. OnePays'
      <3>1. \A d \in Calls : MayPay(d)' => MayPay(d)
        BY <1>1, <2>1 DEF MayPay
      <3>2. \A d, e \in Calls : (SameKey(d, e)' => SameKey(d, e)) /\ (Beside(d, e) => Beside(d, e)')
        BY <1>1, <2>1 DEF SameKey, Beside, r
      <3> QED
        BY <2>2, <3>1, <3>2 DEF OnePays
    <2>6. ChargedIsAnswered'
      <3> SUFFICES ASSUME NEW d \in Calls, call'[d].stage = "threw", chain[d] = "landed"
                   PROVE  /\ keyed'[call'[d].input.key] # None
                          /\ ~SameRequest(keyed'[call'[d].input.key], call'[d].input)
        BY <1>1 DEF ChargedIsAnswered, SameRequest
      <3>1. d # c /\ call'[d] = call[d] /\ call[d].input \in CallInput
        BY <2>1 DEF IInv, Progress
      <3>2. call[d].input.key \in Keys
        BY <3>1 DEF CallInput
      <3>3. /\ keyed[call[d].input.key] # None
            /\ ~SameRequest(keyed[call[d].input.key], call[d].input)
        BY <2>2, <3>1 DEF ChargedIsAnswered
      <3> QED
        BY <1>1, <3>1, <3>2, <3>3
    <2> QED
      BY <2>3, <2>4, <2>5, <2>6 DEF Calm
  <1> QED
    BY <1>3, <1>4

LEMMA CalmSettle ==
  ASSUME IInv, Calm, faults = 0, AllowRealPayment, NEW c \in Calls, Land(c) \/ Reject(c)
  PROVE  Calm'
  <1>1. /\ chain[c] = "sent" /\ UNCHANGED <<gate, nonce, seen, call, keyed>>
        /\ chain'[c] \in {"landed", "dropped"}
        /\ \A d \in Calls \ {c} : chain'[d] = chain[d]
    BY DEF Land, Reject, gateVars, IInv, TypeOK, RuntimeTypeOK
  <1>2. GateCalm /\ StageCalm /\ OnePays /\ ChargedIsAnswered
    BY DEF Calm
  <1>3. GateCalm'
    BY <1>1, <1>2 DEF GateCalm
  <1>4. StageCalm'
    BY <1>1, <1>2 DEF StageCalm
  <1>5. OnePays'
    <2>1. \A d \in Calls : MayPay(d)' => MayPay(d)
      BY <1>1 DEF MayPay
    <2> QED
      BY <1>1, <1>2, <2>1 DEF OnePays, SameKey, Beside
  <1>6. ChargedIsAnswered'
    BY <1>1, <1>2 DEF ChargedIsAnswered, SameRequest, StageCalm
  <1> QED
    BY <1>3, <1>4, <1>5, <1>6 DEF Calm

\* Without a fault the runtime finds the transfer and the nonce unused.
LEMMA CalmRuntime ==
  ASSUME IInv, Calm, faults = 0, AllowRealPayment, NEW c \in Calls, NEW i \in Copies,
         Verify(<<c, i>>) \/ Answer(<<c, i>>), UNCHANGED <<call, wallet, keyed>>
  PROVE  Calm'
  <1>1. /\ UNCHANGED <<chain, nonce, call, keyed>>
        /\ gate[<<c, i>>] \in {"verifying", "upstream"}
        /\ <<c, i>>[1] = c /\ <<c, i>> \in Request
    BY DEF Verify, Answer, Request
  <1>2. GateCalm /\ StageCalm /\ OnePays /\ ChargedIsAnswered
    BY DEF Calm
  <1>3. /\ chain[c] = "landed" /\ call[c].stage \notin Early
        /\ \A j \in Copies : i <= j
        /\ gate[<<c, i>>] = "verifying" => nonce[c] \notin seen
    BY <1>1, <1>2 DEF GateCalm
  <1>4. /\ \/ gate' = [gate EXCEPT ![<<c, i>>] = "upstream"]
           \/ gate' = [gate EXCEPT ![<<c, i>>] = "answered"]
        /\ seen' \in {seen, seen \cup {nonce[c]}}
    BY <1>1, <1>3 DEF Verify, Answer, Settles, NonceFree, Becomes
  <1>5. /\ gate'[<<c, i>>] \in {"upstream", "answered"}
        /\ \A d \in Calls, j \in Copies : ~(d = c /\ j = i) => gate'[<<d, j>>] = gate[<<d, j>>]
    BY <1>1, <1>4 DEF IInv, TypeOK, RuntimeTypeOK, Request
  <1>6. GateCalm'
    <2> SUFFICES ASSUME NEW d \in Calls, NEW j \in Copies
                 PROVE  /\ call[d].stage \in Early => nonce'[d] \notin seen' /\ gate'[<<d, j>>] = "none"
                        /\ gate'[<<d, j>>] # "none" =>
                             /\ \A k \in Copies : j <= k
                             /\ chain[d] = "landed"
                             /\ gate'[<<d, j>>] \in {"verifying", "upstream", "answered"}
                             /\ gate'[<<d, j>>] = "verifying" => nonce'[d] \notin seen'
      BY <1>1 DEF GateCalm
    <2>1. CASE d = c /\ j = i
      BY <1>3, <1>5, <2>1
    <2>2. CASE d = c /\ j # i
      <3>1. gate[<<d, j>>] # "none" => j <= i
        BY <1>2 DEF GateCalm
      <3>2. i <= j /\ i \in Nat /\ j \in Nat
        BY <1>3, CallConstants
      <3>3. gate[<<d, j>>] = "none"
        BY <2>2, <3>1, <3>2
      <3> QED
        BY <1>3, <1>5, <2>2, <3>3
    <2>3. CASE d # c
      <3>1. nonce[d] # nonce[c] /\ nonce'[d] = nonce[d]
        BY <1>1, <2>3 DEF IInv, NonceInv
      <3> QED
        BY <1>1, <1>2, <1>4, <1>5, <2>3, <3>1 DEF GateCalm
    <2> QED
      BY <2>1, <2>2, <2>3
  <1>7. StageCalm' /\ OnePays' /\ ChargedIsAnswered'
    BY <1>1, <1>2 DEF StageCalm, OnePays, MayPay, SameKey, Beside, ChargedIsAnswered, SameRequest
  <1> QED
    BY <1>6, <1>7 DEF Calm

LEMMA CalmInit == Init => Calm
  <1> SUFFICES ASSUME Init PROVE GateCalm /\ StageCalm /\ OnePays /\ ChargedIsAnswered
    BY DEF Calm
  <1> QED
    BY CallConstants DEF Init, RuntimeInit, Request, GateCalm, StageCalm, OnePays, SameKey,
                         ChargedIsAnswered

LEMMA CalmNext == IInv /\ Calm /\ [Next]_vars => Calm'
  <1> SUFFICES ASSUME IInv, Calm, [Next]_vars, faults' = 0, AllowRealPayment PROVE Calm'
    BY DEF Calm
  <1>1. ~Fault
    BY DEF Fault, IInv, TypeOK, RuntimeTypeOK
  <1>2. CASE UNCHANGED vars
    BY <1>2 DEF vars, gateVars, Calm, GateCalm, StageCalm, OnePays, MayPay, SameKey, Beside,
                ChargedIsAnswered, SameRequest
  <1>3. ASSUME NEW c \in Calls, \E r \in CallInput : Start(c, r) PROVE Calm'
    BY <1>3, CalmStart DEF Start, Env
  <1>4. ASSUME NEW c \in Calls, BridgeStep(c) PROVE Calm'
    <2>1. faults = 0
      BY <1>4 DEF BridgeStep, Challenge, ReadBalances, SubmitUsdcTransfer, Confirm, Retry, Store,
                  RetryFailed, Env
    <2> QED
      BY <1>4, <2>1, CalmChecks, CalmSubmit, CalmRetry, CalmStore DEF BridgeStep
  <1>5. ASSUME NEW c \in Calls, Land(c) \/ Reject(c) PROVE Calm'
    BY <1>5, CalmSettle DEF Land, Reject
  <1>6. ASSUME NEW q \in Request, Verify(q) \/ Answer(q), UNCHANGED <<call, wallet, keyed>>
        PROVE  Calm'
    <2>1. PICK c \in Calls, i \in Copies : q = <<c, i>>
      BY <1>6 DEF Request
    <2> QED
      BY <1>6, <2>1, CalmRuntime DEF Verify, Answer
  <1> QED
    BY <1>1, <1>2, <1>3, <1>4, <1>5, <1>6 DEF Next, AwaitFails, Expire, Duplicate, RuntimeStep,
       VerifyTooEarly, RuntimeCrash, BridgeCrash

LEMMA CalmInvariance == Spec => []Calm
  BY CalmInit, CalmNext, Invariance, PTL DEF Spec

\* Every variable keeps its type, and nothing is transferred before the checks
\* of executeDevnetUsdcPayment have passed.
THEOREM CallTypeCorrect == Spec => []TypeOK
  <1>1. IInv => TypeOK
    BY DEF IInv
  <1> QED
    BY <1>1, Invariance, PTL

\* However often and in whatever interleaving receipts that name a nonce are
\* presented, one life of the runtime answers the nonce once.
THEOREM NonceServedOnce == Spec => []ServedOnce
  <1>1. IInv => ServedOnce
    BY DEF IInv, OnceInv, ServedOnce
  <1> QED
    BY <1>1, Invariance, PTL

\* A receipt in store.json was paid for within its cap and answered.
THEOREM StoredReceiptsEarned == Spec => []ReceiptsEarned
  <1>1. IInv => ReceiptsEarned
    BY DEF IInv
  <1> QED
    BY <1>1, Invariance, PTL

\* An idempotency key is answered with one receipt, for one request.
THEOREM IdempotencyKeysBind == Spec => []KeyBinds
  <1>1. IInv => KeyBinds
    BY DEF IInv
  <1> QED
    BY <1>1, Invariance, PTL

\* Without a fault, and with a specialist that accepts real payments, two calls
\* that paid under one key overlapped.
THEOREM KeyPaidOnce == Spec => []PaidOnceUnlessDisturbed
  <1>1. IInv /\ Calm => PaidOnceUnlessDisturbed
    <2> SUFFICES ASSUME IInv, Calm, faults = 0, AllowRealPayment,
                        NEW c \in Calls, NEW d \in Calls, c # d,
                        chain[c] = "landed", chain[d] = "landed",
                        call[c].input.key = call[d].input.key
                 PROVE  Beside(c, d)
      BY DEF PaidOnceUnlessDisturbed, Beside, IInv, TypeOK, RuntimeTypeOK
    <2>1. call[c].stage # "idle" /\ call[d].stage # "idle"
      BY CallConstants DEF IInv, TypeOK
    <2> QED
      BY <2>1 DEF Calm, OnePays, MayPay, SameKey
  <1> QED
    BY <1>1, Invariance, CalmInvariance, PTL

\* Without a fault, and with a specialist that accepts real payments, only another
\* request under its key keeps a charged call from its answer.
THEOREM ChargedCallAnswered == Spec => []ChargedIsAnswered
  <1>1. Calm => ChargedIsAnswered
    BY DEF Calm, ChargedIsAnswered
  <1> QED
    BY <1>1, CalmInvariance, PTL
=============================================================================
