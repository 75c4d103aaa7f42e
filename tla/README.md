# TLA+ models and proofs for the Reddi Agent Protocol

The Reddi Agent Protocol (RAP) is a layer for paid work between software agents on Solana
devnet: an on-chain escrow and reputation program, a local MCP bridge that pays specialists,
a runtime that specialists run behind an HTTP 402 payment gate, and around them a web
application, onboarding code, conformance fixtures and historical experiments.  This directory
holds TLA+ models of the parts that keep state and can go wrong, TLC configurations that check
them, and TLAPS proofs of what matters most for every value of the parameters.

Contents: 1 the system; 2 the modules; 3 the runs; 4 fairness; 5 the proofs; 6 where documents
and code disagree; 7 what is not modelled; 8 the plan; 9 how to run it.

## 1. The system

### Components, state, operations

| component | state | operations | hard part |
|---|---|---|---|
| `programs/escrow`, escrow instructions (Anchor, authoritative) | one `EscrowAccount` per (payer, nonce) PDA, with lamports | `lock_escrow`, `release_escrow`, `release_escrow_per`, `delegate_escrow`, `cancel_escrow` | PDAs are closed and made again; L1 and delegated settlement race; slots as time |
| agent registry | one `AgentAccount` per owner | `register_agent`, `update_agent`, `deregister_agent` | an account disappears while other records refer to it |
| blind ratings | one `RatingAccount` per job | `commit_rating`, `reveal_rating`, `expire_rating` | commit-reveal order, a party that ghosts, two accounts written at once |
| judge attestations | one `AttestationAccount` per job | `attest_quality`, `confirm_attestation`, `dispute_attestation` | shares `AgentAccount` with ratings |
| `packages/rap-mcp-bridge` | `store.json`: quotes, devnet receipts, specialist receipts, idempotency keys | MCP tools; `execute_devnet_payment` and `execute_x402_specialist_call` spend money | many awaits between check and write; timeouts after which a transfer still lands; crash and retry |
| `packages/openrouter-specialists` | replay store of nonces, in process memory | `handleChatCompletions` behind the 402 gate | duplicated requests, restart with an empty store, upstream failure after the nonce is taken |
| `packages/x402-solana` | none of its own (nonce and transfer stores are passed in) | challenge, client payment, receipt verification | verification awaits an RPC node that may lag |
| `packages/agent-protocol` | onboarding state and its event log (passed in) | 12-state onboarding transition function; validators and fixtures | gates and operator-only targets |
| `lib/onboarding` | JSON files read and rewritten by API routes: runs, spend, feedback, salts, endpoint profile, registries | invoke a specialist and retry, rate a run and reveal the rating, rotate and probe an endpoint | files read before an await and written after it; payments, salts and tokens that a crash or an exception forgets |
| `experiments/quasar*` | frozen on-chain programs | earlier escrow, reputation, vault | the repository keeps them as history |
| `app`, `components`, `lib/manager`, `lib/registry`, adapters, demo agents, scripts, docs | read models, pages, reports | | no protocol state |

`PROJECT.json` lists every component with the files read, its status and the reason.

### How they interact

* A caller's wallet locks lamports in the escrow program and later releases them to the payee;
  a MagicBlock TEE may be given a session key that also releases.  The program has no shared
  state between escrow and reputation: a job id ties a rating and an attestation together by
  convention only.
* Ratings, attestations and the registry share one `AgentAccount` per wallet.  Solana applies
  an instruction wholly or not at all and serialises instructions that write one account, in an
  order nobody chooses.
* The bridge is a Node process: tool calls overlap at every `await`.  It reads and rewrites
  `store.json` synchronously, submits transactions to an RPC node, and sends HTTP requests to a
  specialist runtime.
* The web application is one Node server process.  A file is read and rewritten without an await in
  between, so requests never lose an update inside one such rewrite; they interleave at their
  awaits (HTTP calls to specialists, confirmations from an RPC node, probes).  Ratings of the
  planner are commitments in the escrow program, with the operator as the consumer of the job.
* The runtime answers an unpaid request with a 402 challenge (fresh nonce, price, payee), and a
  paid one after it found a transfer of the price on the cluster and took the nonce in its replay
  store.  It remembers neither the nonces it issued nor the transfers it has seen (section 6).

### What makes each part correct

* Escrow: money leaves a wallet only into a deal that wallet opened; every deal ends once, with
  the payee paid in full or, the window over, the payer; nothing is lost or created; a payer is
  never locked out after the window.
* Ratings: no score is public before both are fixed, commitments bind, final records are final,
  a record counts once, in one account, and reputation changes only with a cause and within its
  bounds.  That every pending rating is resolved is not among them: somebody has to send
  `expire_rating`, and nothing in the repository does.
* Bridge: what the store says was paid was paid; one answer per quote and key; spending within
  the cap; a retry does not pay twice.  The last holds only without faults (section 6).
* Payment gate: a nonce is answered once in the life of a process; a charged call is answered.
* Bridge file: no answer the tools gave is forgotten, no key is answered twice - as long as no two
  processes overlap and no rewrite is cut short; whatever happens, a store that parses is coherent.
* Onboarding machine: the log rebuilds the read model, a candidate was reviewed, time is in order.
* Planner: runs, payments and spend agree but for named failures; retries and the daily budget bound
  what is spent; commitments on chain can be opened; a rotated token stays rotated; invokes end.

The hazards behind these - every place where this code is exposed to an order, a failure or a
boundary that a test would hardly reach - are in `PROJECT.json` under `hazards`, each at its
line, with the properties that would notice it.  Those without a property say why.

## 2. The modules

### Escrow: `AnchorEscrow`, `EscrowLedger`, `MCAnchorEscrow`, `AnchorEscrowProofs`

`AnchorEscrow` has the clock (`slot`), the lamports of wallets (`balance`), the account at each
PDA (`escrow`, a record with the fields of `state.rs` plus its lamports), a history counter
`locks`, and a history `grants` of every delegation: who signed it, for which lock of which PDA, and
the key.  `DelegationFresh` reads an open account against the grants since its lock.  One action per instruction; an Anchor constraint (`init`, `has_one`, `seeds`, `close`)
or a `require!` is a conjunct of its guard, because a failing one undoes the transaction.
`LockEscrow` moves rent and amount into a fresh account, `SettleTo` is the shared tail of both
releases and of the cancellation: credit, then `close = payer`, subject to the runtime's rule
that a credited account must end rent-exempt.  `CanCancel` is everything `cancel_escrow` asks of its
caller, the runtime's rules included, so that `RefundReachable` can say "the payer meets it"; `CanReveal`
of `RatingBoard` is the same for `reveal_rating`.  `payer = payee` is allowed, as in the code.

`EscrowLedger` is what the program promises: deals with a payee, an amount and a maturity, no
accounts, rent, delegation or signers.  `ImplementsLedger` is the refinement: the ledger's wallet
is the balance plus the rent parked in open accounts, a deal is mature when the cancel window is
over.  It is checked by TLC and proved.

### Reputation: `ReputationArithmetic`, `AgentRegistry`, `RatingBoard`, `AttestationDesk`, `AnchorReputation`, `ReputationMeter` and `MCAnchorReputation`, `AnchorReputationProofs`, `ReputationRecordsProofs`

`ReputationArithmetic` is the u16 arithmetic (rolling average with truncating division, saturating
penalty).  `AgentRegistry`, `RatingBoard` and `AttestationDesk` have the three instruction groups;
`AnchorReputation` composes them over one `agent` function and states the properties.  A
commitment is the opening it hides (sha256 taken as injective), and `ZeroHash` - the 32 zero bytes
the code uses for "not committed" - may be passed as a commitment, as the code allows.  Model
string, rate and minimum reputation are abstracted: no instruction reads them (the length check
stays).  Of the five attestation scores the range check stays.  `retired` is a history of what the
accounts a wallet has closed had counted, so that `NothingUncounted` can say where each final record
was counted.

`ReputationMeter` is the abstract specification of one wallet's reputation number: it appears at
0, disappears, is rated by 1 to 10, or is penalised by 500.  Its `BelowCeiling` says that
truncation makes 9,991 a fixpoint no rating passes: no agent is ever shown at the documented
maximum of 10,000, and the clamp never bites.  `ImplementsMeter` carries that to every account.

### Devnet payments of the bridge: `QuotePayment`, `DevnetPayment`, `MCDevnetPayment`, `DevnetPaymentProofs`

`DevnetPayment` is `executeDevnetPayment` await by await: `Program` lists in order the awaits it acts
upon (a balance that is only reported - the payer's, lines 171 and 178, and the one after a top-up,
line 87 - is left out), a
call is a record with its position, and an action is what runs between two awaits: `Start` (key
and receipt lookups), `Estimate` (three balances, then the cap), `Fund` (the top-up, which reads
the balance again), `Pay`, `Confirm`, `ReadBalance` (before and after), `Store`
(`upsertDevnetReceipt`).  The cluster lands or drops a submitted transfer in its own time,
including after the call that sent it has thrown (`RpcError`) or was lost (`Crash`).  `crossed` is a
history: the calls between whose two readings of a balance another call's transfer moved it.
`QuotePayment` is the tool's promise - specialist paid once, fee charged once, receipt kept - and
is implemented as long as calls come one at a time and nothing fails (`ImplementsQuotePayment`, checked
in `serial_payments` and proved).

### Paid specialist calls: `SpecialistRuntime`, `SpecialistCall`, `SpecialistCallProofs`

`SpecialistRuntime` is the payment gate of a specialist: `Receive`, `Verify` (the awaited RPC
lookup, then the synchronous nonce check), `Answer` (the upstream model), and `RuntimeCrash`,
since nothing in `server.ts` catches what these awaits throw: one rejection ends the process, the
replay store and all requests.  A transaction is named by the call that sent it; `nonce` is what the
call's challenge named and its receipt repeats.  The two meet nowhere in the gate: `Settles` asks for a
landed transfer, `NonceFree` for an unused nonce.  `AllowRealPayment` is the setting of that name.
`SpecialistCall` composes it with the bridge's tool: the unpaid
request and its challenge, the checks, the USDC transfer, the paid request, and the receipt,
with the network (duplicated requests), the cluster and both processes failing up to `MaxFaults`
times.  `peers` is a history field: which calls a call overlapped.

### The bridge's file: `BridgeFile`, `BridgeFileProofs`

`BridgeFile` is `BridgeStore` as several processes over one directory use it.  An upsert is one
synchronous read and decision (`Refuse`, `Replay` or `Prepare`), and `writeFileSync` in two steps,
`Truncate` and `Fill`, between which another process may read, write or the writer crash; a file that
does not parse reads as an empty store.  `mishaps` is a history: whether two upserts overlapped, and
whether a rewrite was cut short - the only two things after which an answer may be forgotten.

### Onboarding: `OnboardingMachine`, `OnboardingProofs`

The twelve states, their graph and the checks of `applyOnboardingTransition` in its order: edge,
operator, the gate that must still be open, clearance of approvals and candidates, and the clock.
A timestamp is a number or `NotADate`: the pattern of the code lets strings through whose
`getTime()` is NaN, and every comparison with NaN is false.  Gate sets are those the cfg names;
`Init` takes every snapshot `createOnboardingDraft` accepts.

### The planner's server: `PlannerRuns`, `RatingDesk`, `EndpointProfile`, `OnboardingServer`, `OnboardingServerProofs`

`PlannerRuns` is the invoke route: `Refuse` and `Admit` (the checks before there is a run, the budget
among them), an attempt of `executePlannerSpecialistCall` (`FirstAnswer`, `Settle` and `Execute` for
Jupiter's order and its execution, `SecondAnswer`, `Throw`), `Retry` of the consumer flow,
`RecordSpend` after the last await.  Spend is counted in calls, because the route books a constant
0.001 for each.  **A payment of the planner is a receipt:** `sendPayment` of `packages/x402-solana`
(`payment.ts:383-427`) is a stub that moves nothing and returns `mock_tx_signature`, so `sent` is the
set of runs that made a receipt, and what can cost money is a swap (`swaps`).

`RatingDesk` is `recordPlannerFeedback`, `commitReputationRating` and `revealReputationRating` with
`planner-feedback.json` and `rating-commits.json`; the rating accounts of the chain are those of
`RatingBoard` as the operator meets them.  A record's id is the millisecond it was made in, so two
signals may share one; a reveal holds the whole file of salts from before its await, and its
transaction carries the opening (`opens`), so it may land after the request threw or the process died.
`Signal` has the throw between record and commitment (a specialist that left the index) and the
refusals before a transaction.

`EndpointProfile` is the rotation and the heartbeat of the endpoint manager, which await three
probes before they write the profile.  `OnboardingServer` composes the three in one process that may
stop at any await.  `unsure`, `overlaps`, `exposed` and `met` are histories that name the
circumstances the properties make exceptions for.

### External parts

The Solana runtime (atomic instructions, rent, clock), the RPC node and the HTTP network are
modelled from how the code uses them and marked `external` in the map: `AdvanceSlot`, `Land`,
`Drop`, `Reject`, `Expire`, `Duplicate` and the balances they move.

## 3. The runs

All bounds are named constants of the cfg.  Deadlock checking is off in every cfg: the bounded
systems really stop (slots, registrations, events, calls or requests are used up).

| run | instance | what it shows |
|---|---|---|
| `escrow` | 2 wallets (one may start empty), 1 nonce, amounts 0, 1, 3 around the rent minimum 2, slots 0..3, window 2, each PDA locked at most twice | `EscrowBacked`, `DelegationFresh`, `RefundReachable`, `SettledInFull`, `LamportsConserved`, `ImplementsLedger` |
| `cancel_window_days` | the real 50,400 slots, and the slots around both constants | finding: the refund opens after 5.6 hours, not 7 days |
| `ratings` | 2 wallets, 1 rating and 1 attestation, scores 0 and 10, model lengths 64 and 65, 3 registrations, slots 0..2, expiry after 2 | the same accounts written by all three groups in every order: `CommitReveal`, `CommitmentBinding`, `CountedOnce`, `NothingUncounted`, `RevealReachable`, `ReputationHasCause`, `ImplementsMeter` |
| `expiry_accounts` | as above, 2 registrations, no attestation | finding: a pending rating whose parties have no account |
| `payments` | 2 overlapping calls, 1 quote, 2 keys, 2 caps, all faults, a funder that cannot pay for both calls | `ReceiptsPaid`, `OneAnswer`, `MismatchExplained` |
| `serial_payments` | 3 calls one after the other, 2 quotes, 2 keys, no faults, a funder that runs dry in the last call | `SpendCapped`, `KeyBinds`, `ImplementsQuotePayment`, `CallsEnd` |
| `retry_pays_again` | 2 calls one after the other, one key, faults | finding: a retry pays again |
| `paid_calls` | 2 calls, 1 key, 2 bodies, caps below and above the price, 2 payees, wallets that can pay one call or both, each request delivered up to twice, 2 faults | `ServedOnce`, `ReceiptsEarned`, `KeyBinds`, `PaidOnceUnlessDisturbed`, `ChargedIsAnswered`, `CallsEnd` |
| `onboarding` | operator and provider, 2 readiness values, 3 gate sets (none, one, all), 2 dates and one timestamp that is none, 3 events | `HistoryReplays`, `CandidatesReviewed`, `TimesOrdered` |
| `onboarding_clock` | the same, smaller | finding: the log goes back in time |
| `bridge_store` | 2 processes, 2 keys, 2 terms, 3 upserts of three kinds | `KeysResolve`, `AnswersKept`, `KeysAnswerOnce` |
| `onboarding_server` | loads of 2 invokes; an invoke and a signal; 2 signals and 2 reveals; 2 rotations and 2 heartbeats; 2 runs on file, 1 retry, a budget of 1 call, scores below and above the threshold, 2 milliseconds, faults | `BooksAgree`, `RetriesBounded`, `BudgetOvershoot`, `SaltsOpen`, `CommitmentsOpenable`, `FeedbackKept`, `NewestTokenKept`, `InvokesEnd` |

Why these bounds are enough.  *Escrow*: instructions touch one PDA and at most two wallets, so two
wallets that pay each other or themselves and one nonce each give every aliasing; two locks per
PDA give a re-created account; a window of 2 in 4 slots gives ages below, at and above it, also
for the second account.  *Ratings*: a job has two parties, and with one wallet in both roles the
other is the stranger; three registrations let both parties register and one come back.
*Payments*: the bad interleavings of check and write need two calls; three are needed to use a key,
then retry it, then run out of funds.  *Paid calls*: two calls under one key, one fault that loses
the answer and one that loses something else; the second copy is the duplicate.  *Onboarding*: three
events are the shortest way to a candidate and enough for a date, no date and an older date; histories
of any length are the proofs' part.  *Bridge file*: one upsert to lose, one that overlaps it, one that
asks again.  *Onboarding server*: requests of different kinds meet only in the files they share, so
the loads are the groups that share one; a stale write needs one holder and one writer, a second
reveal undoes the first's mark, and two signals in one of two milliseconds share an id or do not.
What the other party of a rating does is left free from the moment the operator rates the run.

Every property of a passing run has a mutant in `PROJECT.json`: a plausible slip in the code
(written beside the definition it changes) that the run then reports.

## 4. Fairness

Nothing is assumed fair in the escrow and reputation runs: parties may ghost, and nobody has to send
`expire_rating`.

* `serial_payments`, `paid_calls`: weak fairness of the steps of a running call (a Node event
  loop runs a continuation whose promise is settled) and of a submitted transaction being settled
  (a blockhash is valid for 150 blocks).  No fairness for new calls, faults, crashes or duplicates.
  In `paid_calls` the runtime's `Verify` and `Answer` are fair too: `openrouter.ts:56` and the RPC
  client set no timeout of their own, and it is the default of the HTTP client that bounds them.

* `onboarding_server`: weak fairness of the steps of an invoke that the server itself drives, among
  them `AbortSignal.timeout` on both requests.  Nothing is assumed of endpoints, RPC nodes, the chain
  or other requests.  The two Jupiter requests (`Settle`, `Execute`) have no timeout in this
  repository; that they return or throw is assumed.

## 5. The proofs

All theorems are checked by TLAPS for every value of the constants that satisfies the named
assumptions of the modules (which TLC evaluates on each run): finite sets of wallets, nonces and
jobs, numbers that are naturals, and marker values (`NoEscrow`, `NoAgent`, `NoRating`, ...) that
are not values of what they mark the absence of.  Where a theorem needs more than that, its
statement says so (`ASSUME ... PROVE`).  Every safety property of a passing run has a theorem; only the
three liveness properties rest on TLC alone.

| module | theorem | argument |
|---|---|---|
| `AnchorEscrowProofs` | `EscrowTypeCorrect`, `EscrowAlwaysBacked`, `DelegationAlwaysFresh` | `IInv == TypeOK /\ EscrowBacked /\ DelegationFresh /\ GrantsPast` is inductive |
| | `DealsImmutable`, `OnlyPayersFund`, `SettlementsComplete` | under `IInv` a step is a funding, a settlement or quiet (`StepKinds`), and each kind satisfies the three action properties |
| | `NoLamportsLost` | a lock and a settlement move coins between two holders, below |
| | `RefundsReachable` | `IInv`: an account backed by rent and amount can pay both, and what its payer gets is rent-exempt, because the escrow's rent is at least a wallet's (`EscrowConstants`) |
| | `EscrowImplementsLedger` | initial states map to initial states; a lock maps to `Deposit`, a settlement to `PayOut` or `Refund`, a clock step to `Mature` of the deals that just matured, a delegation to a stutter |
| `AnchorReputationProofs` | `ReputationTypeCorrect`, `ScoresStayBlind` | `TypeOK /\ CommitReveal` is inductive |
| | `CommitmentsBind`, `FinalRecordsStay` | every action keeps committed slots, parties and final records (`KeepsRecord`) |
| | `RevealsReachable` | `CommitReveal`: a party's commitment is a hash, and of what it will reveal; of two distinct parties each signs for its own role |
| | `SelfRatingsStay` | reveal and expiry load two distinct accounts, and parties are for ever (`CommitmentsBind`) |
| | `ReputationIsMetered` | every action moves each wallet's number by a step of `ReputationMeter` or not at all |
| | `ReputationBelowCeiling`, `RatingsPull` | linear arithmetic about truncating division, over the meter steps of every account: none passes 9,991, and a rating moves it towards its own value and not past it |
| `ReputationRecordsProofs` | `RecordsCountOnce`, `RecordsAllCount`, `ChangesHaveCause` | an account changes what it counts only with a record that becomes final for its wallet (`EveryChangeHasCause`); final records stay, so their sets only grow |
| `DevnetPaymentProofs` | `PaymentTypeCorrect`, `StoredReceiptsPaid`, `AnswersAgree` | a call's position in `Program` bounds which of its transfers landed, below |
| | `MismatchHasCause` | what a call has read of a balance still holds unless another call's transfer moved it since |
| | `KeysBind` | calls one at a time: the store has no receipt for the quote and key of a running call |
| | `SpendWithinCap` | and no fault: the estimate covers what is topped up so far and what still will be |
| | `SerialCallsImplementQuotePayment`, `PaidOnceUndisturbed` | and the margins suffice: after the specialist was paid the call reaches its receipt |
| | `NoTwoPaymentsReturned`, `PaidAgainOnlyAfterFailure` | a call that returned has the one receipt of its quote, below |
| `OnboardingProofs` | `OnboardingTypeOK`, `OnboardingHistoryReplays`, `OnboardingCandidatesReviewed`, `OnboardingTimesOrdered` | `LogInv`: every record of the log was checked, and starts where the one before ended |
| `BridgeFileProofs` | `BridgeTypeOK`, `BridgeKeysResolve`, `BridgeAnswersKept`, `BridgeKeysAnswerOnce` | what a process holds is a coherent store; while nothing overlapped or was torn it extends the file, and every answer is in it |
| `SpecialistCallProofs` | `CallTypeCorrect`, `NonceServedOnce`, `StoredReceiptsEarned`, `IdempotencyKeysBind` | one inductive invariant, below |
| | `KeyPaidOnce`, `ChargedCallAnswered` | `Calm`: what a run without faults adds to it, below |
| `OnboardingServerProofs` | `PlannerInvariant`, `BooksHold`, `RetriesHold`, `BudgetHolds` | an invoke's stage says what its runs have on record and what it still owes the day's spend |
| | `DeskInvariant`, `SaltsHold`, `CommitmentsHold`, `FeedbackHolds` | the file, and every copy of it that a reveal holds, agrees with the chain |
| | `EndpointInvariant`, `TokenHolds` | a newest rotation that met nobody leaves only requests that hold its token |

*Why the escrow invariant is needed.*  `TypeOK` alone is not inductive: a settlement subtracts the
amount from the account's lamports, and stays in the naturals only if the account holds rent plus
amount.  `EscrowBacked` says so, and that the account's payer is the one in its seeds, without
which "a settlement credits the payer" does not follow.  `GrantsPast` (no grant is under a lock still to
come) is what a re-created account needs to start without one.

*Lamports as coins.*  The sum of a function over all wallets or accounts would be an induction over
their set.  `LamportsConserved` counts coins instead: `Coins(f)` is the set of pairs `<<x, i>>` with `i` in
`1 .. f[x]`, and the sum of `f` is its cardinality.  A change of `f` in one argument replaces one stack
of coins by another (`CoinsChange`), so the library's facts about the cardinality of a disjoint union
are enough, and the sum is defined for any finite number of wallets and nonces.

*Reachability without `ENABLED`.*  `RefundReachable` and `RevealReachable` are about an instruction being
possible, and are stated by the conditions of that instruction, `CanCancel` and `CanReveal`, which are
also the whole guard of its action; what the action then assigns is always defined.

*Why the reputation invariant is needed.*  A score is only ever written to a rating in
`BothCommitted`; that such a rating has both commitments is the part of `CommitReveal` that
carries the induction.

*Why records count once.*  An account is closed by `deregister_agent` and starts at zero again while
the records of its wallet stay, so its counters are at most, not exactly, the number of those
records; with what the closed accounts had counted (`retired`) they are exactly that number
(`NothingUncounted`).  The proof splits a step by what it does to one account: nothing that counts, or one more
of a counter together with one more final record of the kind it counts.

*The invariants of devnet payments.*  `ReceiptsPaid` and `OneAnswer` speak of the moment a receipt is
stored; what makes them true happens awaits before.  `CallInv` says that a running call past its
ninth (tenth) await has a landed payment (fee), that a payment in any state has the amount of the
quote, and that only a call that was made has transfers; `StoreInv` that the store holds one receipt
per quote and that keys and answers are receipts of the store.  A landed transfer stays landed under
every action, crashes and errors included.  The further proofs do not go through the eleven actions
again: `NextKinds` shows once that a step starts a call, ends it, moves it one await on, submits a
transfer, settles one, or stores the receipt, and says of each kind all that the invariants need.

* `MismatchExplained`, under every overlap and fault, needs `SequenceInv` (a running call has
  submitted nothing of the awaits ahead of it and has nothing in flight of those behind) and
  `BalanceInv`: unless the call was `crossed`, each balance it has read and has yet to read again is
  still the balance, but for its own payment.
* `KeyBinds` holds only for calls one at a time; then `SerialInv` - one call runs, and the store has
  no receipt for its quote or under its key - is inductive even if RPC calls fail and the bridge
  crashes.  The hypothesis `~Overlap` is the constant of the model, not a restriction of the
  invariant: with `Overlap` the code does answer one key twice (section 6).
* `SpendCapped` reads the estimate of three balances made before three top-ups, each of which reads
  its balance again.  `QuietInv` (nobody else has a transfer in flight, and a top-up in flight is
  what its account lacks) and `EstimateInv` (the estimate covers the top-ups made and those to
  come) carry it.  It needs `~Overlap` and `~Faults`: a transfer that lands after its call has
  thrown makes the balances something other than what the next call has read.
* `ImplementsQuotePayment` and `PaidOnce` need in addition that a call which has paid the specialist
  reaches its receipt, which is `FundedInv` (after the top-ups the payer can pay quote, fee and both
  transaction fees, and the treasury can be paid) and `OutcomeInv` (a call with a landed payment is
  still running or has its receipt; a fee is never refused).  They hold only if the margins of the
  code suffice, hence the hypothesis `Margins`: `2 * TxFee <= FeeMargin` and `RentMinimum <=
  RentSafety`.  The code has 20,000 and 1,000,000 lamports (`devnet-payment.ts:159-160`) against
  2 * 5,000 and 890,880 of the cluster.  A faultless call may still throw half-way, when the funder
  runs dry, but only while it tops up, before it has paid the specialist; with faults a retry pays
  again, which `retry_pays_again` shows.
* What remains of `PaidOnce` with faults is `NoTwoPaymentsReturned`, for any overlap, and
  `PaidAgainOnlyAfterFailure`, for calls one at a time.  `AccountedInv` says that a call that returned
  has its receipt, and one answered from the store submitted nothing; receipts being one per quote, a
  second payment belongs to a call that is running, has thrown or was lost.  One at a time a running
  call has found no receipt of its quote (`StoreFree`), which leaves only failed ones; with `Overlap` two
  running calls may both have paid, so that theorem needs its hypothesis.

*The invariant of paid calls* is `TypeOK`, `ReceiptsEarned` and `KeyBinds` with four facts they
rest on.  `NonceInv`: the nonces of two calls differ, and those in the replay store are theirs.
`GateInv`: a request that is upstream or answered has its transfer on chain.  `OnceInv`, the
strengthening of `ServedOnce`: a nonce that is not in the replay store has been answered at most
once per past restart, and at most one copy is upstream, with its nonce taken and one answer still
allowed.  `Progress`: the stage of a call bounds what it has checked (the price is
within its cap), been given (a nonce) and paid.  `Named`: a stored receipt names a call that has
started, so `Start` cannot overwrite the input it was given for.

`PaidOnceUnlessDisturbed` and `ChargedIsAnswered` speak of runs without a fault, and `Calm` says what
else holds then: `OnePays` (of two calls with one key that have not been refused, paid or may yet pay,
one met the other), `GateCalm` (no nonce is taken before its paid request was sent, and that request
is the only copy) and `StageCalm` (a submitted transaction has a call that waits for it).

*Why the log invariant is needed.*  `CandidatesReviewed` looks two records back; that a record's state
of origin is the state of the record before it (`HistoryReplays`), together with the graph, in which
a candidate has one predecessor and that one has one, is what carries it.

*The invariant of the bridge file.*  `KeysResolve` of the file holds because every process that is about
to write holds a coherent store, even one read from a torn file.  For the other two, as long as
`mishaps` is empty at most one process is in an upsert and what it holds is the file plus one item.

*The invariants of the planner's server.*  The three files share nothing but the process that dies, so
each part has its own invariant, and a step of another part leaves it alone.  `PlannerInv`: an attempt
the invoke has left behind has its record, the one under way has none, and one that a crash met may have
none; only an attempt past its first answer can have a swap or a receipt, an answered one is the last;
the day's spend is the number of completed calls whose invoke has written it; and spend and calls under
way are together at most the budget and the overlaps counted so far.  An attempt pays at most once, so `RetriesBounded`
is a bound on the set of an invoke's attempts.  `DeskInv`: a signal whose transaction landed is the
salt of its run's commitment; the file, and each copy of it that a reveal holds across its await, names
the commitment on chain and marks only scores the chain has taken; for runs that are not `exposed`
copy and file have the same entries, which is why writing the copy back loses nothing.  Ids are
milliseconds, so `FeedbackKept` is about signals that share theirs with nobody: every record is of a
signal under its id, and every id has a record.  `EndpointInv`: requests that probe side by side have
met; a newest rotation that met nobody has its token in the profile once it is done, and in every
request that has begun since.

Two assumptions on constants were made stronger for these proofs, both about markers and names only:
`NoReceipt` (the marker of an unbound key is no receipt) and `InvokeAssumption` (the runs on file when
the server starts are not the attempts of the invokes to come, as ids of runs are fresh).

Outside the prover's reach and left to TLC is liveness: `CallsEnd` of the two bridge models and
`InvokesEnd`.  No run checks what only the proofs show: `SelfRatingsStay`, the two theorems on
second payments (TLC has checked all three on the instances of `ratings` and `payments`), type
correctness, `DealImmutable`, `PayerOnlyFunds`, `RecordsFinal` and the bounds of `ReputationMeter`.

## 6. Where documents and code disagree

Four disagreements have a run that shows them (`findings` in `PROJECT.json`):

1. *The cancel window is 5.6 hours* (`cancel_window_days`).  `constants.rs:6-7` documents 50,400
   slots as about 7 days at 400 ms per slot; `RATING_EXPIRE_SLOTS` in the same file has the number
   for 7 days.
2. *Expiry cannot always load both accounts* (`expiry_accounts`), against the comment at
   `commit_rating.rs:13-15`: commit does not look at the registry and agents may deregister.
3. *A retry of a devnet payment pays again* (`retry_pays_again`) when the first call ended between
   its transfer and its receipt; `server.ts:67` calls the tool idempotent.
4. *The onboarding log can go back in time* (`onboarding_clock`) across an event whose timestamp
   matches the pattern of `onboarding-state-machine.ts:367` and is no date, against the message at
   line 675.

Noticed while modelling, without a run of their own: a nonce can be locked again after its escrow
was settled, because settlement closes the PDA (against `lock_escrow.rs:12`, "prevents duplicate nonces
for the same payer"); a commitment of 32 zero bytes opens a rating
nobody committed to (against `expire_rating.rs:46`); `expire_rating` may be sent by anyone (against
its comments at lines 9 and 61); `attestation_accuracy` counts confirmations and is no ratio (against
`state.rs:87`); two overlapping devnet calls under one key and two quotes both succeed
(`store.ts:107`); an overlapping call can exceed its cap, which is checked against balances read
before the top-ups; a job whose consumer and specialist are one wallet can neither be revealed nor
expired.  The payment gate of a specialist burns nonces and not transfers: the challenge a receipt is compared with
is rebuilt from the receipt's own nonce (`runtime.ts:97-104`, so the comparison at
`payment.ts:295` is of a nonce with itself), the nonce need not be one it issued, and the look-up of the
transfer does not mention it (`payment.ts:313-335`), so one answer per payment is a habit of the bridge and
not a guarantee of the gate; with `allowRealPayment` off, the default (`runtime.ts:36`), a specialist
issues challenges that no payment satisfies.  In `lib/`: a paid request that throws is recorded with
`paymentAttempted: false` (`planner-execution.ts:268`), and so is a run whose swap was executed before its
settlement failed; a crash while a run awaits forgets its payment, and one before the spend is written
forgets the spend; the salt of a commitment is stored only after its confirmation
(`reputation-signal.ts:230`), and a reveal writes back a file it read before its await (`:355`), so
commitments on chain can become unopenable; a heartbeat may undo a token rotation
(`endpoint-manager.ts:378`), and reports an endpoint online whatever the token proxy answered; a
settlement decision may be changed any number of times (`planner-settlement.ts:60`).

## 7. What is not modelled, and why

* *Frozen or pilot programs* (`experiments/quasar*`, `pilots/anchor-v2-update-agent`): the Anchor
  program is authoritative.  The Quasar programs' identity scheme differs (per-payer
  counters that never repeat, domain-separated commitments), and nothing in the application calls them.
* *Stateless code* (validators, fixtures and exporters of `packages/agent-protocol`; intake, review,
  marketplace and readiness projections; profiles, prompts; adapters): TLC would only evaluate
  schemas.
* *Stateful code not reached yet*: delegation budgets (their usage is supplied by the caller, and live delegation is off by default); several server processes over the JSON files of
  `lib/onboarding` (one process is assumed, in which a rewrite is atomic); the registries of
  consumers, capabilities and attestations, one synchronous rewrite per request; marketplace
  activation, which works on fixtures.
* *Inside modelled components*: transaction fees and donations to a PDA (escrow); rent of rating and
  attestation accounts; SOL and AUDD receipts, demo payments, attestation and delegation modes of
  the runtime; creation of token accounts by the bridge; header formats and hashing (a hash is
  taken to be injective); what callers other than this bridge send to the gate; settlement decisions,
  policy edits and the change of day (planner); torn writes of the planner's files (its crashes are at
  awaits); proxy script, ports and URLs of an endpoint.  A paid request in delegation mode may be
  refused with 403 or 501 after it was charged (`runtime.ts:205-240`); `ChargedIsAnswered` is about the
  completion mode.
* *Settings*: `paid_calls` runs with `AllowRealPayment` on, without which nothing is ever paid for; the
  theorems hold for both values.
* *Web application, scripts, CI, documents, generated artifacts, vendored framework*: no protocol state.

## 8. The plan

In order of importance; all but the last are in place.

1. `AnchorEscrow` with its refinement of `EscrowLedger` - modelled, checked, proved.
2. `AgentRegistry`, `RatingBoard`, `AttestationDesk`, `AnchorReputation`, `ReputationMeter` -
   modelled, checked, proved.
3. `DevnetPayment` with its refinement of `QuotePayment` - modelled, checked, proved.
4. `SpecialistRuntime`, `SpecialistCall` - modelled, checked, proved.
5. `OnboardingMachine` - modelled, checked, proved.
6. `BridgeFile` - modelled, checked, proved.
7. `PlannerRuns`, `RatingDesk`, `EndpointProfile`, `OnboardingServer` - modelled, checked, proved.
8. `RefundReachable`, `RevealReachable` and `LamportsConserved` without `ENABLED` and without a fold, so
   that they can be proved - done.
9. `PaidOnce` of `DevnetPayment` with faults, weakened to what remains true - proved.
10. `BudgetPolicy` and delegation: usage read, checked and updated by different parties.

## 9. Running it

`tlc -config X.cfg M` for the pairs listed under `runs` in `PROJECT.json` (the longest takes
about two minutes on two workers); `tlapm M.tla` for the eight `*Proofs` modules.
