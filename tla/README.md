# Faremeter: a TLA+ model of the payment core

Faremeter lets HTTP services charge for requests. A server answers an unpaid
request with a 402 and a challenge (x402 v1 or v2, or MPP); a client pays and
repeats the request; a facilitator verifies the payment and settles it on a
chain. An nginx gateway with a sidecar does the same for services that know
nothing of payments, and prices a request by what its response turns out to be.

The modules here model the parts that keep state between two steps of somebody
else: facilitators that wait for a chain, stores that remember what was used,
retries, timers, and a client that pays again. Paths below are relative to
`src/`.

## 1. Inventory

| Part | State it keeps | Operations | Talks to |
| --- | --- | --- | --- |
| Flex facilitator (`packages/payment-solana/src/flex/facilitator`) | slot estimate, escrow snapshots, session key cache, the hold manager's holds, the running tick | `/verify`, `/settle`, a `setInterval` tick that flushes and finalizes | Flex program and RPC, `@faremeter/flex-solana` |
| Gateway (`packages/gateway-nginx/src/lua`) | a shared dictionary of captures, timers | access, body filter, websocket, log phases; `flush_capture` | upstream, sidecar |
| Sidecar and its handler (`apps/sidecar`, `packages/middleware-openapi`) | none between requests | `POST /request`, `POST /response` | facilitator handlers, pricing rules |
| Charge server and client (`packages/payment-solana/src/charge`) | replay store of challenge ids, one for each of the token and the native handler | `getChallenge`, `handleSettle` (pull and push), `create` of the clients | RPC |
| Exact facilitator, Solana (`packages/payment-solana/src/exact`) | `TransactionStore` of seen signatures | `handleVerify`, `handleSettle` for transactions and settlement accounts | RPC |
| Middleware (`packages/middleware`) | cache of `/accepts` answers | `handleMiddlewareRequest`, Hono and Express wrappers, HTTP facilitator handler | facilitator, route |
| Facilitator routes (`packages/facilitator`) | none | `/accepts`, `/verify`, `/settle`, `/supported` with handler timeouts | handlers |
| Fetch client (`packages/fetch`) | the attempt counter of a call | `wrap()`: request, pay, request again, retry | server, wallet |
| Exact facilitator, EVM (`packages/payment-evm`) | none in memory; used nonces are on chain | `getRequirements`, verify, settle; the client's signing | RPC |
| Rides payer (`packages/rides`) | wallets, balance lookup | `addLocalWallet`, `fetch` | wallets, fetch client |
| Upto handler (`flex/hono`) | the requirements of a request, between its two sides | a handler that settles what was used | middleware |
| Pricing (`middleware-openapi`: parser, evaluator, expr) | the loaded spec | matching, authorize and capture expressions | handler |
| Generator (`gateway-nginx/src`) | none | locations, capture fields, warnings | pricing spec, nginx |
| Types, adapters, info (`packages/types`, `packages/info`) | none | conversions between versions, names of networks and tokens | all of the above |
| Wallets, logs, test harness, scripts | none that outlives a call | signing, output, tests | |

What is hard in this code:

* **A transaction outlives the poll that waits for it.** Every facilitator gives
  up on a confirmation after some polls while the transaction may still land.
* **Check, await, act.** Holds, balances, duplicate checks and challenge ids are
  read before an await and acted upon after it, by concurrent handlers.
* **Two clocks.** Slots are extrapolated from the wall clock; seconds are made
  of milliseconds by rounding; stores are pruned by block height.
* **Delivery with retries.** A capture is posted from a timer up to three times,
  a late POST is still handled, and the buffer has a TTL.
* **Who has settled?** One-phase and two-phase settlement meet in `/response`,
  which infers from the credential what `/request` did.
* **A 402 makes the client pay again.** Which failures are reported as a 402 and
  which as a 500 decides whether money is spent twice.
* **Many handlers, two versions, two protocols, several names for a network.**
  The challenge is assembled by one path of the code and its answer is matched
  by another, with a cache in between.
* **The price depends on a stream.** It is cut into chunks anywhere, its fields
  are merged, and an expression over them is reduced textually.
* **One account, one nonce.** Concurrent EVM settlements displace each other.

`PROJECT.json` lists these at their lines ("hazards"), each with the properties
that would catch it, or a note saying why there is none.

## 2. Modules

| Module | Models | Run instances | Proofs |
| --- | --- | --- | --- |
| `FlexFacilitator` | `flex/facilitator/handler.ts`; hold manager and Flex program external | `MCFlex` | `FlexFacilitator_proofs` |
| `Gateway` | `gateway-nginx/src/lua/*.lua`, `apps/sidecar/src/app.ts`, `middleware-openapi/src/handler.ts`; facilitator external | `MCGateway` | `Gateway_proofs` |
| `Pricing` | `middleware-openapi/src/expr.ts`, `evaluator.ts`: expressions and amounts, operators only | through `MCMetering` | in `Metering_proofs` |
| `Routes` | `middleware-openapi/src/parser.ts`; `gateway-nginx/src/parser.ts`, `analyzer.ts`, `path.ts`, `nginx/location.ts`, operators only; extends `Pricing` | through `MCMetering` | in `Metering_proofs` |
| `Metering` | header filter, body filter, websocket and `shared.lua`'s SSE parser, with the pricing of `/request` and `/response`; extends `Routes` | `MCMetering` | `Metering_proofs` |
| `ChargeServer` | `charge/server.ts`, `replay.ts`, `verify.ts`, `client.ts`; chain external | `MCCharge` | `ChargeServer_proofs` |
| `ExactFacilitator` | `exact/facilitator.ts`, `cache.ts`, `verify.ts`; chain external | `MCExact` | `ExactFacilitator_proofs` |
| `PaidFetch` | `fetch`, `middleware`, `facilitator` around an instance of `ExactFacilitator` | `MCPaid` | `PaidFetch_proofs` |
| `Networks` | `packages/info`: names and tokens of networks, operators only | through the two below | none |
| `PaymentServer` | `middleware` (`common.ts`, `hono.ts`, `express.ts`, `http-handler.ts`, `cache.ts`), `facilitator/src/routes.ts`, `types` (adapters, handlers, MPP), `flex/hono/upto-handler.ts` | `MCServer` | `PaymentServer_proofs` |
| `EvmExact` | `payment-evm/src/exact`; contracts, chain and viem external | `MCEvm` | in `RidesPayer_proofs` |
| `RidesPayer` | `packages/rides`, composed with `EvmExact` | `MCEvm` | `RidesPayer_proofs` |

An action is what the code does between two awaits: everything up to the next
RPC call, HTTP request, timer or callback is one step. Operators have the
names of the functions they model. Definitions whose comment begins with
"Mutant" are not part of the specification: each is a variant of the definition
below it with a plausible mistake, there to show that a property notices.

### FlexFacilitator

A client signs an authorization up to an amount. `/verify` (`BeginRequest`,
`CheckPayload`, `PlaceHold`) reserves a hold, `/settle` (`SettleHold`) fixes
its amount, and the tick (`FlushStart` ... `FinalizeResults`) submits settled
holds as a batch and finalizes them after the escrow's refund timeout. A
request stops at the snapshot and at the key fetch, so a tick may run in
between; a batch has one polling loop for each hold (`sub`). `net` holds the
transactions that were broadcast; with `Lossy` they may land after the handler
gave up. Time is in slots of 400 ms; `slot` and the estimate may both be off by
`Jitter` (0 in the runs, anything `BufferCovers` allows in the proofs). Balances belong to the hold manager and are not modelled: `TryHold`
may refuse.

### Gateway

A request carries the kind of its pricing rule (free, one-phase, two-phase, or
two-phase with an authorize expression of zero), its credential, its transport
and whether its response is over the capture cap: what the guards of the Lua
files and the handler tell apart; and whether it may meet faults, so that one
run has both. `buf`, `age` and `flush` are the capture in the shared
dictionary, how old it may be, and the timer with its attempt; `job` is the
sidecar's handling of each POST, which goes on when nginx has given it up;
`reports` counts calls of the capture hook. Prices are abstracted to "is
anything owed"; `Metering` has them.

### Pricing, Routes, Metering

`Pricing` has expressions as syntax trees: functions from addresses, which say
by which operands a node is reached, to nodes. What the code does to their text
(`findInnermostCoalesce` and the replacement by a value or a fallback) is
`CollapseInnermost`, repeated until no `coalesce()` is left; `Meaning` is what
the expression says - its value and the references it depends on, node by node,
without rewriting anything - and `ChargedForWhatWasServed` compares the two.
Numbers are fractions, `+`, `-`, `*` and `/` are exact, and a quotient by zero is
the infinity that `buildResult` refuses. The rounding is the code's:
`CoefficientToScaled` rounds the coefficient to the nearest `1 / Scale`
(`toFixed(15)`), or to a whole number where `toFixed` has no decimals
(`MaxFixed`, 1e21), and `CoefficientAmount` rounds its product with the rate up.
`Routes` extracts a spec (rates and
rules inherited from document, path and operation, and validated), finds the
fields to capture and the conflicts between them, and generates the locations
nginx will try: exact ones first, then regular expressions in order.

`Metering` takes one request through this. A response is a sequence of tokens;
`BodyFilter` takes any number of them at a time, so that a chunk may end
anywhere. `ParseSSEChunk` has lines, comments, CR LF, events of several lines
and both limits. What it should capture is said by positions: `Documents` are
the texts that end at each position of the response, `CapturedFrom` the last
value of each field in those up to one. Websocket frames are parsed one by one, and a handshake to a
location that also serves HTTP, or the reverse, is told apart by `Upgrade`.

### ChargeServer

Ids are records of what their HMAC covers, price, blockhash and expiry second,
so two equal challenges are one id, as in the code. The store keeps ids with
their expiry in milliseconds and is pruned by every call. `handleSettle`
consumes the id, verifies, simulates, sends and polls (pull), or fetches the
transaction the client sent (push). The native handler differs in what it
verifies; a transaction is the wallet, the price and the blockhash that the
clients build it from, so that two payments with the same are one transaction.
`Restart` empties the store and the calls.

### ExactFacilitator

`handleSettle` takes a transaction the client has signed, or a settlement
account it has funded. `ProcessPayment` is the verification, then the fee payer
signs, `SettleTransaction` asks the `TransactionStore` and adds to it in one
step (there is no await between), or `SettleAccount` builds a transaction;
`Simulate`, `SendTransaction` and `PollStatus` are the RPC calls, each of which
may throw (`Throws`). `Height` is what `processTransaction()` takes for the
block height. The kit's decoder fills in the largest u64 for a decoded message,
so that all heights are equal and nothing is ever pruned; the model allows this
and real heights (`HeightsAreSound`). Hooks are left out.

### PaidFetch

Each call of the wrapped `fetch()` goes through `phase1`, `paying` and
`phase2`, and back while attempts remain. `srv` is where the middleware is
with its request: resolving the accepts (from the cache, or from a facilitator
that may leave handlers out), verifying, running the route, settling. `config`
holds the supported versions, `verifyBeforeSettle` (`first`) and whether the
facilitator is behind HTTP (`remote`): an exception of a local handler is a
500, the routes turn it into `success: false` and the client sees a 402. The
facilitator is `F == INSTANCE ExactFacilitator WITH Calls <- Fetches`, so that
every interleaving of settlement with the rest is there. MPP is in
`ChargeServer` and `PaymentServer` and not here; clients pay with transactions,
not with settlement accounts.

### PaymentServer

A server is a member of `Configs`: its wrapper (Hono, Express, upto, or the
version 1 middleware), whether handlers are local or behind the routes, which
versions and protocols it supports and under which names its networks are
configured. A request without payment is resolved (from the cache, by the
handlers, or by `/accepts`, whose answer travels up to `MaxFlight` and may lack
handlers that failed or were slow), then challenged; `offered` records what
was. A request with a payment is matched (`FindMatching`), adapted between
versions, dispatched to the first handler that takes it, and settled before or
after the route; the upto handler settles what was used, and writes that amount
into the requirements it was given. An MPP credential is checked for its
digest and settled by the handlers of its method in turn. `settled` and `by`
are what the handler did, whatever became of its answer.

### EvmExact and RidesPayer

An authorization is a record of what is signed, the EIP-712 domain included. A
call of the facilitator checks it (`Authorizes`), asks the contract about its
nonce and the signature (`CheckNonce`), simulates, reads the account's nonce,
sends, and waits for the receipt of whatever was mined with that nonce: of two
transactions with one nonce the better paid one is mined. The asset may have a
forwarder, with or without a name, and a version that differs from the "2"
clients are told.

`RidesPayer` adds wallets (each key becomes a wallet for each network and asset
its plugin knows) and lets concurrent `fetch()` calls read balances one by one
and sign with the first viable option. What they sign is what `EvmExact` gets.

## 3. Runs

All runs say `CHECK_DEADLOCK FALSE`: a bounded clock and finished requests are
a proper end.

| Run | Bounds | Shows |
| --- | --- | --- |
| `flex_tick` | 1 authorization, 1 call at a time, 2 amounts, 6 slots, no late landing; fair | `TypeOK`; the chain has the amount of the last `/settle` (`LastReceiptMatchesChain`); no authorization is accepted after it settled (`NoReplay`); `FinalizesAfterRefundTimeout`; `SettledHoldsMoveOn` |
| `flex_lossy` | 2 authorizations, one of which outlives the session key, 1 call at a time, 3 slots, a grace period of 2, late landing (4.2 million states) | `SettlesOnlyReportedAmounts`, `SubmitsInTime` |
| `flex_replay` | as above with late landing | *violated:* `NoReplay` |
| `flex_finalize` | 2 authorizations | *violated:* `DueHoldsAreFinalized` |
| `gateway` | 1 request, with faults or without, 3 attempts, TTL 60 s, rules priced at `/request`; fair (38 300 states) | `TypeOK`, `ServedOnlyIfAuthorized`, `SettledInOnePhase`, `BilledIsReported`, `KeptForEveryAttempt`, `BillDeletedOnlyWhenSettled`, `ServedIsBilled` |
| `gateway_zeroauth` | every rule | *violated:* `BillDeletedOnlyWhenSettled` |
| `charge` | a price in SOL and one in tokens, 1 wallet, 1 blockhash, 2 calls, 2 issues of an id, 4 instants over 2 seconds, restarts; fair (98 000 states) | `TypeOK`, `OneReceiptPerChallenge`, `ReceiptsArePaid`, `SponsorsOnlyCharges`, `AcceptedUntilExpiry`, `EveryCallEnds` |
| `exact` | 4 transactions (one invalid), 1 settlement account with 2 built transactions, 2 calls, 2 polls, 4 blocks, age 2 | `TypeOK`, `OneReceiptPerPayment`, `SettlesOnlyPayments` |
| `paid_fetch` | 2 fetches with one retry each, 2 transactions that clients may share, 6 configurations; symmetric in both (1.6 million states) | `TypeOK`, `ServedIsPaid`, `PaysOneAtATime`, `ImplementsFacilitator` |
| `evm` | 2 EVM keys (one empty) and a Solana key, 2 fetches, 2 facilitator calls, 2 signatures, 4 assets, 2 gas prices, 3 instants (1.5 million states) | `TypeOK`, `SettledIsTransferred`, `OneSuccessPerAuthorization`, `PaysWithCoveredWallet`, `VerdictIsRight` |
| `server` | 8 servers, 2 routes, 2 x402 and 2 MPP handlers, 2 concurrent requests out of 3, a cache of 1 entry, 4 instants (4.0 million states) | `TypeOK`, `OfferedIsTaken`, `ServedForItsPayment`, `RefusedIsUnpaid`, `MissingOnlyIfFailed` |
| `metering` | 11 documents, 3 URLs, 3 bodies, 11 responses cut in every way, limits of 6 bytes, coefficients in halves up to 4 (21 600 states) | `TypeOK`, `CaptureIsFaithful`, `ChargedForWhatWasServed` |

Why the bounds are enough:

* Requests of the gateway share nothing but keys of the buffer, which are
  distinct, so one request is as good as many (and the proofs take any number).
* In the Flex runs one authorization with one call at a time already meets its
  own earlier hold, the batch, the late transaction and the revoked key; two
  are needed where one hold's failure harms another (`flex_finalize`). The
  horizon of `flex_tick` reaches expiry, refund timeout and finalization.
* In `flex_lossy` the buffer is the least that `BufferCovers` admits for a key
  cached for 2 slots, and the grace period is as short as the handler accepts.
  Within the 3 slots a key can be revoked behind the cache, leave its grace
  period, be closed and expire; of the two authorizations one expires before the
  key and one after it. So each term of the deadline decides for some hold:
  without the buffer, the expiry of the key or of the authorization, or the
  grace period of an active key, or with a cached key that is never fetched
  again, the run finds `SubmitsInTime` violated. All Flex runs take the slot
  estimate to be right: a buffer for a drift of one slot is at least 4 slots,
  too many for these horizons. Drift is left to the proofs.
* A duplicate needs two calls; the prune boundary needs a transaction that is
  dropped, one at exactly `MaxAge`, and a newer one.
* In `paid_fetch` one retry is enough for a second payment by the same fetch,
  and two fetches for a shared transaction. The version of the protocol plays
  no part in settlement, so servers of a single version settle in process only.
* In `server` two handlers are enough for a dispatch to go wrong and for one to
  be missing from an answer; with a cache of one entry two routes evict each
  other, and the third request meets what the first two left.
* In `evm` two calls are enough to share a nonce, and two gas prices for either
  of them to outbid the other. One wallet is empty and one has the funds
  of one payment, so that the balance looked up may be the wrong one.
* In `metering` a document is two tokens and the limits six, so that a limit
  falls within a document, between two lines of an event and between events.
  With coefficients in halves, and none from 4 on, the quotients of the rules
  are rounded up, down, to zero and to whole numbers, and one divides by zero.
  Each spec is there for a case of inheritance, routing, nesting or refusal.

Fairness. `flex_tick`: the interval keeps firing and its awaits end (polls are
bounded), and the network executes or drops every transaction. `gateway`:
nginx and the sidecar keep running and the upstream answers; `ServedIsBilled`
is about the requests that meet no fault. `charge`: every RPC call of
`handleSettle` returns or throws, as each has a timeout. No fairness is assumed
of clients, of restarts or of faults.

Six properties are conditional, because the code does not give more; the
conditions of `OneSuccessPerAuthorization` and `MissingOnlyIfFailed` were found
when their proofs failed.
`SettledIsTransferred` and `OneSuccessPerAuthorization` set aside a call whose
transaction was displaced by another with its nonce: viem returns the receipt
of the one that replaced it, and the facilitator does not compare hashes. Such
a call succeeds with an authorization that has not been settled, and that a
later call may settle again.
`RefusedIsUnpaid` sets aside handlers that throw after they settled, which the
routes and the MPP path answer with a 402. `PaysWithCoveredWallet` sets aside
two wallets for one id, of which the later one's balance is looked up for both,
and `VerdictIsRight` forwarders without a name, which are asked about the nonce
but not sent the transaction.
`MissingOnlyIfFailed` is about what a request without an MPP credential is
challenged with: one whose credential was refused is offered MPP challenges
only. (The server of the run that has MPP behind remote handlers is there for
this.)

### What the violations show

* **`flex_replay`.** `handler.ts` says a hold is created "to reserve funds and
  prevent replay". A submission that times out `maxSubmitRetries` times drops
  the hold; when it lands afterwards, the next `/verify` accepts the same
  authorization. (On chain it fails, so the service is given away.)
* **`flex_finalize`.** The interval is said to finalize confirmed transactions.
  Dropping one hold deletes the escrow's snapshot, and the tick's
  `finalizeReady()` then skips the escrow's other holds although they are due.
* **`gateway_zeroauth`.** At `/response` an MPP credential without
  `handleVerify` is taken as settled at `/request`. With an authorize
  expression of zero `/request` has not looked at it: a 200 deletes the capture
  and nothing is ever settled.

The comment at `body-filter.lua:43`, that the payment of an oversized response
"still settles against the authorized amount", is not what happens either:
without captured fields a capture expression that reads them throws, `/response`
answers 422 in every attempt, and nothing is settled. `Gateway` has this
(`CaptureThrows`), and its properties speak of responses that can be priced.
The comment at `shared.lua:184`, that an over-limit stream drops the capture, is
not what happens to fields captured before the limit: they stay and are sent.

A test of `evaluator.test.ts` is named "buildResult must ceil any positive
coefficient to at least 1 atomic unit", and tries 4e-7. With the 15 decimals
that the code keeps it is so from about 5e-16 on; 4e-16 is free. Likewise 1/3 at a
rate of 3e15 is charged 999999999999999, one unit less than it covers.
`ChargedForWhatWasServed` takes the rounding of the coefficient as given, and
`MeteringAmountIsClose` bounds what it makes.

## 4. Proofs

TLAPS checks these for every value of the constants that the named assumptions
admit. TLC evaluates the assumptions in each run. Every safety property of the
runs has a theorem, except those that the code violates.

| Module | Theorem | Statement |
| --- | --- | --- |
| `FlexFacilitator_proofs` | `TypeCorrect` | `Spec => []TypeOK` |
| | `SubmitsInTimeHolds` | `Spec => SubmitsInTime` |
| | `SettlesOnlyReported` | `Spec => []SettlesOnlyReportedAmounts` |
| | `FinalizesAfterTimeout` | `Spec => FinalizesAfterRefundTimeout` |
| | `ReceiptsMatchChain`, `NothingIsReplayed` | `Spec => []LastReceiptMatchesChain` and `Spec => NoReplay`, when `~Lossy` |
| `Gateway_proofs` | `GatewayTypes` | `Spec => []TypeOK` |
| | `ServesAuthorized`, `SettlesInOnePhase` | `ServedOnlyIfAuthorized`, `SettledInOnePhase` |
| | `CapturesAreKept` | `Spec => []KeptForEveryAttempt` |
| | `BillsAreSettled`, `BillsAreReported` | `BillDeletedOnlyWhenSettled` and `BilledIsReported`, when `"zeroAuth" \notin Rules` |
| `ChargeServer_proofs` | `ChargeTypeCorrect` | `Spec => []TypeOK` |
| | `ReceiptsAreForChallenges`, `ReceiptsPaid`, `SponsorsCharges` | `OneReceiptPerChallenge`, `ReceiptsArePaid`, `SponsorsOnlyCharges` |
| | `KeptUntilExpiry` | `Spec => []AcceptedUntilExpiry` (the property speaks of servers that were not restarted) |
| `ExactFacilitator_proofs` | `ExactTypeCorrect`, `PaymentsSettleOnce`, `SettlesPayments` | `TypeOK`, `OneReceiptPerPayment`, `SettlesOnlyPayments` |
| `PaidFetch_proofs` | `FetchTypeCorrect`, `ServedFetchIsPaid` | `TypeOK`, `ServedIsPaid` |
| | `FetchPaysOneAtATime` | `Spec => PaysOneAtATime` |
| | `FetchImplementsFacilitator` | `Spec => F!Spec`: the composition refines `ExactFacilitator` |
| `PaymentServer_proofs` | `ServerTypeCorrect` | `Spec => []TypeOK` |
| | `ServedWasPaid`, `RefusedWasNotPaid`, `OffersAreTaken` | `ServedForItsPayment`, `RefusedIsUnpaid`, `OfferedIsTaken` |
| | `ChallengesLackWhatFailed` | `Spec => MissingOnlyIfFailed` |
| `RidesPayer_proofs` | `PayerTypeCorrect` | `Spec => []TypeOK` of wallets, facilitator and chain |
| | `SuccessIsTransferred`, `AuthorizationsSettleOnce` | `SettledIsTransferred`, `OneSuccessPerAuthorization` |
| | `PaysCovered`, `VerdictsAreRight` | `PaysWithCoveredWallet`, `VerdictIsRight` |
| `Metering_proofs` | `MeteringTypeOK`, `MeteringCaptureIsFaithful` | `TypeOK`, `CaptureIsFaithful` |
| | `MeteringChargedForWhatWasServed` | `Spec => []ChargedForWhatWasServed` |
| | `MeteringAmountIsClose` | the distance between an amount and the exact product |

**Flex.** The parameters are natural numbers (`ParametersAreSlots`,
`PayloadsAreNumeric`), and the confirmation buffer covers the age of a cached
key, the polling of a batch and four times the jitter (`BufferCovers`): with
the defaults this leaves no room for jitter at all. The invariant is in layers.
`ClockInv` keeps slot and estimate near the clock; `KeyInv` dates the cached
key (one cached as active was not revoked before it was fetched); `DeadlineInv`
follows from both: the deadline of a hold respects a revocation the handler
has not seen. `BatchInv` ties the transactions being polled to the running
tick, `ChainInv` bounds the slot a settlement landed in by the slot recorded
for it, and `AmountInv` says that every amount under way was reported. None of
the properties is inductive alone: what matters is a revocation, or a landing,
that happened between two steps of the handler.

`NothingIsReplayed` and `ReceiptsMatchChain` are about a network on which no
transaction lands after the handler gave up on it (`flex_replay` shows what
happens on another). `ReplayInv` relates each hold to its settlement: nothing
is on chain before the outcome of a submission is "ok", a hold is not forgotten
while its settlement is pending, and both have the amount of the last receipt.
What it does not say is why an authorization whose settlement is finalized, and
whose hold is gone, cannot come back. That takes `ChainInv` (finalized no
earlier than it expires, because the program takes no expiry beyond the refund
timeout) and `CheckedInv` (a request that passed its checks has an
authorization that has not expired, whatever the error of the estimate).

**Gateway.** All actions concern one request, so the invariant `RequestInv` is
a predicate of one request's state: what `/request` may have done in each phase,
that a POST exists only for a request that was passed, that a 2xx is answered
only when nothing is owed or the payment is settled. `SettlesInOnePhase` needs
the link between credential, rule and phase that the code infers.
`CapturesAreKept` needs to know that the attempts fit into the TTL: `RetriesFit`
says that there are instants for them, each after the time-out and the back-off
of the one before and all before the TTL; it holds for the code's 3 attempts of
15 s and its back-off of 1 s and 2 s. With these instants at hand (`Kept`) a
capture whose next attempt is the n-th is as old as the n-th instant, so that
the proof does not need to compute powers of two.

**Charge server.** `CountInv` counts: an id in the store stands for a
consumption still to come. `UseInv` gives each running call a consumption of
its own, which no other call and no receipt has; `PaidInv` carries the check of
the transaction from verification to the receipt. `KeptInv` compares the expiry
of the store entry with the second in the id, through rounding.

**Exact facilitator.** A duplicate that is settled twice takes a transaction
that passes the duplicate check twice. `SeenInv`: one that passed is in the
store or has expired, since the store drops only what a newer transaction
proves expired (`HeightsAreSound`: of two transactions more than `MaxAge`
apart, the older has expired when the newer can be made). Hence a second call
can exist, but only one may still succeed: `UniqueInv` speaks of `Entitled`
calls, which excludes those that have yet to simulate an expired transaction.
Settlement accounts have no duplicate check. Concurrent calls all find the
account funded; `NewInv` gives each a transaction of its own and `AccountInv`
has the chain confirm one.

**Paid fetch.** `E` is `ExactFacilitator_proofs` instantiated with the fetches
as callers, so what is proved of the facilitator alone is cited here and not
proved again; its assumptions are those of `PaidFetch` (`FacilitatorConstants`,
`HeightsAreSound`). `FetchImplementsFacilitator` shows that each step of client
and server leaves the facilitator alone, starts a call or fetches an answer.
`ServerInv` then says which payment the facilitator is working on for whom: the
one attached to the request, also when the client has disconnected, and only
while the server is settling (or has answered 500, having lost the answer).
`ReceiptInv` gives each request that was settled a receipt, and with the
duplicate check one of its own: `UniqueInv` of the facilitator makes the second
call with a transaction fail, in whatever order the two arrive.
`FetchPaysOneAtATime` follows from `ServerInv`: while a settlement is in
progress the server has no 402 to give.

**Payment server.** The invariant is a predicate of one request (`Base`,
`Answered`) and one of a cache entry (`GoodEntry`). What is found for a request,
in the process, in a cache entry or in an answer under way, has the price of the
route and a handler that takes it; the lemmas on networks and adapters
(`NormalNetwork`, `NormalTranslated`, `Adapted`) carry this through the two
translations between versions, for any list of handlers and any naming of the
networks. `KindsAreNormal` says that handlers name their networks by CAIP-2
identifiers, as the code's handlers do. `MissingOnlyIfFailed` needs the age of
what is cached: an answer lacks what failed since it left the facilitator, an
entry what failed at most `MaxFlight` before its birth, so a challenge lacks
what failed within `MaxAge + MaxFlight`. `ServerTypeCorrect` includes that the
cache never exceeds its capacity and has one entry for a key, whatever order
answers arrive in.

**EVM and rides.** `Nonces` has the account's nonces mined in order and one
pending transaction at most for each of those to come, and `ExecutedOnce` has the
contract execute an authorization once; a call that succeeded (`CallOK`) has
the receipt of a mined transaction that succeeded, which is its own unless it
was displaced. For the payer, `LookupOK` says whose balance is looked up for an
id, and `Covered` that an option was viable because its wallet had the funds or
another one has its id. `PayerConstants` has keys give a list of wallets and
none of them be null.

**Metering.** `IInv` says what nginx keeps after any number of tokens, in terms
of the response alone: of an event stream, the tokens since the last newline,
and the text of the data lines since the last empty line (`Holds`); what is
captured is `Captured` at the same position. `ChunkCaptures` shows that a chunk
keeps this, token by token, up to the point where a limit is overrun; after it
the buffer is empty and what was captured stays (`Dropped`). Where the buffer
ends an event the response has a document with the same text (`StreamEnds`,
`TakeTokenNewLine`), and a document without any of the search keys has none of
the fields (`SkippedHasNone`): a field's path is never empty, because the
generator refuses a reference to the body as a whole (`AcceptedFields`). The
definitions are recursive functions over positions. That such a function exists
and what it computes is proved by induction over a set of natural numbers,
which follows from the well-foundedness of `<` (`NatSetInduction`).

`MeteringChargedForWhatWasServed` needs a second invariant, `Answered`: what
`/request` and `/response` answered are `Authorize` and `Capture` of the
document, the request and what was captured, none of which changes afterwards.
That these are the right price takes four arguments.

* *Expressions.* `IsSem` gives each node of an expression its value and the
  references it depends on that are nil. Collapsing an innermost `coalesce()`
  changes neither for any node that is left (`CollapseSem`), removes one
  `coalesce()` and adds none (`CollapseRemoves`, `CollapseTree`), and there is
  always an innermost one that comes first (`InnermostIsFound`). So what is left
  in the end has the value that `Meaning` gives (`ResolveIsMeaning`). What
  `coefficientToScaledBigInt` makes of it is the nearest multiple of
  `1 / Scale` (`RoundedIsNearest`, `ScaledIsCharged`), and the amount is the
  least that covers the rate times *that* (`LeastCovers`, `BuildIsPrice`) - not
  times the exact coefficient: `MeteringAmountIsClose` says by how much the two
  may differ. The induction is over the depth of a finite tree
  (`TreeInduction`).
* *Documents.* What is put at a path is found at it, and what is neither above
  nor below it stays (`AtPutBelow`, `AtPutBeside`); hence `ReconstructNested`
  finds every captured field again, in whichever order the fields are put
  (`NestedIs`) - provided that no field is a part of another.
* *Contexts.* What a rule reads of the captured response is what was served:
  the last value of a body field, a header, the status (`CapturedContextIs`,
  `ResponseRefServed`, `ServedAgrees`). A rule is matched with the request
  alone, also when the response is priced (`RequestPartWithResponse`), so both
  phases use the same rule (`RuleIsFirst`).
* *Routing.* When the generator warns of nothing, the location that nginx takes
  and the method lead to the operation that OpenAPI names (`OnePathIsNamed`,
  `MeteredAsNamed`).

The assumptions say what parsing has made of the inputs. `Templates`: the paths
of a spec differ, being keys of an object, and a URL has no parameters.
`RatesAreNumbers`: rates are whole numbers. `RulesAreParsed`: rules come in a
list, and an expression is a finite tree whose references name something.
`TokensAndDocuments`: a response has a status, headers and tokens, and the
paths of documents are sequences of keys.

`ChargedForWhatWasServed` speaks of locations whose captured fields do not
conflict (`NoPathConflicts(Fields)`). The generator refuses a rule that captures
a field and a part of it, because one would overwrite the other, but it looks at
one rule at a time, while `specToRoutes` has a location capture the fields of
all its rules. If one rule reads `usage` and another `usage.in`, what
`reconstruct_nested` makes of a stream depends on the order in which Lua
enumerates the fields.

**Only model-checked.** Liveness (`SettledHoldsMoveOn`, `ServedIsBilled`,
`EveryCallEnds`), which is out of the prover's reach. The three violations are
TLC's: a theorem cannot state them.

## 5. Not modelled

* Signatures, HMACs, encodings and headers: guards in the models.
* `jsonSize()`, array indices and JSONPath beyond keys and one equality filter;
  the operators and functions of `expr-eval` other than `+ - * /`; negative zero;
  the drift of doubles (the model's fractions are exact); the headers, the query
  and the path of a request as references. `MatchesSearchKeys` compares keys,
  `body-filter.lua` the text of a document with the encoded key: a key spelled
  with other escapes is skipped by the code. Path segments that mix a literal with a parameter, and the characters of a
  path. Only priced paths have locations, so a concrete path without a price is
  metered by a priced template that matches its URL, without a warning:
  `ChargedForWhatWasServed` is about priced paths.
* The text that the generator writes, the CLI, the loading of configurations.
* Hooks other than the capture hook (`afterVerify`, `afterSettle`), logging,
  `/supported`.
* The choice of an MPP challenge in the fetch client; settlement accounts as
  seen by a client; the Flex client's construction of an authorization.
* The challenge that `handleV2Request` makes when the settlement of an upto
  handler fails: `settle()` throws and drops it. Its headers, with the
  amount that was used, are left on the context and may go out with the 500
  that follows, which no client pays.
* Capabilities are compared without regard to case; names here have one case.
* The hold manager, the programs and contracts on chain, viem and the Solana
  kit: external, modelled from how the code uses them.
* Wallets (wrappers around signing libraries and devices), test harness,
  scripts.
* Eviction from a full shared dictionary; the growth of the `TransactionStore`.

## 6. Plan

1. An abstract "settle once" specification that both `ExactFacilitator` and
   `ChargeServer` implement.
2. `PaidFetch` with MPP over `ChargeServer`; liveness of the retry loop.
3. Several escrows behind `FlexFacilitator`, so that a failure in one is shown
   not to reach another, with the upto handler around it.
