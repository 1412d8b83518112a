----------------------------- MODULE PaidFetch -----------------------------
(***************************************************************************)
(* A paid request from end to end: the client that wrap() of packages/fetch*)
(* makes of fetch(), the server's middleware (packages/middleware) and the *)
(* exact facilitator behind it, in the server's process or behind the HTTP *)
(* routes of packages/facilitator.                                         *)
(*                                                                         *)
(* The client asks without a payment, pays what the 402 asks for, asks     *)
(* again with the payment, and starts over on another 402.  The server is  *)
(* the Hono middleware; the Express one is the case without                *)
(* verifyBeforeSettle.  x402 only: MPP challenges are in ChargeServer.     *)
(***************************************************************************)
EXTENDS Integers

CONSTANTS
    Fetches,         \* concurrent calls of the wrapped fetch()
    RetryCount,      \* retryCount
    NoPayment,
    Configs,         \* the server's configurations
    FixedMemo,       \* the requirements set extra.memo, so that payments of
                     \* two clients can be the same transaction
    Txs, Valid, Accounts, Born, Expires, Height, MaxAge, MaxRetries,
    DuplicateCheck, MaxBlock, MaxBuilt       \* see ExactFacilitator

Versions == {1, 2}

(* versions: supportedVersions, at least one of which is enabled; first:   *)
(* verifyBeforeSettle; remote: facilitatorURL.                             *)
Config == [versions : (SUBSET Versions) \ {{}},
           first : BOOLEAN, remote : BOOLEAN]

ASSUME PaidFetchConstants ==
    /\ RetryCount \in Nat /\ NoPayment \notin Txs
    /\ Configs \subseteq Config /\ FixedMemo \in BOOLEAN

VARIABLES
    config,   \* the server's configuration, fixed when it starts
    cache,    \* the accepts cache of the HTTP facilitator handler
    fetch,    \* each call of the wrapped fetch(): where it is, the attempts
              \* it has left, the protocol version and payment it attaches
    signed,   \* the payments clients have signed
    srv,      \* where the server is with the request of each fetch
    block, seen, highest, calls, chain, receipts   \* ExactFacilitator

F == INSTANCE ExactFacilitator WITH Calls <- Fetches

(* What ExactFacilitator assumes of its constants. *)
ASSUME FacilitatorConstants ==
    /\ Valid \subseteq Txs
    /\ Born \in [Txs -> Nat] /\ Expires \in [Txs -> Nat]
    /\ Height \in [Txs -> Nat]
    /\ MaxAge \in Nat /\ MaxRetries \in Nat \ {0} /\ MaxBlock \in Nat
    /\ MaxBuilt \in Nat
    /\ DuplicateCheck \in BOOLEAN
    /\ Txs \cap F!Built = {} /\ Txs \cap Accounts = {}

ASSUME HeightsAreSound ==
    \A t, u \in Txs : Height[u] > Height[t] + MaxAge => Born[u] > Expires[t]

clientVars == <<config, cache, fetch, signed, srv>>
facVars == <<block, seen, highest, calls, chain, receipts>>
vars == <<clientVars, facVars>>

Ended == {"served", "refused", "gaveUp", "threw"}

Fetch == [pc : {"idle", "phase1", "paying", "phase2", "backoff"} \cup Ended,
          left : 0..(RetryCount + 1), ver : {0} \cup Versions,
          pay : Txs \cup {NoPayment}]

(* Replies: 402 with the accepts the facilitator gave, or with none.       *)
Reply == {"200", "400", "402", "402 empty", "500"}

(* The client's, the server's and the facilitator's state are well typed.  *)
TypeOK ==
    /\ config \in Configs
    /\ cache \in {"none", "full", "empty"}
    /\ fetch \in [Fetches -> Fetch] /\ signed \subseteq Txs
    /\ srv \in [Fetches -> {"none", "resolving", "verifying", "next",
                            "settling"} \cup Reply]
    /\ F!TypeOK

-----------------------------------------------------------------------------
(* wrap() in packages/fetch. *)

Goto(f, pc) == fetch' = [fetch EXCEPT ![f].pc = pc]

(* makeRequest(): the first request, without a payment.                    *)
MakeRequest(f) ==
    /\ fetch[f].pc \in {"idle", "backoff"}
    /\ fetch' = [fetch EXCEPT ![f].pc = "phase1", ![f].ver = 0,
                              ![f].pay = NoPayment]
    /\ srv' = [srv EXCEPT ![f] = "resolving"]
    /\ UNCHANGED <<config, cache, signed, facVars>>

(* sendPaymentRequired(): version 2 is offered in the PAYMENT-REQUIRED     *)
(* header, version 1 in the body.                                          *)
Challenge == [header |-> 2 \in config.versions,
              body |-> 1 \in config.versions]

(* The client prefers the header.                                          *)
DetectedVersion == IF Challenge.header THEN 2 ELSE 1

(* The transaction exec() signs: with a blockhash of the chain, and equal  *)
(* to an earlier one only if the memo is not its own.                      *)
Signable(tx) == Born[tx] <= block /\ (tx \notin signed \/ FixedMemo)

(* processPaymentRequiredResponse(): with nothing to choose from, or with  *)
(* a wallet that fails, the call throws; otherwise a payment is signed.    *)
Pay(f) ==
    /\ fetch[f].pc = "paying"
    /\ \/ /\ srv[f] = "402" /\ (Challenge.header \/ Challenge.body)
          /\ \E tx \in Txs :
                /\ Signable(tx)
                /\ fetch' = [fetch EXCEPT ![f].pc = "phase2",
                                          ![f].ver = DetectedVersion,
                                          ![f].pay = tx]
                /\ signed' = signed \cup {tx}
          /\ srv' = [srv EXCEPT ![f] = "resolving"]
       \/ Goto(f, "threw") /\ UNCHANGED <<srv, signed>>
    /\ UNCHANGED <<config, cache, facVars>>

(* Mutant: the loop runs once more.                                        *)
AgainOnceMore(f) ==
    fetch' = [fetch EXCEPT ![f].left = @ - 1,
                           ![f].pc = IF fetch[f].left > 0 THEN "backoff"
                                                          ELSE "gaveUp"]

(* while (--attempt > 0).                                                  *)
Again(f) ==
    fetch' = [fetch EXCEPT ![f].left = @ - 1,
                           ![f].pc = IF fetch[f].left > 1 THEN "backoff"
                                                          ELSE "gaveUp"]

(* A response arrives.  Any but a 402 is returned; a 402 is paid, or, when *)
(* it answers a payment, has the whole exchange repeated.                  *)
Receive(f) ==
    /\ fetch[f].pc \in {"phase1", "phase2"} /\ srv[f] \in Reply
    /\ \/ /\ srv[f] = "200" /\ Goto(f, "served")
       \/ /\ srv[f] \in {"400", "500"} /\ Goto(f, "refused")
       \/ /\ srv[f] \in {"402", "402 empty"} /\ fetch[f].pc = "phase1"
          /\ Goto(f, "paying")
       \/ /\ srv[f] \in {"402", "402 empty"} /\ fetch[f].pc = "phase2"
          /\ Again(f)
    /\ UNCHANGED <<config, cache, signed, srv, facVars>>

(* The connection to the server breaks: fetch() rejects, the server goes   *)
(* on.                                                                     *)
Disconnect(f) ==
    /\ fetch[f].pc \in {"phase1", "phase2"}
    /\ Goto(f, "threw")
    /\ UNCHANGED <<config, cache, signed, srv, facVars>>

-----------------------------------------------------------------------------
(* The middleware. *)

(* Mutant: the payment is acted on before it is looked for.                *)
HandleWithoutPayment(f, accepts) ==
    srv' = [srv EXCEPT ![f] = IF config.first THEN "verifying"
                                              ELSE "settling"]

(* What the server does once it has the accepts: it challenges, rejects a  *)
(* version it does not support, challenges again when nothing matches, or  *)
(* turns to the payment.                                                   *)
HandleMiddlewareRequest(f, accepts) ==
    LET ver == fetch[f].ver
        challenge == IF accepts = "full" THEN "402" ELSE "402 empty"
    IN  srv' = [srv EXCEPT ![f] =
                  IF ver = 0 THEN challenge
                  ELSE IF ver \notin config.versions THEN "400"
                  ELSE IF accepts = "empty" THEN challenge
                  ELSE IF config.first THEN "verifying" ELSE "settling"]

(* What /accepts of the routes, or the handler in the server's process,    *)
(* may answer.  The routes leave out handlers that fail or take too long.  *)
Accepts == IF config.remote THEN {"full", "empty"} ELSE {"full"}

(* resolveX402Requirements(): from the cache, or from the facilitator,     *)
(* whose answer is cached whatever it holds.  A failing request, or        *)
(* handler in the server's process, throws, which the framework answers    *)
(* with a 500.                                                             *)
ResolveRequirements(f) ==
    /\ srv[f] = "resolving"
    /\ \/ /\ cache # "none"
          /\ HandleMiddlewareRequest(f, cache) /\ UNCHANGED cache
       \/ /\ cache = "none"
          /\ \E accepts \in Accepts :
                /\ HandleMiddlewareRequest(f, accepts)
                /\ cache' = IF config.remote THEN accepts ELSE cache
       \/ /\ cache = "none"
          /\ srv' = [srv EXCEPT ![f] = "500"] /\ UNCHANGED cache
    /\ UNCHANGED <<config, fetch, signed, facVars>>

(* The entry of the accepts cache reaches its maxAge.                      *)
ExpireAccepts ==
    /\ cache # "none"
    /\ cache' = "none"
    /\ UNCHANGED <<config, fetch, signed, srv, facVars>>

(* verify(), which changes nothing.  It throws when the handler does or    *)
(* the remote facilitator cannot be reached; a remote handler that throws  *)
(* answers isValid: false through the routes.                              *)
VerifyPayment(f) ==
    /\ srv[f] = "verifying"
    /\ \/ fetch[f].pay \in Valid /\ srv' = [srv EXCEPT ![f] = "next"]
       \/ fetch[f].pay \notin Valid /\ srv' = [srv EXCEPT ![f] = "402"]
       \/ srv' = [srv EXCEPT ![f] = "500"]
       \/ config.remote /\ srv' = [srv EXCEPT ![f] = "402"]
    /\ UNCHANGED <<config, cache, fetch, signed, facVars>>

(* next() runs the route, whose response, whatever it says, is the 200;    *)
(* the settlement, if it is still to come, follows.                        *)
RunRoute(f) ==
    /\ srv[f] = "next"
    /\ srv' = [srv EXCEPT ![f] = IF config.first THEN "settling" ELSE "200"]
    /\ UNCHANGED <<config, cache, fetch, signed, facVars>>

(* settle() calls the facilitator.                                         *)
Settle(f) ==
    /\ srv[f] = "settling"
    /\ F!ProcessPayment(f, fetch[f].pay)
    /\ UNCHANGED clientVars

(* Mutant: the route's response stands although the settlement failed.     *)
SettledKeepsResponse(f, res) ==
    IF config.first THEN "200"
    ELSE IF res = "ok" THEN "next" ELSE "402"

(* What the server learns of the facilitator's answer: the routes turn an  *)
(* exception into success: false.                                          *)
SettleRoute(res) == IF res = "throw" /\ config.remote THEN "error" ELSE res

(* The reply when the settlement has been answered.  After the route has   *)
(* run a failure replaces its response.                                    *)
Settled(f, res) ==
    CASE SettleRoute(res) = "ok" -> IF config.first THEN "200" ELSE "next"
      [] SettleRoute(res) = "error" -> "402"
      [] OTHER -> "500"

SettleAnswered(f) ==
    /\ srv[f] = "settling"
    /\ F!Return(f)
    /\ srv' = [srv EXCEPT ![f] = Settled(f, calls[f].res)]
    /\ UNCHANGED <<config, cache, fetch, signed>>

(* Mutant: a lost facilitator is reported like a refused payment.          *)
FacilitatorLostIs402(f) ==
    /\ srv[f] = "settling" /\ config.remote
    /\ srv' = [srv EXCEPT ![f] = "402"]
    /\ UNCHANGED <<config, cache, fetch, signed, facVars>>

(* The request to a remote facilitator fails, although the facilitator may *)
(* be at work on it.                                                       *)
FacilitatorLost(f) ==
    /\ srv[f] = "settling" /\ config.remote
    /\ srv' = [srv EXCEPT ![f] = "500"]
    /\ UNCHANGED <<config, cache, fetch, signed, facVars>>

-----------------------------------------------------------------------------
Init ==
    /\ config \in Configs
    /\ cache = "none"
    /\ fetch = [f \in Fetches |-> [pc |-> "idle", left |-> RetryCount + 1,
                                   ver |-> 0, pay |-> NoPayment]]
    /\ signed = {}
    /\ srv = [f \in Fetches |-> "none"]
    /\ F!Init

Client(f) == MakeRequest(f) \/ Pay(f) \/ Receive(f)

Server(f) ==
    \/ ResolveRequirements(f)
    \/ VerifyPayment(f)
    \/ RunRoute(f)
    \/ Settle(f)
    \/ SettleAnswered(f)

Facilitator(f) == F!Step(f) /\ UNCHANGED clientVars

Next ==
    \/ \E f \in Fetches :
          \/ Client(f) \/ Server(f) \/ Facilitator(f)
          \/ Disconnect(f) \/ FacilitatorLost(f)
    \/ ExpireAccepts
    \/ F!Chain /\ UNCHANGED clientVars

Spec == Init /\ [][Next]_vars

-----------------------------------------------------------------------------
(* Properties. *)

(* "only allows the request to proceed if payment is successful": what     *)
(* the client receives as served has its payment confirmed on chain, also  *)
(* when the route ran before the settlement; and with enableDuplicateCheck *)
(* no payment serves two requests, even if two clients' transactions are   *)
(* equal.                                                                  *)
ServedIsPaid ==
    \A f \in Fetches : fetch[f].pc = "served" =>
       /\ fetch[f].pay \in Txs /\ chain[fetch[f].pay] = "confirmed"
       /\ \A g \in Fetches \ {f} :
             DuplicateCheck /\ fetch[g].pc = "served"
                => fetch[g].pay # fetch[f].pay

(* wrap() signs another payment only when the facilitator is done with the *)
(* one before: a settlement still in progress never answers with a 402.    *)
PaysOneAtATime ==
    [][\A f \in Fetches :
          fetch[f].pc = "paying" /\ fetch'[f].pc = "phase2"
             => calls[f].pc = "idle"]_vars

(* Behind the middleware the facilitator runs as ExactFacilitator has it:  *)
(* handleSettle() is called with payments only, once their blockhashes     *)
(* exist, and each call it answers is one that was made.                   *)
ImplementsFacilitator == F!Spec
=============================================================================
