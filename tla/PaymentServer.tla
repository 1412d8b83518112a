---------------------------- MODULE PaymentServer ----------------------------
(***************************************************************************)
(* A server that asks for payment, with all that packages/middleware lets  *)
(* it combine: several x402 handlers, in its process or behind the routes  *)
(* of packages/facilitator, their answers cached; MPP handlers next to     *)
(* them; and the upto handler of the flex scheme, which settles what was   *)
(* used.  PaidFetch follows one payment through one facilitator; this      *)
(* module is about which handler gets which payment, and what the          *)
(* challenges offer.                                                       *)
(*                                                                         *)
(* Lists of requirements are sets: their order only decides between        *)
(* requirements of the same kind, of which the model may take any.         *)
(***************************************************************************)
EXTENDS Integers, FiniteSets, Networks

CONSTANTS
    Requests,     \* concurrent requests
    Configs,      \* the servers to look at
    Routes,       \* what is sold, each route at its Price
    Price,
    HandlerSeq,   \* the x402 handlers, in order
    KindOf,       \* KindOf[h]: the scheme, network and asset h settles
    HasCapabilities,  \* the handlers that declare capabilities
    MPPHandlers,  \* the MPP handlers, in order: [method, currency, asset]
    Bodies,       \* the request bodies that have a digest
    Unsolicited,  \* payment headers that no challenge was asked for
    Faltering,    \* the handlers whose getRequirements() may fail
    Capacity, MaxAge,   \* of the accepts cache
    MaxFlight,    \* bound: how long an answer of /accepts travels
    MaxTime,      \* bound: the horizon of the clock, which only the cache
                  \* looks at
    MaxArrivals,  \* bound: how many requests are made
    None

Handlers == ToSet(HandlerSeq)
Versions == {1, 2}
Asset == [token : STRING, network : STRING]
Kinds == [scheme : STRING, network : AnyNetwork, asset : Asset]
X402Requirements ==
    [scheme : STRING, network : AnyNetwork, asset : Asset, amount : Nat]
MaxPrice == CHOOSE p \in {Price[x] : x \in Routes} :
               \A x \in Routes : Price[x] <= p

(* CommonMiddlewareArgs and what createMiddleware() or createUptoHandler() *)
(* make of them.  accepts: kinds as they were configured; override:        *)
(* acceptsOverride; first: verifyBeforeSettle.  "v1" is a server that      *)
(* speaks version 1 to the routes (external).                              *)
Config == [kind : {"hono", "express", "upto", "v1"}, first : BOOLEAN,
           remote : BOOLEAN, override : BOOLEAN, x402 : BOOLEAN,
           mpp : BOOLEAN, versions : (SUBSET Versions) \ {{}},
           accepts : SUBSET Kinds]

(* validateMiddlewareArgs(), and the arguments that only some have.        *)
ValidArgs(c) ==
    /\ c.x402 \/ c.mpp
    /\ c.accepts # {}
    /\ c.kind = "upto" => c.remote /\ c.override /\ c.versions = {2} /\ ~c.mpp
    /\ c.kind = "v1" => c.remote /\ c.override /\ c.versions = {1} /\ ~c.mpp
    /\ c.first => c.kind = "hono"
    /\ c.override => c.remote
    /\ c.remote => c.x402

ASSUME PaymentServerConstants ==
    /\ Capacity \in Nat \ {0} /\ MaxAge \in Nat \ {0}
    /\ MaxFlight \in Nat /\ MaxTime \in Nat /\ MaxArrivals \in Nat
    /\ MaxPrice \in Nat /\ \A x \in Routes : Price[x] \in 0..MaxPrice
    /\ Configs \subseteq Config /\ \A c \in Configs : ValidArgs(c)
    /\ HandlerSeq \in Seq(Handlers) /\ KindOf \in [Handlers -> Kinds]
    /\ MPPHandlers \in Seq([method : STRING, currency : STRING, asset : Asset])
    /\ Unsolicited \subseteq [ver : Versions, req : X402Requirements]
    /\ None \notin Handlers \cup {"200", "400", "402", "500"}

(* A handler's kind has its network by the CAIP-2 identifier.              *)
ASSUME KindsAreNormal ==
    \A h \in Handlers : NormalizeNetworkId(KindOf[h].network)
                            = KindOf[h].network

VARIABLES
    config,      \* the server's configuration, fixed when it starts
    time,
    mood,        \* whether getRequirements() of each handler answers in time
    failedAt,    \* history: when each handler last did not, or -1
    cache,       \* the accepts cache: entries, least recently used first
    reqs,        \* each request, where it is and what became of it
    arrived,     \* how many requests were made
    offered,     \* [ver, req]: the requirements that challenges contained
    challenges   \* the MPP challenges handed out

vars == <<config, time, mood, failedAt, cache, reqs, arrived, offered,
          challenges>>

-----------------------------------------------------------------------------
(* Networks, capabilities and requirements. *)

Requirement(kind, network, amount) ==
    [scheme |-> kind.scheme, network |-> network, asset |-> kind.asset,
     amount |-> amount]

(* adaptRequirementsV1ToV2(), adaptRequirementsV2ToV1().                   *)
AdaptV1ToV2(x) == [x EXCEPT !.network = NormalizeNetworkId(@)]
AdaptV2ToV1(x) == [x EXCEPT !.network = TranslateNetworkToLegacy(@)]

(* acceptsToPricing(): the server's pricing of a route.                    *)
AcceptsToPricing(route) ==
    {[network |-> NormalizeNetworkId(a.network), asset |-> a.asset,
      amount |-> Price[route]] : a \in config.accepts}

(* resolveConfig(): handlers in the process get the pricing as it is.      *)
ResolveConfig(route) ==
    IF config.remote THEN AcceptsToPricing(route)
    ELSE {[network |-> a.network, asset |-> a.asset, amount |-> Price[route]] :
             a \in config.accepts}

(* deriveCapabilities(): of the handler that stands for the facilitator.   *)
DeriveCapabilities ==
    [schemes |-> {a.scheme : a \in config.accepts},
     networks |-> {NormalizeNetworkId(a.network) : a \in config.accepts},
     assets |-> {a.asset : a \in config.accepts}]

(* The capabilities of a handler in the server's process.                  *)
Capabilities(h) == [schemes |-> {KindOf[h].scheme},
                    networks |-> {KindOf[h].network},
                    assets |-> {KindOf[h].asset}]

(* capabilitiesMatch(): empty lists match everything.                      *)
CapabilitiesMatch(caps, x) ==
    /\ caps.networks = {} \/ x.network \in caps.networks
    /\ caps.assets = {} \/ x.asset \in caps.assets

(* matchPricingToCapabilities() and pricingToAccepts().                    *)
PricingToAccepts(caps, route) ==
    {[scheme |-> s, network |-> p.network, asset |-> p.asset,
      amount |-> p.amount] :
        s \in caps.schemes,
        p \in {q \in ResolveConfig(route) : CapabilitiesMatch(caps, q)}}

(* generateMatcher(): each handler knows its network by one identifier.    *)
IsMatchingRequirement(h, x) ==
    /\ x.scheme = KindOf[h].scheme /\ x.network = KindOf[h].network
    /\ x.asset = KindOf[h].asset

(* getRequirements() of the handlers in hs.                                *)
Enriched(hs, accepts) ==
    {x \in accepts : \E h \in hs : IsMatchingRequirement(h, x)}

(* narrowHandlers(): the handlers in the server's process that may get a   *)
(* payment, by their places.                                               *)
NarrowHandlers(x) ==
    {i \in DOMAIN HandlerSeq :
        /\ HandlerSeq[i] \in HasCapabilities
        /\ CapabilitiesMatch(Capabilities(HandlerSeq[i]), x)}

-----------------------------------------------------------------------------
(* AgedLRUCache. *)

(* Mutant: the upto handler shares the cache of the middleware.            *)
CachedAlways == config.remote

(* createAcceptsCache(): the upto handler passes no cacheConfig.           *)
Cached == config.remote /\ config.kind \in {"hono", "express"}

Holds(key) == \E i \in DOMAIN cache : cache[i].key = key
At(key) == CHOOSE i \in DOMAIN cache : cache[i].key = key
Entry(key) == cache[At(key)]
Without(key) == IF Holds(key) THEN RemoveAt(cache, At(key)) ELSE cache

(* Mutant: the age of an entry is not looked at.                           *)
FreshForever(key) == Holds(key)

Fresh(key) == Holds(key) /\ time - Entry(key).birth < MaxAge

(* get(): a hit becomes the most recently used, an expired one is deleted. *)
CacheGet(key) ==
    IF Fresh(key) THEN Append(Without(key), Entry(key)) ELSE Without(key)

(* Mutant: a full cache grows.                                             *)
CachePutAlways(key, value) ==
    Append(Without(key), [key |-> key, birth |-> time, value |-> value])

(* put(): a new key evicts the least recently used when the cache is full. *)
CachePut(key, value) ==
    LET room == IF ~Holds(key) /\ Len(cache) >= Capacity
                  THEN Tail(cache) ELSE Without(key)
    IN  Append(room, [key |-> key, birth |-> time, value |-> value])

-----------------------------------------------------------------------------
(* Requests. *)

NoRequest == [pc |-> "idle", route |-> None, body |-> None, auth |-> None,
              ver |-> 0, accepted |-> None, found |-> {}, at |-> 0,
              req |-> None, ceiling |-> 0, spent |-> FALSE, by |-> None,
              settled |-> FALSE, threw |-> FALSE, unhandled |-> FALSE,
              reply |-> None]

(* Of a request q that was answered, what the properties ask for is kept.  *)
Reply(q, status) == [q EXCEPT !.pc = "done", !.reply = status, !.found = {},
                              !.at = 0, !.ceiling = 0, !.spent = FALSE]

(* The payments that answer an offer.  A payload of version 1 may leave    *)
(* the asset out.                                                          *)
Payments(o) ==
    {o.req} \cup {x \in {[o.req EXCEPT !.asset = None]} : o.ver = 1}

(* A request arrives, on a connection that may have had others before,     *)
(* with an MPP credential, an x402 payment that answers a challenge, one   *)
(* that does not, or nothing.                                              *)
Arrive(r, route, body) ==
    /\ reqs[r].pc \in {"idle", "done"} /\ arrived < MaxArrivals
    /\ arrived' = arrived + 1
    /\ body # None => config.mpp
    /\ config.override => route = CHOOSE x \in Routes : TRUE
    /\ LET new == [NoRequest EXCEPT !.pc = "resolving", !.route = route,
                                    !.body = body]
           As(x) == reqs' = [reqs EXCEPT ![r] = x]
       IN  \/ As(new)
           \/ \E c \in challenges : As([new EXCEPT !.auth = c])
           \/ \E o \in offered \cup Unsolicited : \E x \in Payments(o) :
                 As([new EXCEPT !.ver = o.ver, !.accepted = x])
    /\ UNCHANGED <<config, time, mood, failedAt, cache, offered, challenges>>

(* What the HTTP handler asks the facilitator for, which is also the key   *)
(* of the cache.                                                           *)
AcceptsToSend(route) ==
    IF config.override
      THEN {Requirement(a, NormalizeNetworkId(a.network), Price[route]) :
               a \in config.accepts}
      ELSE PricingToAccepts(DeriveCapabilities, route)

(* resolveMPPChallenges(): one for each handler that the pricing fits.     *)
ResolveMPPChallenges(r) ==
    IF ~config.mpp THEN {}
    ELSE {[handler |-> i, digest |-> reqs[r].body, route |-> reqs[r].route] :
            i \in {j \in DOMAIN MPPHandlers :
                     \E p \in ResolveConfig(reqs[r].route) :
                        p.asset = MPPHandlers[j].asset}}

(* sendPaymentRequired(): the x402 requirements, in the versions that are  *)
(* supported, and MPP challenges.                                          *)
SendPaymentRequired(r, q) ==
    /\ reqs' = [reqs EXCEPT ![r] = [Reply(q, "402") EXCEPT !.found = q.found]]
    /\ offered' = offered \cup [ver : config.versions, req : q.found]
    /\ challenges' = challenges \cup ResolveMPPChallenges(r)

(* sendPaymentRequired() of handleMPPRequest(): MPP challenges only.       *)
SendMPPRequired(r, settled) ==
    /\ reqs' = [reqs EXCEPT ![r] =
                  [Reply(reqs[r], "402") EXCEPT !.settled = settled]]
    /\ challenges' = challenges \cup ResolveMPPChallenges(r)
    /\ UNCHANGED offered

Continue(r, x) ==
    /\ reqs' = [reqs EXCEPT ![r] = x]
    /\ UNCHANGED <<offered, challenges>>

(* Mutant: digests are only compared when the credential has one.          *)
DigestMatchesLoosely(r) == reqs[r].auth.digest \in {reqs[r].body, None}

DigestMatches(r) == reqs[r].auth.digest = reqs[r].body

(* findMatching(): on the kind alone, on the asset if there is one.        *)
FindMatching(found, a) ==
    {x \in found : /\ x.scheme = a.scheme /\ a.asset \in {x.asset, None}
                   /\ NormalizeNetworkId(x.network)
                         = NormalizeNetworkId(a.network)}

(* handleV1Request() and handleV2Request(): the requirements the payment   *)
(* is for, and what is done first.  What version 1 clients are sent has    *)
(* the same network names as what version 2 clients are sent.              *)
HandleRequest(r, q) ==
    LET matching == FindMatching(q.found, q.accepted)
        first == IF config.first \/ config.kind = "upto"
                   THEN "verifying" ELSE "settling"
    IN  \/ matching = {} /\ SendPaymentRequired(r, q)
        \/ \E x \in matching :
              Continue(r, [q EXCEPT !.req = x, !.pc = first])

(* handleMPPRequest().                                                     *)
HandleMPPRequest(r, q) ==
    \/ DigestMatches(r) /\ Continue(r, [q EXCEPT !.pc = "settlingMPP"])
    \/ ~DigestMatches(r) /\ SendMPPRequired(r, FALSE)

(* handleMiddlewareRequest() once it has the requirements.  An MPP         *)
(* credential comes first.                                                 *)
HandleMiddlewareRequest(r, found, at) ==
    LET q == [reqs[r] EXCEPT !.found = found, !.at = at]
        credential == config.mpp /\ q.auth # None
        supported == q.ver \in config.versions /\ config.x402
    IN  \/ credential /\ HandleMPPRequest(r, q)
        \/ ~credential /\ q.ver = 0 /\ SendPaymentRequired(r, q)
        \/ /\ ~credential /\ q.ver # 0
           /\ \/ ~supported /\ Continue(r, Reply(q, "400"))
              \/ supported /\ HandleRequest(r, q)

-----------------------------------------------------------------------------
(* resolveX402Requirements(). *)

Quick == {h \in Handlers : mood[h] = "quick"}

(* Handlers in the server's process: those that declare capabilities that  *)
(* fit are asked; the exception of one is the request's.  Without x402     *)
(* handlers there is nothing to resolve.                                   *)
ResolveInProcess(r) ==
    LET q == reqs[r]
        asked == {h \in HasCapabilities \cap Handlers :
                     config.x402 /\ PricingToAccepts(Capabilities(h), q.route) # {}}
        found == UNION {Enriched({h}, PricingToAccepts(Capabilities(h), q.route)) :
                           h \in asked}
    IN  /\ q.pc = "resolving" /\ ~config.remote
        /\ \/ asked \subseteq Quick /\ HandleMiddlewareRequest(r, found, time)
           \/ ~(asked \subseteq Quick) /\ Continue(r, Reply(q, "500"))
        /\ UNCHANGED <<config, time, mood, failedAt, cache, arrived>>

(* getRequirements() of the HTTP handler: a hit is used at once, or the    *)
(* facilitator is asked.                                                   *)
LookUpAccepts(r) ==
    LET key == AcceptsToSend(reqs[r].route)
    IN  /\ reqs[r].pc = "resolving" /\ config.remote
        /\ \/ /\ Cached /\ Fresh(key)
              /\ HandleMiddlewareRequest(r, Entry(key).value,
                                         Entry(key).birth)
           \/ /\ ~(Cached /\ Fresh(key))
              /\ Continue(r, [reqs[r] EXCEPT !.pc = "asking"])
        /\ cache' = IF Cached THEN CacheGet(key) ELSE cache
        /\ UNCHANGED <<config, time, mood, failedAt, arrived>>

(* /accepts: allSettledWithTimeout() leaves out the handlers that fail or  *)
(* take too long.  A version 1 caller sends and gets legacy names.         *)
AcceptsRoute(r) ==
    LET sent == {AdaptV1ToV2(x) : x \in AcceptsToSend(reqs[r].route)}
        found == Enriched(Quick, sent)
    IN  /\ reqs[r].pc = "asking"
        /\ Continue(r, [reqs[r] EXCEPT
              !.pc = "answered", !.at = time,
              !.found = IF config.kind = "v1" THEN {AdaptV2ToV1(x) : x \in found}
                                              ELSE found])
        /\ UNCHANGED <<config, time, mood, failedAt, cache, arrived>>

(* The answer arrives and is cached, whatever it holds.                    *)
AcceptsArrive(r) ==
    /\ reqs[r].pc = "answered"
    /\ HandleMiddlewareRequest(r, reqs[r].found, time)
    /\ cache' = IF Cached
                  THEN CachePut(AcceptsToSend(reqs[r].route), reqs[r].found)
                  ELSE cache
    /\ UNCHANGED <<config, time, mood, failedAt, arrived>>

(* The facilitator cannot be reached, or its answer is not valid.          *)
AcceptsLost(r) ==
    /\ reqs[r].pc \in {"asking", "answered"}
    /\ Continue(r, Reply(reqs[r], "500"))
    /\ UNCHANGED <<config, time, mood, failedAt, cache, arrived>>

-----------------------------------------------------------------------------
(* verifyX402Payment(), settleX402Payment() and the routes behind them. *)

(* tryHandlers(), and the loops over candidates: the first handler that    *)
(* does not return null for the requirements.                              *)
AcceptingHandler(candidates, x) ==
    LET taking == {i \in candidates : IsMatchingRequirement(HandlerSeq[i], x)}
    IN  IF taking = {} THEN None
        ELSE HandlerSeq[CHOOSE i \in taking : \A j \in taking : i <= j]

(* The handler that a payment for x gets to: one in the process, or one    *)
(* behind /verify and /settle, where version 1 names are normalized and    *)
(* the server's own handler has to match first.                            *)
HandlerFor(x) ==
    IF ~config.remote THEN AcceptingHandler(NarrowHandlers(x), x)
    ELSE IF config.kind = "v1"
      THEN AcceptingHandler(DOMAIN HandlerSeq, AdaptV1ToV2(x))
    ELSE IF CapabilitiesMatch(DeriveCapabilities, x)
      THEN AcceptingHandler(DOMAIN HandlerSeq, x)
    ELSE None

(* The request ends because no handler takes its payment.  The routes      *)
(* answer success: false or isValid: false, which is a new challenge; in   *)
(* the server's process settleX402Payment() and verifyX402Payment() throw. *)
Unhandled(r) ==
    LET q == [reqs[r] EXCEPT !.unhandled = TRUE]
    IN  \/ config.remote /\ SendPaymentRequired(r, q)
        \/ ~config.remote /\ Continue(r, Reply(q, "500"))

(* verify(): it changes nothing at the handler.  /verify answers           *)
(* isValid: false for an exception too; in the process that is the         *)
(* request's, and so is a connection that is lost.                         *)
VerifyPayment(r) ==
    LET ok == [reqs[r] EXCEPT !.pc = IF config.kind = "upto"
                                       THEN "authorizing" ELSE "next"]
    IN  /\ reqs[r].pc = "verifying"
        /\ \/ HandlerFor(reqs[r].req) = None /\ Unhandled(r)
           \/ /\ HandlerFor(reqs[r].req) # None
              /\ \/ Continue(r, ok)
                 \/ SendPaymentRequired(r, reqs[r])
                 \/ Continue(r, Reply(reqs[r], "500"))
        /\ UNCHANGED <<config, time, mood, failedAt, cache, arrived>>

(* next(): the route runs before or after the settlement.                  *)
RunRoute(r) ==
    /\ reqs[r].pc = "next"
    /\ Continue(r, IF config.first THEN [reqs[r] EXCEPT !.pc = "settling"]
                                   ELSE Reply(reqs[r], "200"))
    /\ UNCHANGED <<config, time, mood, failedAt, cache, arrived>>

(* handleSettle() of the handler: it settles or does not, and answers so,  *)
(* or throws, which a settlement may precede.                              *)
HandleSettle(r) ==
    LET h == HandlerFor(reqs[r].req)
        As(settled, threw) == [reqs[r] EXCEPT !.pc = "answering", !.by = h,
                                 !.settled = settled, !.threw = threw]
    IN  /\ reqs[r].pc = "settling"
        /\ \/ h = None /\ Unhandled(r)
           \/ h # None /\ \E settled, threw \in BOOLEAN :
                             Continue(r, As(settled, threw))
        /\ UNCHANGED <<config, time, mood, failedAt, cache, arrived>>

(* Mutant: an exception in the server's process is a refusal.              *)
SettleThrewIs402(r) == "402"

(* The status when handleSettle() threw: the routes answer success: false. *)
SettleThrew(r) == IF config.remote THEN "402" ELSE "500"

(* The answer reaches the server, or the connection to the facilitator is  *)
(* lost.  A failure is a new challenge.  In upto settle() throws instead   *)
(* and drops the challenge that was made for it, whose headers may go out  *)
(* with the 500 that follows (which no client pays), and the route goes on. *)
SettleAnswered(r) ==
    LET q == reqs[r]
        failed == q.threw \/ ~q.settled
        status == IF q.threw THEN SettleThrew(r) ELSE "402"
    IN  /\ q.pc = "answering"
        /\ \/ /\ config.kind = "upto"
              /\ Continue(r, [q EXCEPT !.pc = "handling"])
           \/ /\ config.kind # "upto" /\ ~failed
              /\ Continue(r, IF config.first THEN Reply(q, "200")
                                             ELSE [q EXCEPT !.pc = "next"])
           \/ /\ config.kind # "upto" /\ failed /\ status = "402"
              /\ SendPaymentRequired(r, q)
           \/ /\ config.kind # "upto" /\ failed /\ status # "402"
              /\ Continue(r, Reply(q, status))
           \/ /\ config.kind # "upto" /\ config.remote
              /\ Continue(r, Reply(q, "500"))
        /\ UNCHANGED <<config, time, mood, failedAt, cache, arrived>>

-----------------------------------------------------------------------------
(* settleMPPPayment(). *)

(* The first handler of the credential's method that does not return null: *)
(* the charge handlers return null for another currency than theirs, and   *)
(* throw for a challenge that is not theirs.                               *)
AcceptingMPPHandler(c) ==
    LET mine == MPPHandlers[c.handler]
        taking == {i \in DOMAIN MPPHandlers :
                      /\ MPPHandlers[i].method = mine.method
                      /\ MPPHandlers[i].currency = mine.currency}
    IN  CHOOSE i \in taking : \A j \in taking : i <= j

(* settle() of handleMPPRequest(), before the route whatever               *)
(* verifyBeforeSettle says.  An exception, which a settlement may precede, *)
(* is a new challenge.                                                     *)
SettleMPPPayment(r) ==
    LET i == AcceptingMPPHandler(reqs[r].auth)
    IN  /\ reqs[r].pc = "settlingMPP"
        /\ \/ /\ i = reqs[r].auth.handler
              /\ Continue(r, [reqs[r] EXCEPT !.pc = "nextMPP", !.by = i,
                                             !.settled = TRUE])
           \/ \E settled \in BOOLEAN :
                 /\ settled => i = reqs[r].auth.handler
                 /\ SendMPPRequired(r, settled)
        /\ UNCHANGED <<config, time, mood, failedAt, cache, arrived>>

RunRouteMPP(r) ==
    /\ reqs[r].pc = "nextMPP"
    /\ Continue(r, Reply(reqs[r], "200"))
    /\ UNCHANGED <<config, time, mood, failedAt, cache, arrived>>

-----------------------------------------------------------------------------
(* createUptoHandler(). *)

(* authorize() sets the ceiling.                                           *)
Authorize(r) ==
    /\ reqs[r].pc = "authorizing"
    /\ \E ceiling \in 0..MaxPrice :
          Continue(r, [reqs[r] EXCEPT !.pc = "handling", !.ceiling = ceiling])
    /\ UNCHANGED <<config, time, mood, failedAt, cache, arrived>>

(* settle() throws when it was called before, or above the ceiling.        *)
MaySettle(r, amount) == ~reqs[r].spent /\ amount \in 0..reqs[r].ceiling

(* handle() calls settle(), which sets the amount in the requirements      *)
(* themselves: in all that refers to them.                                 *)
UptoSettle(r, amount) ==
    LET q == reqs[r]
        x == [q.req EXCEPT !.amount = amount]
        Swap(s) == IF q.req \in s THEN (s \ {q.req}) \cup {x} ELSE s
    IN  /\ q.pc = "handling" /\ MaySettle(r, amount)
        /\ Continue(r, [q EXCEPT !.pc = "settling", !.spent = TRUE,
                                 !.req = x, !.found = Swap(@)])
        /\ cache' = [i \in DOMAIN cache |->
                       IF cache[i].birth = q.at
                         THEN [cache[i] EXCEPT !.value = Swap(@)]
                         ELSE cache[i]]
        /\ UNCHANGED <<config, time, mood, failedAt, arrived>>

(* handle() returns, having settled or not, or throws.                     *)
UptoReturn(r) ==
    /\ reqs[r].pc = "handling"
    /\ \E status \in {"200", "500"} : Continue(r, Reply(reqs[r], status))
    /\ UNCHANGED <<config, time, mood, failedAt, cache, arrived>>

-----------------------------------------------------------------------------
(* The environment. *)

(* getRequirements() of a handler begins or ceases to fail.                *)
ChangeMood(h) ==
    /\ h \in Faltering
    /\ mood' = [mood EXCEPT ![h] = IF @ = "quick" THEN "failing" ELSE "quick"]
    /\ failedAt' = [failedAt EXCEPT ![h] = IF mood[h] = "quick" THEN time ELSE @]
    /\ UNCHANGED <<config, time, cache, reqs, arrived, offered, challenges>>

(* The HTTP client gives an answer up after MaxFlight.                     *)
Tick ==
    /\ time < MaxTime /\ Cached
    /\ \A r \in Requests :
          reqs[r].pc = "answered" => time < reqs[r].at + MaxFlight
    /\ time' = time + 1
    /\ failedAt' = [h \in Handlers |-> IF mood[h] = "failing" THEN time + 1
                                                             ELSE failedAt[h]]
    /\ UNCHANGED <<config, mood, cache, reqs, arrived, offered, challenges>>

Init ==
    /\ config \in Configs
    /\ time = 0
    /\ mood = [h \in Handlers |-> "quick"]
    /\ failedAt = [h \in Handlers |-> -1]
    /\ cache = <<>>
    /\ reqs = [r \in Requests |-> NoRequest] /\ arrived = 0
    /\ offered = {} /\ challenges = {}

Serve(r) ==
    \/ ResolveInProcess(r) \/ LookUpAccepts(r)
    \/ AcceptsRoute(r) \/ AcceptsArrive(r)
    \/ VerifyPayment(r) \/ RunRoute(r)
    \/ HandleSettle(r) \/ SettleAnswered(r)
    \/ SettleMPPPayment(r) \/ RunRouteMPP(r)
    \/ Authorize(r) \/ UptoReturn(r)

Next ==
    \/ \E r \in Requests :
          \/ \E route \in Routes, body \in Bodies \cup {None} :
                Arrive(r, route, body)
          \/ Serve(r) \/ AcceptsLost(r)
          \/ \E amount \in 0..MaxPrice : UptoSettle(r, amount)
    \/ \E h \in Handlers : ChangeMood(h)
    \/ Tick

Spec == Init /\ [][Next]_vars

-----------------------------------------------------------------------------
(* Properties. *)

Amounts == 0..MaxPrice

(* The state is well typed; the cache is within its capacity and has one   *)
(* entry for a key.                                                        *)
TypeOK ==
    /\ config \in Configs /\ time \in 0..MaxTime
    /\ Len(cache) <= Capacity
    /\ \A i, j \in DOMAIN cache : cache[i].key = cache[j].key => i = j
    /\ \A i \in DOMAIN cache : cache[i].birth \in 0..time
    /\ \A o \in offered : o.ver \in config.versions /\ o.req.amount \in Amounts
    /\ \A r \in Requests :
          /\ reqs[r].pc \in {"idle", "resolving", "asking", "answered",
                "verifying", "next", "settling", "answering", "settlingMPP",
                "nextMPP", "authorizing", "handling", "done"}
          /\ reqs[r].reply \in {None, "200", "400", "402", "500"}
          /\ reqs[r].ceiling \in Amounts

(* A challenge lacks a handler's requirements only if the handler failed   *)
(* within the time an answer travels and stays in the cache: a partial     *)
(* answer of /accepts, which is cached, does not outlive its maxAge, also  *)
(* when answers overtake each other.  (What is refused an MPP credential   *)
(* is offered MPP challenges only.)                                        *)
LacksOnlyFailed(r) ==
    LET challenged == /\ config.remote
                      /\ ~config.mpp \/ reqs[r].auth = None
                      /\ reqs[r].pc \in {"resolving", "answered"}
                      /\ reqs'[r].reply = "402"
        Wanted(h) == Enriched({h}, AcceptsToSend(reqs[r].route))
        Offers(h) == \A x \in Wanted(h) : FindMatching(reqs'[r].found, x) # {}
    IN  challenged => \A h \in Handlers :
           Offers(h) \/ failedAt[h] > time - MaxAge - MaxFlight

MissingOnlyIfFailed == [][\A r \in Requests : LacksOnlyFailed(r)]_vars

(* What a challenge offers is the price of a route, although settle() of   *)
(* the upto handler writes into the requirements it was given; and a       *)
(* handler takes it: a payment that answers the challenge is not refused   *)
(* for its version and never ends without a handler, whatever names the    *)
(* networks were configured by.                                            *)
OfferedIsTaken ==
    /\ \A o \in offered : \E route \in Routes : o.req.amount = Price[route]
    /\ \A r \in Requests :
          (\E o \in offered : /\ o.ver = reqs[r].ver
                              /\ reqs[r].accepted \in Payments(o))
             => reqs[r].reply # "400" /\ ~reqs[r].unhandled

(* "only allows the request to proceed if payment is successful": what is  *)
(* served was settled by the handler the challenge came from, an MPP       *)
(* credential for the same request body, an x402 payment for the price of  *)
(* the route.                                                              *)
ServedForItsPayment ==
    \A r \in Requests : LET q == reqs[r] IN
       q.reply = "200" /\ config.kind # "upto" =>
          /\ q.settled
          /\ IF q.auth # None
               THEN q.by = q.auth.handler /\ q.auth.digest = q.body
               ELSE /\ q.by # None /\ q.req.amount = Price[q.route]
                    /\ AdaptV1ToV2(q.req).network = KindOf[q.by].network
                    /\ q.req.scheme = KindOf[q.by].scheme

(* wrap() pays again when it gets a 402.  In the server's process no x402  *)
(* payment that was settled is answered with one; the routes, and the MPP  *)
(* path, do so for a handler that throws after it settled.                 *)
RefusedIsUnpaid ==
    \A r \in Requests : LET q == reqs[r] IN
       q.reply = "402" /\ q.settled => q.auth # None \/ (config.remote /\ q.threw)
=============================================================================
