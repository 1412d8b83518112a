------------------------- MODULE PaymentServer_proofs -------------------------
(***************************************************************************)
(* Proofs about PaymentServer, for every server it may be configured as,   *)
(* any number of requests, handlers, routes and prices, and a cache of any *)
(* capacity and age.                                                       *)
(***************************************************************************)
EXTENDS PaymentServer, SequenceTheorems, WellFoundedInduction, TLAPS

-----------------------------------------------------------------------------
(* Types. *)

ChallengeType == [handler : DOMAIN MPPHandlers, digest : Bodies \cup {None},
                  route : Routes]

Places == {"idle", "resolving", "asking", "answered", "verifying", "next",
           "settling", "answering", "settlingMPP", "nextMPP", "authorizing",
           "handling", "done"}

(* What a payment says it is for: perhaps without the asset.               *)
Accepted == [scheme : STRING, network : AnyNetwork, asset : Asset \cup {None},
             amount : Nat]

RequestType ==
    [pc : Places, route : Routes \cup {None}, body : Bodies \cup {None},
     auth : ChallengeType \cup {None}, ver : {0, 1, 2},
     accepted : Accepted \cup {None}, found : SUBSET X402Requirements,
     at : Nat, req : X402Requirements \cup {None}, ceiling : Amounts,
     spent : BOOLEAN, by : Handlers \cup DOMAIN MPPHandlers \cup {None},
     settled : BOOLEAN, threw : BOOLEAN, unhandled : BOOLEAN,
     reply : {None, "200", "400", "402", "500"}]

EntryType == [key : SUBSET X402Requirements, birth : Nat,
              value : SUBSET X402Requirements]

Settings ==
    /\ config \in Configs /\ time \in 0..MaxTime /\ arrived \in Nat
    /\ mood \in [Handlers -> {"quick", "failing"}]
    /\ failedAt \in [Handlers -> Int]
    /\ \A h \in Handlers : /\ failedAt[h] <= time
                           /\ mood[h] = "failing" => failedAt[h] = time

-----------------------------------------------------------------------------
(* The inductive invariant, request by request. *)

(* The places where a request has an x402 payment.                         *)
Paying == {"verifying", "authorizing", "handling", "next", "settling",
           "answering"}

(* Which places a server of some kind has, and what a request has there.   *)
Placed(q) ==
    /\ q.pc # "done" => q.reply = None
    /\ q.pc # "idle" => q.route \in Routes
    /\ q.pc \in {"authorizing", "handling"} => config.kind = "upto"
    /\ q.pc = "verifying" => config.first \/ config.kind = "upto"
    /\ q.pc = "next" => config.kind # "upto"
    /\ q.pc \in {"asking", "answered"} => config.remote
    /\ q.pc \in {"settlingMPP", "nextMPP"} =>
          q.auth # None /\ q.auth.digest = q.body
    /\ q.pc \in Paying => q.auth = None /\ q.req \in X402Requirements
    /\ q.auth # None => config.mpp
    /\ q.found # {} => config.x402
    /\ q.reply = "400" => ~(q.ver \in config.versions /\ config.x402)

(* A request is settled once it was, by the handler it says.               *)
Settled(q) ==
    /\ q.pc \in {"idle", "resolving", "asking", "answered", "verifying",
                 "authorizing", "settlingMPP", "settling"} => ~q.settled
    /\ q.pc = "handling" /\ ~q.spent => ~q.settled
    /\ q.pc = "next" => (q.settled <=> ~config.first)
    /\ q.pc = "nextMPP" => q.settled /\ q.by = q.auth.handler
    /\ q.pc = "answering" \/ (q.pc = "next" /\ ~config.first)
          => q.by = HandlerFor(q.req)

(* What was found has a handler that takes it.                             *)
Taken(q) ==
    /\ ~q.unhandled
    /\ \A x \in q.found : HandlerFor(x) # None
    /\ q.pc \in Paying => HandlerFor(q.req) # None

(* Until settle() of the upto handler was called, the price is the route's. *)
Priced(q) ==
    /\ q.pc # "done" /\ q.spent =>
          config.kind = "upto" /\ q.pc \in {"handling", "settling", "answering"}
    /\ q.pc \in {"settling", "answering"} /\ config.kind = "upto" => q.spent
    /\ q.pc # "done" /\ ~q.spent =>
          /\ \A x \in q.found : x.amount = Price[q.route]
          /\ (q.pc \in Paying => q.req.amount = Price[q.route])

(* The found requirements have those that h would add to what was wanted.  *)
Complete(h, wanted, found) ==
    \A x \in Enriched({h}, wanted) : FindMatching(found, x) # {}

(* An answer of /accepts on its way lacks only what failed since it left.  *)
Answered(q) ==
    q.pc = "answered" =>
       /\ q.at <= time /\ time <= q.at + MaxFlight
       /\ config.kind # "v1" => q.found \subseteq AcceptsToSend(q.route)
       /\ \A h \in Handlers : \/ Complete(h, AcceptsToSend(q.route), q.found)
                              \/ failedAt[h] >= q.at

(* What is kept of a reply.                                                *)
Replied(q) ==
    /\ q.reply = "402" /\ q.settled =>
          q.auth # None \/ (config.remote /\ q.threw)
    /\ q.reply = "200" /\ config.kind # "upto" =>
          /\ q.settled
          /\ IF q.auth # None
               THEN q.by = q.auth.handler /\ q.auth.digest = q.body
               ELSE /\ q.by # None /\ q.req.amount = Price[q.route]
                    /\ AdaptV1ToV2(q.req).network = KindOf[q.by].network
                    /\ q.req.scheme = KindOf[q.by].scheme

Base(q) == /\ q \in RequestType
           /\ Placed(q) /\ Settled(q) /\ Taken(q) /\ Priced(q) /\ Replied(q)

Good(q) == Base(q) /\ Answered(q)

(* An entry of the cache: what it lacks failed while the answer travelled, *)
(* or later.                                                               *)
GoodEntry(e) ==
    /\ e \in EntryType /\ e.birth <= time
    /\ e.value \subseteq e.key
    /\ \A x \in e.value : HandlerFor(x) # None
    /\ \A h \in Handlers : \/ Complete(h, e.key, e.value)
                           \/ failedAt[h] >= e.birth - MaxFlight

CacheInv ==
    /\ cache \in Seq(EntryType) /\ Len(cache) <= Capacity
    /\ \A i, j \in DOMAIN cache : cache[i].key = cache[j].key => i = j
    /\ \A i \in DOMAIN cache : GoodEntry(cache[i])
    /\ ~Cached => cache = <<>>

RequestsInv == /\ DOMAIN reqs = Requests /\ reqs = [r \in Requests |-> reqs[r]]
               /\ \A r \in Requests : Good(reqs[r])

OffersInv ==
    /\ \A o \in offered :
          /\ o \in [ver : Versions, req : X402Requirements]
          /\ o.ver \in config.versions /\ config.x402
          /\ \E route \in Routes : o.req.amount = Price[route]
    /\ challenges \subseteq ChallengeType
    /\ challenges # {} => config.mpp

IInv == Settings /\ CacheInv /\ RequestsInv /\ OffersInv

-----------------------------------------------------------------------------
(* Networks. *)

(* The names of the two Solana networks, the preferred one first.          *)
LEMMA SolanaNames ==
    /\ DOMAIN KnownSolanaNetworks = {"solana:5eykt", "solana:EtWTR"}
    /\ ToSet(KnownSolanaNetworks["solana:5eykt"]) =
          {"solana-mainnet-beta", "solana"}
    /\ ToSet(KnownSolanaNetworks["solana:EtWTR"]) = {"solana-devnet"}
    /\ Head(KnownSolanaNetworks["solana:5eykt"]) = "solana-mainnet-beta"
    /\ Head(KnownSolanaNetworks["solana:EtWTR"]) = "solana-devnet"
<1>1. ToSet(<<"solana-mainnet-beta", "solana">>) = {"solana-mainnet-beta", "solana"}
    BY DEF ToSet
<1>2. ToSet(<<"solana-devnet">>) = {"solana-devnet"}
    BY DEF ToSet
<1> QED BY <1>1, <1>2 DEF KnownSolanaNetworks, SolanaMainnetBeta, SolanaDevnet

(* Normalizing the name of a network twice is normalizing it once.         *)
LEMMA NormalNetwork ==
    ASSUME NEW n \in AnyNetwork
    PROVE  /\ NormalizeNetworkId(n) \in AnyNetwork
           /\ NormalizeNetworkId(NormalizeNetworkId(n)) = NormalizeNetworkId(n)
<1> DEFINE found == LegacyNameToCAIP2(n) \cup LegacyNetworkIdToCAIP2(n)
           ids == {"eip155:8453", "eip155:84532", "solana:5eykt", "solana:EtWTR"}
<1>1. found \subseteq ids
    BY DEF LegacyNameToCAIP2, LegacyNetworkIdToCAIP2, KnownX402Networks,
           KnownSolanaNetworks, SolanaMainnetBeta, SolanaDevnet
<1>2. ASSUME NEW id \in ids
      PROVE  LegacyNameToCAIP2(id) \cup LegacyNetworkIdToCAIP2(id) = {}
    BY SolanaNames
       DEF LegacyNameToCAIP2, LegacyNetworkIdToCAIP2, KnownX402Networks
<1>3. ASSUME NEW id \in ids PROVE NormalizeNetworkId(id) = id
    BY <1>2 DEF NormalizeNetworkId
<1>4. CASE found = {}
    BY <1>4 DEF NormalizeNetworkId
<1>5. CASE found # {}
    <2>1. NormalizeNetworkId(n) \in ids
        BY <1>1, <1>5 DEF NormalizeNetworkId
    <2>2. \A id \in ids : id \in AnyNetwork
        BY SolanaNames DEF AnyNetwork, KnownX402Networks
    <2>3. \A id \in ids : NormalizeNetworkId(id) = id
        BY <1>3
    <2> HIDE DEF ids
    <2> QED BY <2>1, <2>2, <2>3
<1> QED BY <1>4, <1>5

(* The legacy name of a network is normalized to the network.              *)
LEMMA NormalTranslated ==
    ASSUME NEW n \in AnyNetwork, NormalizeNetworkId(n) = n
    PROVE  /\ TranslateNetworkToLegacy(n) \in AnyNetwork
           /\ NormalizeNetworkId(TranslateNetworkToLegacy(n)) = n
<1>1. CASE n \in DOMAIN KnownX402Networks
    <2>1. TranslateNetworkToLegacy(n) = KnownX402Networks[n]
        BY <1>1 DEF TranslateNetworkToLegacy
    <2>2. LegacyNameToCAIP2(KnownX402Networks[n]) = {n}
        BY <1>1 DEF LegacyNameToCAIP2, KnownX402Networks
    <2>3. LegacyNetworkIdToCAIP2(KnownX402Networks[n]) = {}
        BY <1>1, SolanaNames DEF LegacyNetworkIdToCAIP2, KnownX402Networks
    <2>4. TranslateNetworkToLegacy(n) \in AnyNetwork
        BY <1>1, <2>1 DEF AnyNetwork
    <2>5. (CHOOSE m \in {n} \cup {} : TRUE) = n
        OBVIOUS
    <2> QED BY <2>1, <2>2, <2>3, <2>4, <2>5 DEF NormalizeNetworkId
<1>2. CASE n \in DOMAIN KnownSolanaNetworks
    <2>1. TranslateNetworkToLegacy(n) = Head(KnownSolanaNetworks[n])
        BY <1>2 DEF TranslateNetworkToLegacy, KnownX402Networks,
                    KnownSolanaNetworks, SolanaMainnetBeta, SolanaDevnet
    <2>2. Head(KnownSolanaNetworks[n]) =
            IF n = SolanaMainnetBeta THEN "solana-mainnet-beta"
                                     ELSE "solana-devnet"
        BY <1>2 DEF KnownSolanaNetworks
    <2>3. LegacyNameToCAIP2(Head(KnownSolanaNetworks[n])) = {}
        BY <2>2 DEF LegacyNameToCAIP2, KnownX402Networks
    <2>4. LegacyNetworkIdToCAIP2(Head(KnownSolanaNetworks[n])) = {n}
        BY <1>2, <2>2, SolanaNames DEF LegacyNetworkIdToCAIP2, SolanaMainnetBeta
    <2>5. TranslateNetworkToLegacy(n) \in AnyNetwork
        BY <1>2, <2>1, <2>2, SolanaNames DEF AnyNetwork, SolanaMainnetBeta
    <2>6. (CHOOSE m \in {} \cup {n} : TRUE) = n
        OBVIOUS
    <2> QED BY <2>1, <2>3, <2>4, <2>5, <2>6 DEF NormalizeNetworkId
<1>3. CASE n \notin DOMAIN KnownX402Networks \cup DOMAIN KnownSolanaNetworks
    BY <1>3 DEF TranslateNetworkToLegacy
<1> QED BY <1>1, <1>2, <1>3

(* The adapters keep everything but the name of the network, and a         *)
(* requirement that goes to version 1 and back is the same.                *)
LEMMA Adapted ==
    ASSUME NEW x \in X402Requirements
    PROVE  /\ AdaptV1ToV2(x) \in X402Requirements
           /\ AdaptV1ToV2(x).amount = x.amount
           /\ AdaptV1ToV2(x).scheme = x.scheme /\ AdaptV1ToV2(x).asset = x.asset
           /\ AdaptV1ToV2(x).network = NormalizeNetworkId(x.network)
           /\ NormalizeNetworkId(x.network) = x.network =>
                /\ AdaptV1ToV2(x) = x
                /\ AdaptV2ToV1(x) \in X402Requirements
                /\ AdaptV2ToV1(x).amount = x.amount
                /\ AdaptV2ToV1(x).scheme = x.scheme
                /\ AdaptV2ToV1(x).asset = x.asset
                /\ NormalizeNetworkId(AdaptV2ToV1(x).network) = x.network
                /\ AdaptV1ToV2(AdaptV2ToV1(x)) = x
<1>1. x.network \in AnyNetwork
    BY DEF X402Requirements
<1> QED BY <1>1, NormalNetwork, NormalTranslated
        DEF X402Requirements, AdaptV1ToV2, AdaptV2ToV1

-----------------------------------------------------------------------------
(* What the facilitator and the server's own handlers find. *)

(* The configuration is one that createMiddleware() takes.                 *)
LEMMA ConfigFacts ==
    ASSUME Settings
    PROVE  config \in Config /\ ValidArgs(config)
    BY PaymentServerConstants DEF Settings

(* What the server asks for has the price of the route and networks by     *)
(* their CAIP-2 identifiers, and suits the handler that stands for the     *)
(* facilitator.                                                            *)
LEMMA Wanted ==
    ASSUME Settings, config.remote,
           NEW route \in Routes, NEW x \in AcceptsToSend(route)
    PROVE  /\ x \in X402Requirements /\ x.amount = Price[route]
           /\ NormalizeNetworkId(x.network) = x.network
           /\ CapabilitiesMatch(DeriveCapabilities, x)
<1>1. config \in Config /\ Price[route] \in Nat
    BY ConfigFacts, PaymentServerConstants
<1>2. CASE config.override
    <2>1. PICK a \in config.accepts :
             x = Requirement(a, NormalizeNetworkId(a.network), Price[route])
        BY <1>2 DEF AcceptsToSend
    <2>2. a \in Kinds
        BY <1>1 DEF Config
    <2> QED BY <1>1, <2>1, <2>2, NormalNetwork
            DEF Requirement, Kinds, X402Requirements, CapabilitiesMatch,
                DeriveCapabilities
<1>3. CASE ~config.override
    <2>1. x \in PricingToAccepts(DeriveCapabilities, route)
        BY <1>3 DEF AcceptsToSend
    <2>2. PICK s \in DeriveCapabilities.schemes,
               p \in ResolveConfig(route) :
             /\ CapabilitiesMatch(DeriveCapabilities, p)
             /\ x = [scheme |-> s, network |-> p.network, asset |-> p.asset,
                     amount |-> p.amount]
        BY <2>1 DEF PricingToAccepts
    <2>3. PICK a \in config.accepts :
             p = [network |-> NormalizeNetworkId(a.network), asset |-> a.asset,
                  amount |-> Price[route]]
        BY <2>2 DEF ResolveConfig, AcceptsToPricing
    <2>4. a \in Kinds /\ s \in STRING
        BY <1>1, <2>2 DEF Config, DeriveCapabilities, Kinds
    <2> QED BY <1>1, <2>2, <2>3, <2>4, NormalNetwork
            DEF Kinds, X402Requirements, CapabilitiesMatch
<1> QED BY <1>2, <1>3

Below == {pair \in Nat \X Nat : pair[1] < pair[2]}

(* A set of natural numbers has a least one.                               *)
LEMMA HasMinimum ==
    ASSUME NEW T \in SUBSET Nat, T # {}
    PROVE  \E i \in T : \A j \in T : i <= j
<1>1. IsWellFoundedOn(Below, Nat)
    BY NatLessThanWellFounded DEF OpToRel, Below
<1>2. PICK i \in T : \A j \in T : <<j, i>> \notin Below
    BY <1>1, WFMin
<1>3. ASSUME NEW j \in T PROVE i <= j
    <2>1. i \in Nat /\ j \in Nat /\ <<j, i>> \in Nat \X Nat
        OBVIOUS
    <2>2. ~(j < i)
        BY <1>2, <2>1 DEF Below
    <2> QED BY <2>1, <2>2
<1> QED BY <1>3

(* The first of the candidates that match is one of the handlers.          *)
LEMMA Accepting ==
    ASSUME NEW candidates \in SUBSET DOMAIN HandlerSeq, NEW x
    PROVE  LET h == AcceptingHandler(candidates, x)
           IN  /\ h = None <=> ~\E i \in candidates :
                                   IsMatchingRequirement(HandlerSeq[i], x)
               /\ h # None => h \in Handlers /\ IsMatchingRequirement(h, x)
<1> DEFINE taking ==
             {i \in candidates : IsMatchingRequirement(HandlerSeq[i], x)}
<1>1. HandlerSeq \in Seq(Handlers) /\ None \notin Handlers
    BY PaymentServerConstants
<1>2. taking \subseteq Nat
    BY <1>1
<1>3. CASE taking = {}
    BY <1>3 DEF AcceptingHandler
<1>4. CASE taking # {}
    <2>2. \E i \in taking : \A j \in taking : i <= j
        BY <1>2, <1>4, HasMinimum
    <2>3. PICK i \in taking : AcceptingHandler(candidates, x) = HandlerSeq[i]
        BY <1>4, <2>2 DEF AcceptingHandler
    <2> QED BY <1>1, <1>4, <2>3
<1> QED BY <1>3, <1>4

(* Who takes a payment settles its kind, on its network.                   *)
LEMMA TakenByKind ==
    ASSUME Settings, NEW x \in X402Requirements, HandlerFor(x) # None
    PROVE  /\ HandlerFor(x) \in Handlers
           /\ AdaptV1ToV2(x).network = KindOf[HandlerFor(x)].network
           /\ x.scheme = KindOf[HandlerFor(x)].scheme
<1>1. NarrowHandlers(x) \in SUBSET DOMAIN HandlerSeq
    BY DEF NarrowHandlers
<1>2. CASE ~config.remote
    BY <1>1, <1>2, Accepting, Adapted, KindsAreNormal
       DEF HandlerFor, IsMatchingRequirement
<1>3. CASE config.remote /\ config.kind = "v1"
    BY <1>3, Accepting, Adapted DEF HandlerFor, IsMatchingRequirement
<1>4. CASE config.remote /\ config.kind # "v1"
    BY <1>4, Accepting, Adapted, KindsAreNormal
       DEF HandlerFor, IsMatchingRequirement
<1> QED BY <1>2, <1>3, <1>4

(* The upto handler's settle() changes the amount only.                    *)
LEMMA TakenAtAnyAmount ==
    ASSUME Settings, config.kind = "upto", NEW x \in X402Requirements,
           HandlerFor(x) # None, NEW amount \in Nat
    PROVE  HandlerFor([x EXCEPT !.amount = amount]) # None
<1> DEFINE y == [x EXCEPT !.amount = amount]
<1>1. config.remote
    BY ConfigFacts DEF ValidArgs
<1>2. y.network = x.network /\ y.asset = x.asset /\ y.scheme = x.scheme
    BY DEF X402Requirements
<1>3. \E i \in DOMAIN HandlerSeq : IsMatchingRequirement(HandlerSeq[i], x)
    BY <1>1, Accepting DEF HandlerFor
<1>4. CapabilitiesMatch(DeriveCapabilities, x)
    BY <1>1 DEF HandlerFor
<1> HIDE DEF y
<1>5. \E i \in DOMAIN HandlerSeq : IsMatchingRequirement(HandlerSeq[i], y)
    BY <1>2, <1>3 DEF IsMatchingRequirement
<1>6. CapabilitiesMatch(DeriveCapabilities, y)
    BY <1>2, <1>4 DEF CapabilitiesMatch
<1>7. HandlerFor(y) # None
    BY <1>1, <1>5, <1>6, Accepting DEF HandlerFor
<1> QED BY <1>7 DEF y

(* What /accepts answers.                                                  *)
FacilitatorFound(route) ==
    LET sent == {AdaptV1ToV2(x) : x \in AcceptsToSend(route)}
        found == Enriched(Quick, sent)
    IN  IF config.kind = "v1" THEN {AdaptV2ToV1(x) : x \in found} ELSE found

(* What /accepts answers has the prices asked for and handlers that take   *)
(* it, and lacks only what handlers failed to add.                         *)
LEMMA FacilitatorFinds ==
    ASSUME Settings, config.remote, NEW route \in Routes
    PROVE  LET found == FacilitatorFound(route)
           IN  /\ found \in SUBSET X402Requirements
               /\ \A x \in found : x.amount = Price[route]
                                   /\ HandlerFor(x) # None
               /\ config.kind # "v1" => found \subseteq AcceptsToSend(route)
               /\ \A h \in Quick : Complete(h, AcceptsToSend(route), found)
<1> DEFINE wanted == AcceptsToSend(route)
           sent == {AdaptV1ToV2(x) : x \in wanted}
           enriched == Enriched(Quick, sent)
           found == FacilitatorFound(route)
<1>1. \A x \in wanted : /\ x \in X402Requirements /\ x.amount = Price[route]
                        /\ NormalizeNetworkId(x.network) = x.network
                        /\ CapabilitiesMatch(DeriveCapabilities, x)
    BY Wanted
<1>2. \A x \in wanted : AdaptV1ToV2(x) = x
    BY <1>1, Adapted
<1>3. sent = wanted
    BY <1>2
<1>4. enriched = {x \in wanted : \E h \in Quick : IsMatchingRequirement(h, x)}
    BY <1>3 DEF Enriched
<1>5. \A x \in enriched : \E i \in DOMAIN HandlerSeq :
                             IsMatchingRequirement(HandlerSeq[i], x)
    BY <1>4 DEF Quick, Handlers, ToSet
<1>6. \A x \in enriched : x \in wanted /\ x \in X402Requirements
    BY <1>1, <1>4
<1>7. \A h \in Quick : Enriched({h}, wanted) \subseteq enriched
    BY <1>4 DEF Enriched
<1> HIDE DEF wanted, sent, enriched
<1>8. CASE config.kind = "v1"
    <2>1. found = {AdaptV2ToV1(x) : x \in enriched}
        BY <1>8 DEF FacilitatorFound, enriched, sent, wanted
    <2>2. ASSUME NEW x \in enriched
          PROVE  /\ AdaptV2ToV1(x) \in X402Requirements
                 /\ AdaptV2ToV1(x).amount = Price[route]
                 /\ HandlerFor(AdaptV2ToV1(x)) # None
                 /\ FindMatching(found, x) # {}
        <3>1. /\ x \in X402Requirements /\ x.amount = Price[route]
              /\ NormalizeNetworkId(x.network) = x.network
            BY <1>1, <1>6
        <3>2. /\ AdaptV2ToV1(x) \in X402Requirements
              /\ AdaptV2ToV1(x).amount = x.amount
              /\ AdaptV2ToV1(x).scheme = x.scheme
              /\ AdaptV2ToV1(x).asset = x.asset
              /\ NormalizeNetworkId(AdaptV2ToV1(x).network) = x.network
              /\ AdaptV1ToV2(AdaptV2ToV1(x)) = x
            BY <3>1, Adapted
        <3>3. HandlerFor(AdaptV2ToV1(x)) = AcceptingHandler(DOMAIN HandlerSeq, x)
            BY <1>8, <3>2 DEF HandlerFor
        <3>4. HandlerFor(AdaptV2ToV1(x)) # None
            BY <1>5, <3>3, Accepting
        <3>5. AdaptV2ToV1(x) \in FindMatching(found, x)
            BY <2>1, <3>1, <3>2 DEF FindMatching
        <3> QED BY <3>1, <3>2, <3>4, <3>5
    <2>3. \A h \in Quick : Complete(h, wanted, found)
        BY <1>7, <2>2 DEF Complete
    <2> HIDE DEF found
    <2>4. /\ found \in SUBSET X402Requirements
          /\ \A x \in found : x.amount = Price[route] /\ HandlerFor(x) # None
        BY <2>1, <2>2
    <2> QED BY <1>8, <2>3, <2>4 DEF found, wanted
<1>9. CASE config.kind # "v1"
    <2>1. found = enriched
        BY <1>9 DEF FacilitatorFound, enriched, sent, wanted
    <2>2. ASSUME NEW x \in enriched
          PROVE  HandlerFor(x) # None /\ FindMatching(found, x) # {}
        <3>1. HandlerFor(x) # None
            BY <1>1, <1>5, <1>6, <1>9, Accepting DEF HandlerFor
        <3>2. x \in FindMatching(found, x)
            BY <2>1 DEF FindMatching
        <3> QED BY <3>1, <3>2
    <2>3. \A h \in Quick : Complete(h, wanted, found)
        BY <1>7, <2>2 DEF Complete
    <2> HIDE DEF found
    <2>4. /\ found \in SUBSET X402Requirements
          /\ \A x \in found : x.amount = Price[route] /\ HandlerFor(x) # None
          /\ found \subseteq wanted
        BY <1>1, <1>6, <2>1, <2>2
    <2> QED BY <2>3, <2>4 DEF found, wanted
<1> QED BY <1>8, <1>9

(* What the handlers in the server's process find.                         *)
LEMMA ServerFinds ==
    ASSUME Settings, ~config.remote, NEW route \in Routes,
           NEW h \in HasCapabilities \cap Handlers,
           NEW x \in Enriched({h}, PricingToAccepts(Capabilities(h), route))
    PROVE  /\ x \in X402Requirements /\ x.amount = Price[route]
           /\ HandlerFor(x) # None
<1>1. config \in Config /\ Price[route] \in Nat /\ KindOf[h] \in Kinds
    BY ConfigFacts, PaymentServerConstants
<1>2. x \in PricingToAccepts(Capabilities(h), route)
      /\ IsMatchingRequirement(h, x)
    BY DEF Enriched
<1>3. PICK s \in Capabilities(h).schemes, p \in ResolveConfig(route) :
         /\ CapabilitiesMatch(Capabilities(h), p)
         /\ x = [scheme |-> s, network |-> p.network, asset |-> p.asset,
                 amount |-> p.amount]
    BY <1>2 DEF PricingToAccepts
<1>4. PICK a \in config.accepts :
         p = [network |-> a.network, asset |-> a.asset, amount |-> Price[route]]
    BY <1>3 DEF ResolveConfig
<1>5. a \in Kinds /\ s \in STRING
    BY <1>1, <1>3 DEF Config, Capabilities, Kinds
<1>6. x \in X402Requirements /\ x.amount = Price[route]
    BY <1>1, <1>3, <1>4, <1>5 DEF Kinds, X402Requirements
<1>7. PICK i \in DOMAIN HandlerSeq : HandlerSeq[i] = h
    BY DEF Handlers, ToSet
<1>8. CapabilitiesMatch(Capabilities(h), x)
    BY <1>2 DEF CapabilitiesMatch, Capabilities, IsMatchingRequirement
<1>9. i \in NarrowHandlers(x)
    BY <1>7, <1>8 DEF NarrowHandlers
<1>10. NarrowHandlers(x) \in SUBSET DOMAIN HandlerSeq
    BY DEF NarrowHandlers
<1>11. HandlerFor(x) # None
    BY <1>2, <1>7, <1>9, <1>10, Accepting DEF HandlerFor
<1> QED BY <1>6, <1>11

-----------------------------------------------------------------------------
(* Steps that leave a request or an entry alone. *)

(* The configuration stays, and time and failures only go on.              *)
GoesOn ==
    /\ config' = config /\ time \in Nat /\ time' \in Nat /\ time <= time'
    /\ failedAt \in [Handlers -> Int] /\ failedAt' \in [Handlers -> Int]
    /\ \A h \in Handlers : failedAt[h] <= failedAt'[h]

(* What a fixed configuration determines is fixed.                         *)
LEMMA SameServer ==
    ASSUME config' = config
    PROVE  /\ \A x : HandlerFor(x)' = HandlerFor(x)
           /\ \A route : AcceptsToSend(route)' = AcceptsToSend(route)
           /\ Cached' = Cached
<1>1. ASSUME NEW x PROVE HandlerFor(x)' = HandlerFor(x)
    BY DEF HandlerFor, AcceptingHandler, NarrowHandlers, Capabilities,
           CapabilitiesMatch, DeriveCapabilities
<1>2. ASSUME NEW route PROVE AcceptsToSend(route)' = AcceptsToSend(route)
    BY DEF AcceptsToSend, PricingToAccepts, ResolveConfig, AcceptsToPricing,
           Capabilities,
           CapabilitiesMatch, DeriveCapabilities
<1> QED BY <1>1, <1>2 DEF Cached

(* With the same configuration a request is as good as before.             *)
LEMMA SameBase ==
    ASSUME config' = config, NEW q, Base(q)
    PROVE  Base(q)'
<1>1. \A x : HandlerFor(x)' = HandlerFor(x)
    BY SameServer
<1>2. Placed(q)' /\ Priced(q)' /\ Replied(q)'
    BY DEF Base, Placed, Priced, Replied
<1>3. Settled(q)' /\ Taken(q)'
    BY <1>1 DEF Base, Settled, Taken
<1> QED BY <1>2, <1>3 DEF Base

(* A request that is left alone stays good while time passes.              *)
LEMMA Later ==
    ASSUME GoesOn, NEW q, Good(q), q.pc = "answered" => time' <= q.at + MaxFlight
    PROVE  Good(q)'
<1>1. Base(q)'
    BY SameBase DEF GoesOn, Good
<1>2. \A route : AcceptsToSend(route)' = AcceptsToSend(route)
    BY SameServer DEF GoesOn
<1>3. ASSUME q.pc = "answered" PROVE Answered(q)'
    <2>1. q.at \in Nat
        BY DEF Good, Base, RequestType
    <2>2. ASSUME NEW h \in Handlers
          PROVE  \/ Complete(h, AcceptsToSend(q.route), q.found)'
                 \/ failedAt'[h] >= q.at
        <3>1. failedAt[h] \in Int /\ failedAt'[h] \in Int
            BY DEF GoesOn
        <3> QED BY <1>2, <1>3, <2>1, <3>1 DEF Good, Answered, GoesOn, Complete
    <2>3. /\ q.at <= time'
          /\ config'.kind # "v1" => q.found \subseteq AcceptsToSend(q.route)'
        BY <1>2, <1>3, <2>1 DEF Good, Answered, GoesOn
    <2> QED BY <1>3, <2>2, <2>3 DEF Answered
<1> QED BY <1>1, <1>3 DEF Good, Answered

(* A cache entry stays good while time passes.                             *)
LEMMA LaterEntry ==
    ASSUME GoesOn, NEW e, GoodEntry(e)
    PROVE  GoodEntry(e)'
<1>1. \A x : HandlerFor(x)' = HandlerFor(x)
    BY SameServer DEF GoesOn
<1>2. e.birth \in Nat /\ MaxFlight \in Nat
    BY PaymentServerConstants DEF GoodEntry, EntryType
<1>3. ASSUME NEW h \in Handlers
      PROVE  \/ Complete(h, e.key, e.value)'
             \/ failedAt'[h] >= e.birth - MaxFlight
    <2>1. failedAt[h] \in Int /\ failedAt'[h] \in Int
        BY DEF GoesOn
    <2> QED BY <1>2, <2>1 DEF GoodEntry, GoesOn, Complete
<1> QED BY <1>1, <1>2, <1>3 DEF GoodEntry, GoesOn

(* What a step of a request leaves alone.                                  *)
Aside == UNCHANGED <<config, time, mood, failedAt>>

(* A step that changes neither time nor moods lets time go on.             *)
LEMMA AsideGoesOn ==
    ASSUME Settings, Aside
    PROVE  GoesOn
    BY PaymentServerConstants DEF Settings, Aside, GoesOn

(* A step that changes one request.                                        *)
LEMMA OneRequest ==
    ASSUME IInv, Aside, NEW r \in Requests, NEW x, Good(x),
           reqs' = [reqs EXCEPT ![r] = x]
    PROVE  RequestsInv'
<1>1. GoesOn
    BY AsideGoesOn DEF IInv
<1>2. \A q : Good(q) => Good(q)'
    <2> SUFFICES ASSUME NEW q, Good(q) PROVE Good(q)'
        OBVIOUS
    <2>1. q.pc = "answered" => time' <= q.at + MaxFlight
        BY DEF Good, Answered, Aside
    <2> QED BY <1>1, <2>1, Later
<1>3. \A s \in Requests : Good(reqs'[s])
    BY DEF IInv, RequestsInv
<1>4. \A s \in Requests : Good(reqs[s])'
    BY <1>2, <1>3
<1>5. /\ DOMAIN reqs' = Requests
      /\ reqs' = [s \in Requests |-> reqs'[s]]
    BY DEF IInv, RequestsInv
<1> QED BY <1>4, <1>5 DEF RequestsInv

(* Without a new challenge there is no new offer.                          *)
LEMMA SameOffers ==
    ASSUME IInv, Aside, UNCHANGED <<offered, challenges>>
    PROVE  OffersInv'
    BY DEF IInv, OffersInv, Aside

(* A step of one request keeps the others good.                            *)
LEMMA ContinueKeeps ==
    ASSUME IInv, Aside, NEW r \in Requests, NEW x, Good(x), Continue(r, x)
    PROVE  RequestsInv' /\ OffersInv'
    BY OneRequest, SameOffers DEF Continue

(* A reply ends a request and keeps what is known of it.                   *)
LEMMA ReplyType ==
    ASSUME NEW q \in RequestType, NEW status \in {"200", "400", "402", "500"}
    PROVE  LET x == Reply(q, status)
           IN  /\ x \in RequestType /\ x.pc = "done" /\ x.found = {}
               /\ x.reply = status /\ x.route = q.route /\ x.auth = q.auth
               /\ x.ver = q.ver /\ x.unhandled = q.unhandled
               /\ x.settled = q.settled /\ x.threw = q.threw
               /\ x.by = q.by /\ x.req = q.req /\ x.body = q.body
<1>1. 0 \in Amounts /\ 0 \in Nat
    BY PaymentServerConstants DEF Amounts
<1>2. "done" \in Places
    BY DEF Places
<1>3. status \in {None, "200", "400", "402", "500"}
    OBVIOUS
<1> DEFINE x == Reply(q, status)
<1>4. /\ x.pc = "done" /\ x.found = {} /\ x.reply = status
      /\ x.route = q.route /\ x.auth = q.auth
      /\ x.ver = q.ver /\ x.unhandled = q.unhandled
      /\ x.settled = q.settled /\ x.threw = q.threw
      /\ x.by = q.by /\ x.req = q.req /\ x.body = q.body
    BY DEF RequestType, Reply
<1>5. x \in RequestType
    BY <1>1, <1>2, <1>3 DEF RequestType, Reply
<1> QED BY <1>4, <1>5

(* A reply that is neither a challenge nor a success.                      *)
LEMMA Refused ==
    ASSUME NEW q, Base(q), q.pc # "idle", NEW status \in {"400", "500"},
           status = "400" => ~(q.ver \in config.versions /\ config.x402)
    PROVE  Good(Reply(q, status))
<1> DEFINE x == Reply(q, status)
<1>1. x \in RequestType /\ x.pc = "done" /\ x.found = {} /\ x.reply = status
    BY ReplyType DEF Base
<1>2. /\ x.route = q.route /\ x.auth = q.auth /\ x.ver = q.ver
      /\ x.unhandled = q.unhandled
    BY ReplyType DEF Base
<1> HIDE DEF x
<1>3. Placed(x)
    BY <1>1, <1>2 DEF Base, Placed, Paying
<1>4. Settled(x) /\ Priced(x) /\ Replied(x) /\ Answered(x)
    BY <1>1 DEF Settled, Priced, Replied, Answered, Paying
<1>5. Taken(x)
    BY <1>1, <1>2 DEF Base, Taken, Paying
<1>6. Good(x)
    BY <1>1, <1>3, <1>4, <1>5 DEF Good, Base
<1> QED BY <1>6 DEF x

(* MPP challenges are made by servers that support MPP only.               *)
LEMMA ResolvedChallenges ==
    ASSUME IInv, NEW r \in Requests, reqs[r].pc # "idle"
    PROVE  /\ ResolveMPPChallenges(r) \subseteq ChallengeType
           /\ ResolveMPPChallenges(r) # {} => config.mpp
<1>1. reqs[r] \in RequestType /\ reqs[r].route \in Routes
    BY DEF IInv, RequestsInv, Good, Base, Placed
<1> QED BY <1>1 DEF ResolveMPPChallenges, ChallengeType, RequestType

(* A challenge with what was found.                                        *)
LEMMA SendKeeps ==
    ASSUME IInv, Aside, NEW r \in Requests, reqs[r].pc # "idle", NEW q,
           Base(q), q.pc \notin {"idle", "done"}, ~q.spent,
           q.settled => q.auth # None \/ (config.remote /\ q.threw),
           SendPaymentRequired(r, q)
    PROVE  RequestsInv' /\ OffersInv'
<1>1. PICK y : /\ y = Reply(q, "402")
               /\ reqs' = [reqs EXCEPT ![r] = [y EXCEPT !.found = q.found]]
    BY DEF SendPaymentRequired
<1>2. PICK x : /\ x = [y EXCEPT !.found = q.found]
               /\ reqs' = [reqs EXCEPT ![r] = x]
    BY <1>1
<1>3. /\ y \in RequestType /\ y.pc = "done" /\ y.reply = "402"
      /\ y.route = q.route /\ y.auth = q.auth /\ y.ver = q.ver
      /\ y.unhandled = q.unhandled /\ y.settled = q.settled
      /\ y.threw = q.threw
    BY <1>1, ReplyType DEF Base
<1>4. /\ x \in RequestType /\ x.pc = "done" /\ x.found = q.found
      /\ x.reply = "402"
    BY <1>2, <1>3 DEF Base, RequestType
<1>5. /\ x.route = q.route /\ x.auth = q.auth /\ x.ver = q.ver
      /\ x.unhandled = q.unhandled /\ x.settled = q.settled
      /\ x.threw = q.threw
    BY <1>2, <1>3 DEF RequestType
<1>6. None \notin {"200", "400", "402", "500"}
    BY PaymentServerConstants
<1>7. Placed(x) /\ Taken(x)
    BY <1>4, <1>5 DEF Base, Placed, Taken, Paying
<1>8. Settled(x) /\ Priced(x) /\ Answered(x) /\ Replied(x)
    BY <1>4, <1>5 DEF Settled, Priced, Answered, Replied
<1>9. RequestsInv'
    BY <1>2, <1>4, <1>7, <1>8, OneRequest DEF Good, Base
<1>10. ASSUME NEW o \in offered'
      PROVE  /\ o \in [ver : Versions, req : X402Requirements]
             /\ o.ver \in config.versions /\ config.x402
             /\ \E route \in Routes : o.req.amount = Price[route]
    <2>1. CASE o \in offered
        BY <2>1 DEF IInv, OffersInv
    <2>2. CASE o \in [ver : config.versions, req : q.found]
        <3>1. o.ver \in config.versions /\ o.req \in q.found
              /\ o = [ver |-> o.ver, req |-> o.req]
            BY <2>2
        <3>2. config.versions \subseteq Versions
            BY ConfigFacts DEF Config, IInv
        <3>3. q.found \subseteq X402Requirements
            BY DEF Base, RequestType
        <3>4. config.x402 /\ q.route \in Routes
              /\ o.req.amount = Price[q.route]
            BY <3>1 DEF Base, Placed, Priced
        <3> QED BY <3>1, <3>2, <3>3, <3>4
    <2> QED BY <2>1, <2>2 DEF SendPaymentRequired
<1>11. OffersInv'
    BY <1>10, ResolvedChallenges DEF IInv, OffersInv, SendPaymentRequired, Aside
<1> QED BY <1>9, <1>11

(* A challenge that refuses an MPP credential.                             *)
LEMMA SendMPPKeeps ==
    ASSUME IInv, Aside, NEW r \in Requests,
           reqs[r].pc \notin {"idle", "done"}, reqs[r].auth # None,
           NEW settled \in BOOLEAN, SendMPPRequired(r, settled)
    PROVE  RequestsInv' /\ OffersInv'
<1>1. PICK y : /\ y = Reply(reqs[r], "402")
               /\ reqs' = [reqs EXCEPT ![r] = [y EXCEPT !.settled = settled]]
    BY DEF SendMPPRequired
<1>2. PICK x : /\ x = [y EXCEPT !.settled = settled]
               /\ reqs' = [reqs EXCEPT ![r] = x]
    BY <1>1
<1>3. Base(reqs[r])
    BY DEF IInv, RequestsInv, Good
<1>4. /\ y \in RequestType /\ y.pc = "done" /\ y.found = {}
      /\ y.reply = "402" /\ y.route = reqs[r].route
      /\ y.auth = reqs[r].auth /\ y.unhandled = reqs[r].unhandled
    BY <1>1, <1>3, ReplyType DEF Base
<1>5. x \in RequestType /\ x.pc = "done" /\ x.found = {} /\ x.reply = "402"
    BY <1>2, <1>4 DEF RequestType
<1>6. /\ x.route = reqs[r].route /\ x.auth = reqs[r].auth
      /\ x.unhandled = reqs[r].unhandled
    BY <1>2, <1>4 DEF RequestType
<1>7. None \notin {"200", "400", "402", "500"}
    BY PaymentServerConstants
<1>8. Placed(x) /\ Taken(x)
    BY <1>3, <1>5, <1>6 DEF Base, Placed, Taken, Paying
<1>9. Settled(x) /\ Priced(x) /\ Answered(x) /\ Replied(x)
    BY <1>5, <1>6 DEF Settled, Priced, Answered, Replied
<1>10. RequestsInv'
    BY <1>2, <1>5, <1>8, <1>9, OneRequest DEF Good, Base
<1>11. OffersInv'
    BY ResolvedChallenges DEF IInv, OffersInv, SendMPPRequired, Aside
<1> QED BY <1>10, <1>11

(* What a request does once it has its requirements.                       *)
LEMMA MiddlewareKeeps ==
    ASSUME IInv, Aside, NEW r \in Requests,
           reqs[r].pc \in {"resolving", "answered"}, NEW at \in Nat,
           NEW found \in SUBSET X402Requirements,
           \A x \in found : /\ x.amount = Price[reqs[r].route]
                            /\ HandlerFor(x) # None,
           found # {} => config.x402,
           HandleMiddlewareRequest(r, found, at)
    PROVE  RequestsInv' /\ OffersInv'
<1>1. PICK q : q = [reqs[r] EXCEPT !.found = found, !.at = at]
    OBVIOUS
<1>2. Base(reqs[r])
    BY DEF IInv, RequestsInv, Good
<1>3. /\ q \in RequestType /\ q.found = found /\ q.pc = reqs[r].pc
      /\ q.route = reqs[r].route /\ q.auth = reqs[r].auth
      /\ q.body = reqs[r].body /\ q.ver = reqs[r].ver
      /\ q.spent = reqs[r].spent /\ q.settled = reqs[r].settled
      /\ q.unhandled = reqs[r].unhandled /\ q.reply = reqs[r].reply
    BY <1>1, <1>2 DEF Base, RequestType
<1>4. Placed(q) /\ Priced(q) /\ Replied(q)
    BY <1>2, <1>3, PaymentServerConstants
    DEF Base, Placed, Priced, Paying, Replied
<1>5. Settled(q) /\ Taken(q)
    BY <1>2, <1>3 DEF Base, Settled, Taken, Paying
<1>6. Base(q) /\ ~q.spent /\ ~q.settled /\ q.pc \notin {"idle", "done"}
    BY <1>3, <1>4, <1>5 DEF Base, Settled, Priced
<1>7. ASSUME SendPaymentRequired(r, q) PROVE RequestsInv' /\ OffersInv'
    BY <1>3, <1>6, <1>7, SendKeeps
<1>8. CASE config.mpp /\ q.auth # None /\ HandleMPPRequest(r, q)
    <2>1. CASE DigestMatches(r) /\ Continue(r, [q EXCEPT !.pc = "settlingMPP"])
        <3>1. PICK x : x = [q EXCEPT !.pc = "settlingMPP"]
            OBVIOUS
        <3>2. /\ x \in RequestType /\ x.found = found
              /\ x.pc = "settlingMPP" /\ x.route = q.route
              /\ x.auth = q.auth /\ x.body = q.body /\ x.ver = q.ver
              /\ x.spent = q.spent /\ x.settled = q.settled
              /\ x.unhandled = q.unhandled /\ x.reply = q.reply
            BY <1>3, <3>1 DEF RequestType, Places
        <3>3. Placed(x)
            BY <1>3, <1>4, <1>8, <2>1, <3>2 DEF Placed, Paying, DigestMatches
        <3>4. Priced(x) /\ Taken(x) /\ Settled(x)
            BY <1>3, <1>4, <1>5, <1>6, <3>2
            DEF Priced, Taken, Settled, Paying
        <3>5. Replied(x) /\ Answered(x)
            BY <1>4, <1>6, <3>2, <3>3, PaymentServerConstants
            DEF Placed, Replied, Answered
        <3>6. Good(x)
            BY <3>2, <3>3, <3>4, <3>5 DEF Good, Base
        <3> QED BY <2>1, <3>1, <3>6, ContinueKeeps
    <2>2. CASE SendMPPRequired(r, FALSE)
        BY <1>3, <1>6, <1>8, <2>2, SendMPPKeeps
    <2> QED BY <1>8, <2>1, <2>2 DEF HandleMPPRequest
<1>9. CASE /\ q.ver # 0 /\ ~(q.ver \in config.versions /\ config.x402)
           /\ Continue(r, Reply(q, "400"))
    BY <1>6, <1>9, Refused, ContinueKeeps
<1>10. CASE ~(config.mpp /\ q.auth # None) /\ config.x402 /\ HandleRequest(r, q)
    <2>1. CASE SendPaymentRequired(r, q)
        BY <1>7, <2>1
    <2>2. ASSUME NEW y \in found, NEW pc \in {"verifying", "settling"},
                 Continue(r, [q EXCEPT !.req = y, !.pc = pc]),
                 pc = "verifying" <=> config.first \/ config.kind = "upto"
          PROVE  RequestsInv' /\ OffersInv'
        <3>1. PICK x : x = [q EXCEPT !.req = y, !.pc = pc]
            OBVIOUS
        <3>2. /\ x \in RequestType /\ x.found = found /\ x.req = y
              /\ x.pc = pc /\ x.route = q.route
              /\ x.auth = q.auth /\ x.body = q.body /\ x.ver = q.ver
              /\ x.spent = q.spent /\ x.settled = q.settled
              /\ x.unhandled = q.unhandled /\ x.reply = q.reply
            BY <1>3, <3>1 DEF RequestType, Places
        <3>3. Placed(x)
            BY <1>3, <1>4, <1>10, <2>2, <3>2 DEF Placed, Paying
        <3>4. Priced(x) /\ Taken(x) /\ Settled(x)
            BY <1>3, <1>4, <1>5, <1>6, <2>2, <3>2
            DEF Priced, Taken, Settled, Paying
        <3>5. Replied(x) /\ Answered(x)
            BY <1>4, <1>6, <3>2, <3>3, PaymentServerConstants
            DEF Placed, Replied, Answered
        <3>6. Good(x)
            BY <3>2, <3>3, <3>4, <3>5 DEF Good, Base
        <3> QED BY <2>2, <3>1, <3>6, ContinueKeeps
    <2>3. FindMatching(q.found, q.accepted) \subseteq found
        BY <1>3 DEF FindMatching
    <2> QED BY <1>10, <2>1, <2>2, <2>3 DEF HandleRequest
<1> QED BY <1>1, <1>7, <1>8, <1>9, <1>10 DEF HandleMiddlewareRequest

-----------------------------------------------------------------------------
(* The cache. *)

(* w has the entries of a cache but that of one key.                       *)
WithoutThe(key, w) ==
    /\ w \in Seq(EntryType) /\ Len(w) <= Len(cache)
    /\ \A i, j \in DOMAIN w : w[i].key = w[j].key => i = j
    /\ \A i \in DOMAIN w : GoodEntry(w[i]) /\ w[i].key # key

(* The cache without an entry is a cache.                                  *)
LEMMA WithoutKeeps ==
    ASSUME CacheInv, NEW key
    PROVE  /\ WithoutThe(key, Without(key))
           /\ Holds(key) => /\ Entry(key).key = key /\ GoodEntry(Entry(key))
                            /\ Len(Without(key)) + 1 = Len(cache)
<1>1. CASE ~Holds(key)
    BY <1>1 DEF CacheInv, WithoutThe, Without, Holds
<1>2. CASE Holds(key)
    <2>1. PICK at : at = At(key)
        OBVIOUS
    <2>2. at \in DOMAIN cache /\ cache[at].key = key
        BY <1>2, <2>1 DEF Holds, At
    <2>3. PICK w : w = RemoveAt(cache, at)
        OBVIOUS
    <2>4. /\ w \in Seq(EntryType) /\ Len(w) + 1 = Len(cache)
          /\ \A i \in 1..Len(w) :
                w[i] = cache[IF i < at THEN i ELSE i + 1]
        <3>1. cache \in Seq(EntryType) /\ at \in 1..Len(cache)
            BY <2>2 DEF CacheInv
        <3>2. PICK u, v : /\ u = SubSeq(cache, 1, at - 1)
                          /\ v = SubSeq(cache, at + 1, Len(cache))
            OBVIOUS
        <3>3. /\ u \in Seq(EntryType) /\ Len(u) = at - 1
              /\ \A i \in 1..Len(u) : u[i] = cache[i]
            BY <3>1, <3>2
        <3>4. /\ v \in Seq(EntryType) /\ Len(v) = Len(cache) - at
              /\ \A i \in 1..Len(v) : v[i] = cache[at + i]
            BY <3>1, <3>2
        <3>5. w = u \o v
            BY <2>3, <3>2 DEF RemoveAt
        <3>6. w \in Seq(EntryType) /\ Len(w) = Len(u) + Len(v)
            <4>1. u \in Seq(EntryType) /\ v \in Seq(EntryType)
                BY <3>3, <3>4
            <4> QED BY <3>5, <4>1, ConcatProperties
        <3>7. ASSUME NEW i \in 1..Len(w)
              PROVE  w[i] = cache[IF i < at THEN i ELSE i + 1]
            <4>1. CASE i < at
                BY <3>1, <3>3, <3>4, <3>5, <3>6, <4>1
            <4>2. CASE ~(i < at)
                <5>1. i - Len(u) \in 1..Len(v) /\ at + (i - Len(u)) = i + 1
                    BY <3>1, <3>3, <3>4, <3>6, <4>2
                <5>2. w[i] = v[i - Len(u)]
                    BY <3>3, <3>4, <3>5, <3>6, <5>1
                <5> QED BY <3>4, <4>2, <5>1, <5>2
            <4> QED BY <4>1, <4>2
        <3>8. Len(w) + 1 = Len(cache)
            <4>1. /\ Len(cache) \in Nat /\ at \in 1..Len(cache)
                  /\ Len(w) = (at - 1) + (Len(cache) - at)
                BY <3>1, <3>3, <3>4, <3>6
            <4> QED BY <4>1
        <3>9. \A i \in 1..Len(w) : w[i] = cache[IF i < at THEN i ELSE i + 1]
            BY <3>7, Zenon
        <3>10. w \in Seq(EntryType)
            BY <3>6
        <3> QED BY <3>8, <3>9, <3>10
    <2>5. \A i \in 1..Len(w) : /\ (IF i < at THEN i ELSE i + 1) \in DOMAIN cache
                               /\ (IF i < at THEN i ELSE i + 1) # at
        BY <2>2, <2>4 DEF CacheInv
    <2>6. \A i \in DOMAIN w : GoodEntry(w[i]) /\ w[i].key # key
        BY <2>2, <2>4, <2>5 DEF CacheInv
    <2>7. \A i, j \in DOMAIN w : w[i].key = w[j].key => i = j
        <3> SUFFICES ASSUME NEW i \in 1..Len(w), NEW j \in 1..Len(w),
                            w[i].key = w[j].key
                     PROVE  i = j
            BY <2>4
        <3>1. (IF i < at THEN i ELSE i + 1) = (IF j < at THEN j ELSE j + 1)
            BY <2>4, <2>5 DEF CacheInv
        <3> QED BY <2>2, <3>1 DEF CacheInv
    <2>8. WithoutThe(key, w)
        BY <2>4, <2>6, <2>7 DEF WithoutThe, CacheInv
    <2> QED BY <1>2, <2>1, <2>2, <2>3, <2>4, <2>8
            DEF Without, Entry, CacheInv
<1> QED BY <1>1, <1>2

(* The cache without its least recently used entry is a cache.             *)
LEMMA TailKeeps ==
    ASSUME CacheInv, NEW key, ~Holds(key), Len(cache) > 0
    PROVE  WithoutThe(key, Tail(cache)) /\ Len(Tail(cache)) + 1 = Len(cache)
<1>1. PICK w : w = Tail(cache)
    OBVIOUS
<1>2. /\ w \in Seq(EntryType) /\ Len(w) + 1 = Len(cache)
      /\ \A i \in 1..Len(w) : i + 1 \in DOMAIN cache /\ w[i] = cache[i + 1]
    BY <1>1 DEF CacheInv
<1>3. ASSUME NEW i \in 1..Len(w) PROVE GoodEntry(w[i]) /\ w[i].key # key
    <2>1. i + 1 \in DOMAIN cache /\ w[i] = cache[i + 1]
        BY <1>2
    <2>2. GoodEntry(cache[i + 1]) /\ cache[i + 1].key # key
        BY <2>1 DEF CacheInv, Holds
    <2> QED BY <2>1, <2>2
<1>4. ASSUME NEW i \in 1..Len(w), NEW j \in 1..Len(w), w[i].key = w[j].key
      PROVE  i = j
    <2>1. i + 1 = j + 1
        BY <1>2, <1>4 DEF CacheInv
    <2> QED BY <2>1
<1>5. DOMAIN w = 1..Len(w)
    BY <1>2
<1> QED BY <1>1, <1>2, <1>3, <1>4, <1>5 DEF WithoutThe, CacheInv

(* A cache within its capacity, one good entry for a key, is good.         *)
LEMMA SetCache ==
    ASSUME IInv, Aside, NEW w, cache' = w, Cached,
           w \in Seq(EntryType), Len(w) <= Capacity,
           \A i, j \in DOMAIN w : w[i].key = w[j].key => i = j,
           \A i \in DOMAIN w : GoodEntry(w[i])
    PROVE  CacheInv'
<1>1. GoesOn
    BY AsideGoesOn DEF IInv
<1>2. \A i \in DOMAIN w : GoodEntry(cache'[i])
    OBVIOUS
<1>3. \A e : GoodEntry(e) => GoodEntry(e)'
    BY <1>1, LaterEntry
<1>4. \A i \in DOMAIN w : GoodEntry(cache[i])'
    BY <1>2, <1>3
<1>5. Cached'
    BY SameServer DEF Aside
<1> QED BY <1>4, <1>5 DEF CacheInv

(* A good entry may be added where there is room.                          *)
LEMMA AppendKeeps ==
    ASSUME IInv, Aside, NEW key, NEW w, WithoutThe(key, w),
           Len(w) < Capacity, NEW e, e.key = key, GoodEntry(e), Cached,
           cache' = Append(w, e)
    PROVE  CacheInv'
<1>1. PICK n : n = Append(w, e)
    OBVIOUS
<1>2. /\ n \in Seq(EntryType) /\ Len(n) = Len(w) + 1 /\ n[Len(n)] = e
      /\ \A i \in 1..Len(w) : n[i] = w[i]
    BY <1>1 DEF WithoutThe, GoodEntry
<1>3. /\ \A i, j \in DOMAIN n : n[i].key = n[j].key => i = j
      /\ \A i \in DOMAIN n : GoodEntry(n[i])
    BY <1>2 DEF WithoutThe
<1>4. Len(n) <= Capacity
    BY <1>2, PaymentServerConstants DEF WithoutThe
<1> QED BY <1>1, <1>2, <1>3, <1>4, SetCache

(* A cache left alone stays good.                                          *)
LEMMA CacheUnchanged ==
    ASSUME IInv, Aside, UNCHANGED cache
    PROVE  CacheInv'
<1>1. GoesOn
    BY AsideGoesOn DEF IInv
<1>2. \A e : GoodEntry(e) => GoodEntry(e)'
    BY <1>1, LaterEntry
<1>3. \A i \in DOMAIN cache : GoodEntry(cache[i])'
    BY <1>2 DEF IInv, CacheInv
<1>4. Cached' = Cached
    BY SameServer DEF Aside
<1> QED BY <1>3, <1>4 DEF IInv, CacheInv

(* A lookup moves or expires an entry and keeps the cache good.            *)
LEMMA CacheGetKeeps ==
    ASSUME IInv, Aside, NEW key,
           cache' = IF Cached THEN CacheGet(key) ELSE cache
    PROVE  CacheInv'
<1>1. CASE ~Cached
    BY <1>1, CacheUnchanged
<1>2. CASE Cached /\ Fresh(key)
    <2>1. cache' = Append(Without(key), Entry(key)) /\ Holds(key)
        BY <1>2 DEF CacheGet, Fresh
    <2>2. /\ WithoutThe(key, Without(key)) /\ Entry(key).key = key
          /\ GoodEntry(Entry(key)) /\ Len(Without(key)) + 1 = Len(cache)
        BY <2>1, WithoutKeeps DEF IInv
    <2>3. Len(Without(key)) < Capacity
        BY <2>2, PaymentServerConstants DEF WithoutThe, IInv, CacheInv
    <2> QED BY <1>2, <2>1, <2>2, <2>3, AppendKeeps
<1>3. CASE Cached /\ ~Fresh(key)
    <2>1. cache' = Without(key)
        BY <1>3 DEF CacheGet
    <2> QED BY <1>3, <2>1, WithoutKeeps, SetCache, PaymentServerConstants
            DEF IInv, CacheInv, WithoutThe
<1> QED BY <1>1, <1>2, <1>3

(* A new entry evicts one when the cache is full, and keeps it good.       *)
LEMMA CachePutKeeps ==
    ASSUME IInv, Aside, NEW key, NEW value,
           Cached => GoodEntry([key |-> key, birth |-> time, value |-> value]),
           cache' = IF Cached THEN CachePut(key, value) ELSE cache
    PROVE  CacheInv'
<1> DEFINE e == [key |-> key, birth |-> time, value |-> value]
<1>1. CASE ~Cached
    BY <1>1, CacheUnchanged
<1>2. CASE Cached /\ ~Holds(key) /\ Len(cache) >= Capacity
    <2>1. cache' = Append(Tail(cache), e)
        BY <1>2 DEF CachePut
    <2>2. Len(cache) \in Nat /\ Len(cache) <= Capacity /\ Len(cache) > 0
        BY <1>2, PaymentServerConstants DEF IInv, CacheInv
    <2>3. /\ WithoutThe(key, Tail(cache))
          /\ Len(Tail(cache)) + 1 = Len(cache)
        BY <1>2, <2>2, TailKeeps DEF IInv
    <2>4. Len(Tail(cache)) < Capacity
        BY <2>2, <2>3, PaymentServerConstants DEF WithoutThe
    <2> QED BY <1>2, <2>1, <2>3, <2>4, AppendKeeps
<1>3. CASE Cached /\ ~(~Holds(key) /\ Len(cache) >= Capacity)
    <2>1. cache' = Append(Without(key), e)
        BY <1>3 DEF CachePut
    <2>2. WithoutThe(key, Without(key))
        BY WithoutKeeps DEF IInv
    <2>3. Len(Without(key)) < Capacity
        <3>1. CASE Holds(key)
            BY <3>1, <2>2, WithoutKeeps, PaymentServerConstants
            DEF IInv, CacheInv, WithoutThe
        <3>2. CASE ~Holds(key)
            BY <1>3, <3>2, PaymentServerConstants DEF Without, IInv, CacheInv
        <3> QED BY <3>1, <3>2
    <2> QED BY <1>3, <2>1, <2>2, <2>3, AppendKeeps
<1> QED BY <1>1, <1>2, <1>3

-----------------------------------------------------------------------------
(* The steps of a request. *)

(* A request that moves on stays the same request.                         *)
LEMMA Moved ==
    ASSUME NEW q \in RequestType, NEW pc \in Places
    PROVE  LET x == [q EXCEPT !.pc = pc]
           IN  /\ x \in RequestType /\ x.pc = pc
               /\ x.route = q.route /\ x.body = q.body /\ x.auth = q.auth
               /\ x.ver = q.ver /\ x.found = q.found /\ x.at = q.at
               /\ x.req = q.req /\ x.spent = q.spent /\ x.by = q.by
               /\ x.settled = q.settled /\ x.threw = q.threw
               /\ x.unhandled = q.unhandled /\ x.reply = q.reply
    BY DEF RequestType

(* What the invariant says of one request.                                 *)
LEMMA RequestAt ==
    ASSUME IInv, NEW r \in Requests
    PROVE  /\ Base(reqs[r]) /\ Answered(reqs[r]) /\ reqs[r] \in RequestType
           /\ Settings /\ config \in Config /\ ValidArgs(config)
    BY ConfigFacts DEF IInv, RequestsInv, Good, Base

(* The configuration is not changed.                                       *)
LEMMA SettingsKept ==
    ASSUME Settings, Aside, arrived' \in Nat
    PROVE  Settings'
    BY DEF Settings, Aside

(* A step that leaves the cache alone has to keep requests and offers.     *)
LEMMA StepKeeps ==
    ASSUME IInv, Aside, UNCHANGED <<cache, arrived>>,
           RequestsInv' /\ OffersInv'
    PROVE  IInv'
    BY CacheUnchanged, SettingsKept DEF IInv, Settings

(* A request that has just arrived is good.                                *)
LEMMA NewRequest ==
    ASSUME Settings, NEW route \in Routes, NEW body \in Bodies \cup {None},
           NEW x, x \in RequestType, x.pc = "resolving", x.route = route,
           x.body = body, x.auth # None => config.mpp, x.found = {},
           x.spent = FALSE, x.settled = FALSE, x.unhandled = FALSE,
           x.reply = None
    PROVE  Good(x)
    BY PaymentServerConstants
    DEF Good, Base, Placed, Settled, Taken, Priced, Answered, Replied, Paying

(* A request arrives, at a server with or without a cache.                 *)
LEMMA ArriveKeeps ==
    ASSUME IInv, NEW r \in Requests, NEW route \in Routes,
           NEW body \in Bodies \cup {None}, Arrive(r, route, body)
    PROVE  IInv'
<1>1. Aside /\ UNCHANGED <<cache, offered, challenges>> /\ arrived' \in Nat
    <2>1. arrived \in Nat
        BY DEF IInv, Settings
    <2>2. arrived' = arrived + 1
        BY DEF Arrive
    <2>3. UNCHANGED <<config, time, mood, failedAt, cache, offered, challenges>>
        BY DEF Arrive
    <2> QED BY <2>1, <2>2, <2>3 DEF Aside
<1>2. ASSUME NEW x, Good(x), reqs' = [reqs EXCEPT ![r] = x] PROVE IInv'
    BY <1>1, <1>2, OneRequest, SameOffers, CacheUnchanged, SettingsKept DEF IInv
<1>3. 0 \in Amounts
    BY PaymentServerConstants DEF Amounts
<1>4. PICK new : new = [NoRequest EXCEPT !.pc = "resolving", !.route = route,
                                         !.body = body]
    OBVIOUS
<1>5. /\ new \in RequestType /\ new.pc = "resolving" /\ new.route = route
      /\ new.body = body /\ new.auth = None /\ new.found = {}
      /\ new.spent = FALSE /\ new.settled = FALSE
      /\ new.unhandled = FALSE /\ new.reply = None
    BY <1>3, <1>4 DEF NoRequest, RequestType, Places
<1>6. Settings
    BY DEF IInv
<1>7. CASE reqs' = [reqs EXCEPT ![r] = new]
    <2>1. Good(new)
        BY <1>5, <1>6, NewRequest
    <2> QED BY <1>2, <1>7, <2>1
<1>8. ASSUME NEW c \in challenges,
             reqs' = [reqs EXCEPT ![r] = [new EXCEPT !.auth = c]]
      PROVE  IInv'
    <2>1. PICK x : x = [new EXCEPT !.auth = c]
        OBVIOUS
    <2>2. c \in ChallengeType /\ config.mpp
        BY DEF IInv, OffersInv
    <2>3. /\ x \in RequestType /\ x.pc = "resolving" /\ x.route = route
          /\ x.body = body /\ x.found = {} /\ x.spent = FALSE
          /\ x.settled = FALSE /\ x.unhandled = FALSE /\ x.reply = None
        BY <1>5, <2>1, <2>2 DEF RequestType
    <2>4. Good(x)
        BY <1>6, <2>2, <2>3, NewRequest
    <2> QED BY <1>2, <1>8, <2>1, <2>4
<1>9. ASSUME NEW o \in offered \cup Unsolicited, NEW y \in Payments(o),
             reqs' = [reqs EXCEPT ![r] =
                        [new EXCEPT !.ver = o.ver, !.accepted = y]]
      PROVE  IInv'
    <2>1. PICK x : x = [new EXCEPT !.ver = o.ver, !.accepted = y]
        OBVIOUS
    <2>2. o.ver \in {0, 1, 2} /\ y \in Accepted
        <3>1. o.ver \in {0, 1, 2} /\ o.req \in X402Requirements
            BY PaymentServerConstants DEF IInv, OffersInv, Versions
        <3>2. y = o.req \/ y = [o.req EXCEPT !.asset = None]
            BY DEF Payments
        <3> QED BY <3>1, <3>2 DEF X402Requirements, Accepted
    <2>3. /\ x \in RequestType /\ x.pc = "resolving" /\ x.route = route
          /\ x.body = body /\ x.auth = None /\ x.found = {}
          /\ x.spent = FALSE /\ x.settled = FALSE
          /\ x.unhandled = FALSE /\ x.reply = None
        BY <1>5, <2>1, <2>2 DEF RequestType
    <2>4. Good(x)
        BY <1>6, <2>3, NewRequest
    <2> QED BY <1>2, <1>9, <2>1, <2>4
<1> QED BY <1>4, <1>7, <1>8, <1>9 DEF Arrive

(* Handlers in the process find the requirements.                          *)
LEMMA ResolveInProcessKeeps ==
    ASSUME IInv, NEW r \in Requests, ResolveInProcess(r)
    PROVE  IInv'
<1>1. Aside /\ UNCHANGED <<cache, arrived>>
    BY DEF ResolveInProcess, Aside
<1>2. /\ reqs[r].pc = "resolving" /\ ~config.remote
      /\ Base(reqs[r]) /\ reqs[r].route \in Routes /\ Settings
    BY RequestAt DEF ResolveInProcess, Base, Placed
<1>3. PICK asked, found :
         /\ asked = {h \in HasCapabilities \cap Handlers :
                       config.x402 /\ PricingToAccepts(Capabilities(h),
                                                       reqs[r].route) # {}}
         /\ found = UNION {Enriched({h}, PricingToAccepts(Capabilities(h),
                                                          reqs[r].route)) :
                             h \in asked}
         /\ \/ HandleMiddlewareRequest(r, found, time)
            \/ Continue(r, Reply(reqs[r], "500"))
    BY DEF ResolveInProcess
<1>4. \A x \in found : /\ x \in X402Requirements
                       /\ x.amount = Price[reqs[r].route]
                       /\ HandlerFor(x) # None
    <2> SUFFICES ASSUME NEW x \in found
                 PROVE  /\ x \in X402Requirements
                        /\ x.amount = Price[reqs[r].route]
                        /\ HandlerFor(x) # None
        OBVIOUS
    <2>1. PICK h \in HasCapabilities \cap Handlers :
             x \in Enriched({h}, PricingToAccepts(Capabilities(h), reqs[r].route))
        BY <1>3
    <2> QED BY <1>2, <2>1, ServerFinds
<1>5. found # {} => config.x402
    BY <1>3
<1>6. CASE HandleMiddlewareRequest(r, found, time)
    <2>1. time \in Nat
        BY <1>2, PaymentServerConstants DEF Settings
    <2> QED BY <1>1, <1>2, <1>4, <1>5, <1>6, <2>1, MiddlewareKeeps, StepKeeps
<1>7. CASE Continue(r, Reply(reqs[r], "500"))
    BY <1>1, <1>2, <1>7, Refused, ContinueKeeps, StepKeeps
<1> QED BY <1>3, <1>6, <1>7

(* The accepts are taken from the cache, or asked for.                     *)
LEMMA LookUpAcceptsKeeps ==
    ASSUME IInv, NEW r \in Requests, LookUpAccepts(r)
    PROVE  IInv'
<1>1. Aside /\ UNCHANGED arrived
    BY DEF LookUpAccepts, Aside
<1>2. PICK key : key = AcceptsToSend(reqs[r].route)
    OBVIOUS
<1>3. /\ reqs[r].pc = "resolving" /\ config.remote
      /\ Base(reqs[r]) /\ reqs[r].route \in Routes /\ Settings
      /\ config.x402 /\ reqs[r] \in RequestType
    BY RequestAt DEF LookUpAccepts, Base, Placed, ValidArgs
<1>4. CacheInv'
    BY <1>1, <1>2, CacheGetKeeps DEF LookUpAccepts
<1>5. Settings'
    BY <1>1, <1>3, SettingsKept DEF Settings
<1>6. CASE Cached /\ Fresh(key)
           /\ HandleMiddlewareRequest(r, Entry(key).value, Entry(key).birth)
    <2>1. Entry(key).key = key /\ GoodEntry(Entry(key))
        BY <1>6, WithoutKeeps DEF Fresh, IInv
    <2>2. /\ Entry(key).value \in SUBSET X402Requirements
          /\ Entry(key).birth \in Nat
          /\ Entry(key).value \subseteq key
        BY <2>1 DEF GoodEntry, EntryType
    <2>3. \A x \in Entry(key).value : /\ x.amount = Price[reqs[r].route]
                                      /\ HandlerFor(x) # None
        BY <1>2, <1>3, <2>1, <2>2, Wanted DEF GoodEntry
    <2>4. RequestsInv' /\ OffersInv'
        BY <1>1, <1>3, <1>6, <2>2, <2>3, MiddlewareKeeps
    <2> QED BY <1>4, <1>5, <2>4 DEF IInv
<1>7. CASE Continue(r, [reqs[r] EXCEPT !.pc = "asking"])
    <2>1. PICK x : x = [reqs[r] EXCEPT !.pc = "asking"]
        OBVIOUS
    <2>2. /\ x \in RequestType /\ x.pc = "asking"
          /\ x.route = reqs[r].route /\ x.auth = reqs[r].auth
          /\ x.found = reqs[r].found /\ x.spent = reqs[r].spent
          /\ x.settled = reqs[r].settled /\ x.ver = reqs[r].ver
          /\ x.unhandled = reqs[r].unhandled /\ x.reply = reqs[r].reply
        <3>1. "asking" \in Places
            BY DEF Places
        <3> QED BY <1>3, <2>1, <3>1, Moved
    <2>3. Placed(x)
        BY <1>3, <2>2 DEF Base, Placed, Paying
    <2>4. Settled(x) /\ Taken(x) /\ Priced(x)
        BY <1>3, <2>2 DEF Base, Settled, Taken, Priced, Paying
    <2>5. Replied(x) /\ Answered(x)
        BY <2>2, <2>3, PaymentServerConstants DEF Replied, Answered, Placed
    <2>6. RequestsInv' /\ OffersInv'
        BY <1>1, <1>7, <2>1, <2>2, <2>3, <2>4, <2>5, ContinueKeeps
        DEF Good, Base
    <2> QED BY <1>4, <1>5, <2>6 DEF IInv
<1> QED BY <1>2, <1>6, <1>7 DEF LookUpAccepts

(* The facilitator's route answers with what its handlers add in time.     *)
LEMMA AcceptsRouteKeeps ==
    ASSUME IInv, NEW r \in Requests, AcceptsRoute(r)
    PROVE  IInv'
<1>1. Aside /\ UNCHANGED <<cache, arrived>>
    BY DEF AcceptsRoute, Aside
<1>2. /\ reqs[r].pc = "asking" /\ config.remote /\ Base(reqs[r])
      /\ reqs[r].route \in Routes /\ Settings /\ reqs[r] \in RequestType
      /\ config.x402
    BY RequestAt DEF AcceptsRoute, Base, Placed, ValidArgs
<1>3. PICK found : found = FacilitatorFound(reqs[r].route)
    OBVIOUS
<1>4. PICK x : x = [reqs[r] EXCEPT !.pc = "answered", !.at = time,
                                   !.found = found]
    OBVIOUS
<1>5. Continue(r, x)
    BY <1>3, <1>4 DEF AcceptsRoute, FacilitatorFound
<1>6. /\ found \in SUBSET X402Requirements
      /\ \A y \in found : y.amount = Price[reqs[r].route]
                          /\ HandlerFor(y) # None
      /\ config.kind # "v1" => found \subseteq AcceptsToSend(reqs[r].route)
      /\ \A h \in Quick : Complete(h, AcceptsToSend(reqs[r].route), found)
    BY <1>2, <1>3, FacilitatorFinds
<1>7. time \in Nat /\ MaxFlight \in Nat /\ "answered" \in Places
    BY <1>2, PaymentServerConstants DEF Settings, Places
<1>8. /\ x \in RequestType /\ x.pc = "answered" /\ x.found = found
      /\ x.at = time /\ x.route = reqs[r].route /\ x.auth = reqs[r].auth
      /\ x.spent = reqs[r].spent /\ x.settled = reqs[r].settled
      /\ x.ver = reqs[r].ver /\ x.unhandled = reqs[r].unhandled
      /\ x.reply = reqs[r].reply
    BY <1>2, <1>4, <1>6, <1>7 DEF RequestType
<1>9. Placed(x)
    BY <1>2, <1>8 DEF Base, Placed, Paying
<1>10. Settled(x) /\ Taken(x) /\ Priced(x)
    BY <1>2, <1>6, <1>8 DEF Base, Settled, Taken, Priced, Paying
<1>11. Replied(x)
    BY <1>8, <1>9, PaymentServerConstants DEF Replied, Placed
<1>12. ASSUME NEW h \in Handlers
       PROVE  \/ Complete(h, AcceptsToSend(x.route), x.found)
              \/ failedAt[h] >= x.at
    BY <1>2, <1>6, <1>7, <1>8 DEF Settings, Quick
<1>13. Answered(x)
    BY <1>6, <1>7, <1>8, <1>12 DEF Answered
<1>14. Good(x)
    BY <1>8, <1>9, <1>10, <1>11, <1>13 DEF Good, Base
<1> QED BY <1>1, <1>5, <1>14, ContinueKeeps, StepKeeps

(* The answer arrives, is matched, and is cached.                          *)
LEMMA AcceptsArriveKeeps ==
    ASSUME IInv, NEW r \in Requests, AcceptsArrive(r)
    PROVE  IInv'
<1>1. Aside /\ UNCHANGED arrived
    BY DEF AcceptsArrive, Aside
<1>2. /\ reqs[r].pc = "answered" /\ Base(reqs[r]) /\ Answered(reqs[r])
      /\ reqs[r].route \in Routes /\ Settings /\ reqs[r] \in RequestType
    BY RequestAt DEF AcceptsArrive, Base, Placed
<1>3. PICK key, found : /\ key = AcceptsToSend(reqs[r].route)
                        /\ found = reqs[r].found
    OBVIOUS
<1>4. /\ found \in SUBSET X402Requirements
      /\ found # {} => config.x402
      /\ \A x \in found : /\ x.amount = Price[reqs[r].route]
                          /\ HandlerFor(x) # None
    BY <1>2, <1>3 DEF Base, RequestType, Placed, Taken, Priced
<1>5. time \in Nat /\ MaxFlight \in Nat /\ reqs[r].at \in Nat
    BY <1>2, PaymentServerConstants DEF Settings, RequestType
<1>6. RequestsInv' /\ OffersInv'
    BY <1>1, <1>2, <1>3, <1>4, <1>5, MiddlewareKeeps DEF AcceptsArrive
<1>7. ASSUME Cached
      PROVE  GoodEntry([key |-> key, birth |-> time, value |-> found])
    <2>1. PICK e : e = [key |-> key, birth |-> time, value |-> found]
        OBVIOUS
    <2>2. key \in SUBSET X402Requirements
        BY <1>2, <1>3, <1>7, Wanted DEF Cached
    <2>3. e \in EntryType /\ e.key = key /\ e.birth = time /\ e.value = found
        BY <1>4, <1>5, <2>1, <2>2 DEF EntryType
    <2>4. found \subseteq key
        BY <1>2, <1>3, <1>7 DEF Answered, Cached
    <2>5. ASSUME NEW h \in Handlers
          PROVE  Complete(h, key, found) \/ failedAt[h] >= time - MaxFlight
        <3>1. failedAt[h] \in Int
            BY <1>2 DEF Settings
        <3>2. Complete(h, key, found) \/ failedAt[h] >= reqs[r].at
            BY <1>2, <1>3 DEF Answered
        <3>3. time <= reqs[r].at + MaxFlight
            BY <1>2 DEF Answered
        <3> QED BY <1>5, <3>1, <3>2, <3>3
    <2>6. GoodEntry(e)
        BY <1>4, <1>5, <2>3, <2>4, <2>5 DEF GoodEntry
    <2> QED BY <2>1, <2>6
<1>8. cache' = IF Cached THEN CachePut(key, found) ELSE cache
    BY <1>3 DEF AcceptsArrive
<1>9. CacheInv'
    BY <1>1, <1>7, <1>8, CachePutKeeps
<1>10. Settings'
    BY <1>1, <1>2, SettingsKept DEF Settings
<1> QED BY <1>6, <1>9, <1>10 DEF IInv

(* A lost answer ends the request.                                         *)
LEMMA AcceptsLostKeeps ==
    ASSUME IInv, NEW r \in Requests, AcceptsLost(r)
    PROVE  IInv'
<1>1. Aside /\ UNCHANGED <<cache, arrived>>
    BY DEF AcceptsLost, Aside
<1> QED BY <1>1, RequestAt, Refused, ContinueKeeps, StepKeeps DEF AcceptsLost

(* A request that only moves on, to where the same holds.                  *)
LEMMA MovedKeeps ==
    ASSUME IInv, NEW r \in Requests, Aside, UNCHANGED <<cache, arrived>>,
           NEW x, x \in RequestType, Continue(r, x),
           reqs[r].pc \notin {"idle", "done"}, x.pc \notin {"done", "answered"},
           Placed(x), Settled(x), Taken(x), Priced(x)
    PROVE  IInv'
<1>1. Replied(x) /\ Answered(x)
    BY PaymentServerConstants DEF Placed, Replied, Answered
<1> QED BY <1>1, ContinueKeeps, StepKeeps DEF Good, Base

(* A verification goes on to the route, or refuses unpaid.                 *)
LEMMA VerifyPaymentKeeps ==
    ASSUME IInv, NEW r \in Requests, VerifyPayment(r)
    PROVE  IInv'
<1>1. Aside /\ UNCHANGED <<cache, arrived>>
    BY DEF VerifyPayment, Aside
<1>2. /\ reqs[r].pc = "verifying" /\ Base(reqs[r])
      /\ Settings /\ reqs[r] \in RequestType
    BY RequestAt DEF VerifyPayment
<1>3. HandlerFor(reqs[r].req) # None /\ ~reqs[r].spent /\ ~reqs[r].settled
    BY <1>2 DEF Base, Taken, Priced, Settled, Paying
<1>4. PICK pc \in {"authorizing", "next"} :
             pc = IF config.kind = "upto" THEN "authorizing" ELSE "next"
    OBVIOUS
<1>5. CASE Continue(r, [reqs[r] EXCEPT !.pc = pc])
    <2>1. PICK x : x = [reqs[r] EXCEPT !.pc = pc]
        OBVIOUS
    <2>2. pc \in Places
        BY DEF Places
    <2>3. /\ x \in RequestType /\ x.pc = pc
          /\ x.route = reqs[r].route /\ x.auth = reqs[r].auth
          /\ x.found = reqs[r].found /\ x.spent = reqs[r].spent
          /\ x.settled = reqs[r].settled /\ x.ver = reqs[r].ver
          /\ x.unhandled = reqs[r].unhandled /\ x.reply = reqs[r].reply
          /\ x.req = reqs[r].req
        BY <1>2, <2>1, <2>2, Moved
    <2>4. Placed(x)
        BY <1>2, <1>4, <2>3 DEF Base, Placed, Paying
    <2>5. Settled(x)
        BY <1>2, <1>3, <1>4, <2>3 DEF Base, Placed, Settled
    <2>6. Taken(x) /\ Priced(x)
        BY <1>2, <1>3, <1>4, <2>3 DEF Base, Taken, Priced, Paying
    <2> QED BY <1>1, <1>2, <1>5, <2>1, <2>3, <2>4, <2>5, <2>6, MovedKeeps
<1>6. CASE SendPaymentRequired(r, reqs[r])
    BY <1>1, <1>2, <1>3, <1>6, SendKeeps, StepKeeps
<1>7. CASE Continue(r, Reply(reqs[r], "500"))
    BY <1>1, <1>2, <1>7, Refused, ContinueKeeps, StepKeeps
<1> QED BY <1>3, <1>4, <1>5, <1>6, <1>7 DEF VerifyPayment

(* What is served was paid.                                                *)
LEMMA Served ==
    ASSUME Settings, NEW q, Base(q), q.pc \in {"next", "answering"},
           config.kind # "upto", q.settled, q.by = HandlerFor(q.req)
    PROVE  Good(Reply(q, "200"))
<1>1. PICK x : x = Reply(q, "200")
    OBVIOUS
<1>2. /\ x \in RequestType /\ x.pc = "done" /\ x.found = {}
      /\ x.reply = "200" /\ x.route = q.route /\ x.auth = q.auth
      /\ x.unhandled = q.unhandled /\ x.settled = q.settled
      /\ x.by = q.by /\ x.req = q.req
    BY <1>1, ReplyType DEF Base
<1>3. Placed(x) /\ Taken(x)
    BY <1>2 DEF Base, Placed, Taken, Paying
<1>4. Settled(x) /\ Priced(x) /\ Answered(x)
    BY <1>2 DEF Settled, Priced, Answered
<1>5. /\ q.auth = None /\ q.req \in X402Requirements
      /\ HandlerFor(q.req) # None /\ q.req.amount = Price[q.route]
    BY DEF Base, Placed, Taken, Priced, Paying
<1>6. Replied(x)
    BY <1>2, <1>5, TakenByKind DEF Replied
<1> QED BY <1>1, <1>2, <1>3, <1>4, <1>6 DEF Good, Base

(* The route runs before or after the settlement.                          *)
LEMMA RunRouteKeeps ==
    ASSUME IInv, NEW r \in Requests, RunRoute(r)
    PROVE  IInv'
<1>1. Aside /\ UNCHANGED <<cache, arrived>>
    BY DEF RunRoute, Aside
<1>2. /\ reqs[r].pc = "next" /\ Base(reqs[r]) /\ Settings
      /\ reqs[r] \in RequestType
    BY RequestAt DEF RunRoute
<1>3. CASE config.first
    <2>1. PICK x : x = [reqs[r] EXCEPT !.pc = "settling"]
        OBVIOUS
    <2>2. "settling" \in Places
        BY DEF Places
    <2>3. /\ x \in RequestType /\ x.pc = "settling"
          /\ x.route = reqs[r].route /\ x.auth = reqs[r].auth
          /\ x.found = reqs[r].found /\ x.spent = reqs[r].spent
          /\ x.settled = reqs[r].settled /\ x.ver = reqs[r].ver
          /\ x.unhandled = reqs[r].unhandled /\ x.reply = reqs[r].reply
          /\ x.req = reqs[r].req
        BY <1>2, <2>1, <2>2, Moved
    <2>4. Placed(x) /\ Settled(x)
        BY <1>2, <1>3, <2>3 DEF Base, Placed, Settled, Paying
    <2>5. Taken(x) /\ Priced(x)
        BY <1>2, <2>3 DEF Base, Placed, Taken, Priced, Paying
    <2>6. Continue(r, x)
        BY <1>3, <2>1 DEF RunRoute
    <2> QED BY <1>1, <1>2, <2>3, <2>4, <2>5, <2>6, MovedKeeps
<1>4. CASE ~config.first
    <2>1. Continue(r, Reply(reqs[r], "200"))
        BY <1>4 DEF RunRoute
    <2>2. /\ config.kind # "upto" /\ reqs[r].settled
          /\ reqs[r].by = HandlerFor(reqs[r].req)
        BY <1>2, <1>4 DEF Base, Placed, Settled
    <2> QED BY <1>1, <1>2, <2>1, <2>2, Served, ContinueKeeps, StepKeeps
<1> QED BY <1>3, <1>4

(* The first handler that takes the payment settles it, or throws.         *)
LEMMA HandleSettleKeeps ==
    ASSUME IInv, NEW r \in Requests, HandleSettle(r)
    PROVE  IInv'
<1>1. Aside /\ UNCHANGED <<cache, arrived>>
    BY DEF HandleSettle, Aside
<1>2. /\ reqs[r].pc = "settling" /\ Base(reqs[r]) /\ Settings
      /\ reqs[r] \in RequestType
    BY RequestAt DEF HandleSettle
<1>3. HandlerFor(reqs[r].req) # None /\ reqs[r].req \in X402Requirements
    BY <1>2 DEF Base, Taken, Placed, Paying
<1>4. PICK h, settled, threw, x :
         /\ h = HandlerFor(reqs[r].req)
         /\ settled \in BOOLEAN /\ threw \in BOOLEAN
         /\ x = [reqs[r] EXCEPT !.pc = "answering", !.by = h,
                                !.settled = settled, !.threw = threw]
         /\ Continue(r, x)
    <2>1. PICK settled \in BOOLEAN, threw \in BOOLEAN :
             Continue(r, [reqs[r] EXCEPT !.pc = "answering",
                                         !.by = HandlerFor(reqs[r].req),
                                         !.settled = settled, !.threw = threw])
        BY <1>3, Zenon DEF HandleSettle
    <2> QED BY <2>1, Zenon
<1>5. h \in Handlers /\ "answering" \in Places
    BY <1>2, <1>3, <1>4, TakenByKind DEF Places
<1>6. x \in RequestType
    <2>1. PICK y : y = [reqs[r] EXCEPT !.pc = "answering", !.by = h]
        OBVIOUS
    <2>2. y \in RequestType
        BY <1>2, <1>5, <2>1 DEF RequestType
    <2>3. x = [y EXCEPT !.settled = settled, !.threw = threw]
        BY <1>2, <1>4, <2>1 DEF RequestType
    <2>4. [y EXCEPT !.settled = settled, !.threw = threw] \in RequestType
        BY <1>4, <2>2 DEF RequestType
    <2> QED BY <2>3, <2>4
<1>7. /\ x.pc = "answering" /\ x.by = h
      /\ x.route = reqs[r].route /\ x.auth = reqs[r].auth
      /\ x.found = reqs[r].found /\ x.spent = reqs[r].spent
      /\ x.ver = reqs[r].ver /\ x.unhandled = reqs[r].unhandled
      /\ x.reply = reqs[r].reply /\ x.req = reqs[r].req
    BY <1>2, <1>4, <1>5 DEF RequestType
<1>8. Placed(x) /\ Settled(x)
    BY <1>2, <1>4, <1>7 DEF Base, Placed, Settled, Paying
<1>9. Taken(x) /\ Priced(x)
    BY <1>2, <1>7 DEF Base, Taken, Priced, Paying
<1> QED BY <1>1, <1>2, <1>4, <1>6, <1>7, <1>8, <1>9, MovedKeeps

(* The answer of settle() serves the request or refuses it.                *)
LEMMA SettleAnsweredKeeps ==
    ASSUME IInv, NEW r \in Requests, SettleAnswered(r)
    PROVE  IInv'
<1>1. Aside /\ UNCHANGED <<cache, arrived>>
    BY DEF SettleAnswered, Aside
<1>2. PICK q : q = reqs[r]
    OBVIOUS
<1>3. /\ q.pc = "answering" /\ Base(q) /\ Settings
      /\ q \in RequestType /\ q.by = HandlerFor(q.req)
    BY <1>2, RequestAt DEF SettleAnswered, Base, Settled
<1>4. ASSUME NEW pc \in {"handling", "next"},
             pc = "handling" => config.kind = "upto" /\ q.spent,
             pc = "next" => config.kind # "upto" /\ q.settled /\ ~config.first,
             Continue(r, [q EXCEPT !.pc = pc])
      PROVE  IInv'
    <2>1. PICK x : x = [q EXCEPT !.pc = pc]
        OBVIOUS
    <2>2. pc \in Places
        BY DEF Places
    <2>3. /\ x \in RequestType /\ x.pc = pc
          /\ x.route = q.route /\ x.auth = q.auth /\ x.found = q.found
          /\ x.spent = q.spent /\ x.settled = q.settled /\ x.ver = q.ver
          /\ x.unhandled = q.unhandled /\ x.reply = q.reply
          /\ x.req = q.req /\ x.by = q.by
        BY <1>3, <2>1, <2>2, Moved
    <2>4. Placed(x) /\ Settled(x)
        BY <1>3, <1>4, <2>3 DEF Base, Placed, Settled, Paying
    <2>5. Taken(x) /\ Priced(x)
        BY <1>3, <1>4, <2>3 DEF Base, Taken, Priced, Paying
    <2> QED BY <1>1, <1>2, <1>3, <1>4, <2>1, <2>3, <2>4, <2>5, MovedKeeps
<1>5. CASE config.kind = "upto" /\ Continue(r, [q EXCEPT !.pc = "handling"])
    BY <1>3, <1>4, <1>5 DEF Base, Priced
<1>6. CASE /\ config.kind # "upto" /\ ~(q.threw \/ ~q.settled)
           /\ config.first /\ Continue(r, Reply(q, "200"))
    BY <1>1, <1>3, <1>6, Served, ContinueKeeps, StepKeeps
<1>7. CASE /\ config.kind # "upto" /\ ~(q.threw \/ ~q.settled)
           /\ ~config.first /\ Continue(r, [q EXCEPT !.pc = "next"])
    BY <1>4, <1>7
<1>8. CASE /\ config.kind # "upto" /\ (q.threw \/ ~q.settled)
           /\ (IF q.threw THEN SettleThrew(r) ELSE "402") = "402"
           /\ SendPaymentRequired(r, q)
    <2>1. ~q.spent
        BY <1>3, <1>8 DEF Base, Priced
    <2>2. q.settled => config.remote /\ q.threw
        BY <1>8 DEF SettleThrew
    <2> QED BY <1>1, <1>2, <1>3, <1>8, <2>1, <2>2, SendKeeps, StepKeeps
<1>9. CASE \E status \in {"402", "500"} : status # "402"
                                          /\ Continue(r, Reply(q, status))
    BY <1>1, <1>2, <1>3, <1>9, Refused, ContinueKeeps, StepKeeps
<1> QED BY <1>2, <1>5, <1>6, <1>7, <1>8, <1>9 DEF SettleAnswered, SettleThrew

(* An MPP credential is settled by the handlers of its method in turn.     *)
LEMMA SettleMPPPaymentKeeps ==
    ASSUME IInv, NEW r \in Requests, SettleMPPPayment(r)
    PROVE  IInv'
<1>1. Aside /\ UNCHANGED <<cache, arrived>>
    BY DEF SettleMPPPayment, Aside
<1>2. /\ reqs[r].pc = "settlingMPP" /\ Base(reqs[r]) /\ Settings
      /\ reqs[r] \in RequestType /\ reqs[r].auth # None
    BY RequestAt DEF SettleMPPPayment, Base, Placed
<1>3. PICK i : i = AcceptingMPPHandler(reqs[r].auth)
    OBVIOUS
<1>4. CASE /\ i = reqs[r].auth.handler
           /\ Continue(r, [reqs[r] EXCEPT !.pc = "nextMPP", !.by = i,
                                          !.settled = TRUE])
    <2>1. PICK x : x = [reqs[r] EXCEPT !.pc = "nextMPP", !.by = i,
                                       !.settled = TRUE]
        OBVIOUS
    <2>2. i \in DOMAIN MPPHandlers /\ "nextMPP" \in Places
        BY <1>2, <1>4 DEF RequestType, ChallengeType, Places
    <2>3. x \in RequestType
        BY <1>2, <2>1, <2>2 DEF RequestType
    <2>4. /\ x.pc = "nextMPP" /\ x.by = i /\ x.settled
          /\ x.route = reqs[r].route /\ x.auth = reqs[r].auth
          /\ x.body = reqs[r].body /\ x.found = reqs[r].found
          /\ x.spent = reqs[r].spent /\ x.ver = reqs[r].ver
          /\ x.unhandled = reqs[r].unhandled /\ x.reply = reqs[r].reply
        BY <1>2, <2>1 DEF RequestType
    <2>5. Placed(x) /\ Settled(x)
        BY <1>2, <1>4, <2>4 DEF Base, Placed, Settled, Paying
    <2>6. Taken(x) /\ Priced(x)
        BY <1>2, <2>4 DEF Base, Taken, Priced, Paying
    <2> QED BY <1>1, <1>2, <1>4, <2>1, <2>3, <2>4, <2>5, <2>6, MovedKeeps
<1>5. ASSUME NEW settled \in BOOLEAN, SendMPPRequired(r, settled)
      PROVE  IInv'
    BY <1>1, <1>2, <1>5, SendMPPKeeps, StepKeeps
<1> QED BY <1>3, <1>4, <1>5 DEF SettleMPPPayment

(* The route runs when the MPP credential was settled.                     *)
LEMMA RunRouteMPPKeeps ==
    ASSUME IInv, NEW r \in Requests, RunRouteMPP(r)
    PROVE  IInv'
<1>1. Aside /\ UNCHANGED <<cache, arrived>>
    BY DEF RunRouteMPP, Aside
<1>2. PICK q, x : q = reqs[r] /\ x = Reply(q, "200") /\ Continue(r, x)
    BY DEF RunRouteMPP
<1>3. /\ q.pc = "nextMPP" /\ Base(q) /\ q \in RequestType
      /\ q.auth # None /\ q.auth.digest = q.body /\ q.settled
      /\ q.by = q.auth.handler
    BY <1>2, RequestAt DEF RunRouteMPP, Base, Placed, Settled
<1>4. /\ x \in RequestType /\ x.pc = "done" /\ x.found = {}
      /\ x.reply = "200" /\ x.route = q.route /\ x.auth = q.auth
      /\ x.unhandled = q.unhandled /\ x.settled = q.settled
      /\ x.by = q.by /\ x.body = q.body
  <2>1. q \in RequestType /\ x = Reply(q, "200")
      BY <1>2, <1>3
  <2> QED BY <2>1, ReplyType
<1>5. Placed(x) /\ Taken(x)
    BY <1>3, <1>4 DEF Base, Placed, Taken, Paying
<1>6. Settled(x) /\ Priced(x) /\ Answered(x) /\ Replied(x)
    BY <1>3, <1>4 DEF Settled, Priced, Answered, Replied
<1> QED BY <1>1, <1>2, <1>4, <1>5, <1>6, ContinueKeeps, StepKeeps
        DEF Good, Base

(* The upto handler verifies before its inner handler runs.                *)
LEMMA AuthorizeKeeps ==
    ASSUME IInv, NEW r \in Requests, Authorize(r)
    PROVE  IInv'
<1>1. Aside /\ UNCHANGED <<cache, arrived>>
    BY DEF Authorize, Aside
<1>2. /\ reqs[r].pc = "authorizing" /\ Base(reqs[r]) /\ Settings
      /\ reqs[r] \in RequestType
    BY RequestAt DEF Authorize
<1>c. PICK ceiling \in Amounts :
         Continue(r, [reqs[r] EXCEPT !.pc = "handling", !.ceiling = ceiling])
    BY DEF Authorize, Amounts
<1>3. PICK x : /\ x = [reqs[r] EXCEPT !.pc = "handling",
                                     !.ceiling = ceiling]
               /\ Continue(r, x)
    BY <1>c
<1>4. "handling" \in Places
    BY DEF Places
<1>5. /\ x \in RequestType /\ x.pc = "handling"
      /\ x.route = reqs[r].route /\ x.auth = reqs[r].auth
      /\ x.found = reqs[r].found /\ x.spent = reqs[r].spent
      /\ x.settled = reqs[r].settled /\ x.ver = reqs[r].ver
      /\ x.unhandled = reqs[r].unhandled /\ x.reply = reqs[r].reply
      /\ x.req = reqs[r].req
    BY <1>2, <1>3, <1>4 DEF RequestType
<1>6. Placed(x) /\ Settled(x)
    BY <1>2, <1>5 DEF Base, Placed, Settled, Paying
<1>7. Taken(x) /\ Priced(x)
    BY <1>2, <1>5 DEF Base, Taken, Priced, Paying
<1> QED BY <1>1, <1>2, <1>3, <1>5, <1>6, <1>7, MovedKeeps

(* settle() of the upto handler fixes the amount used, once.               *)
LEMMA UptoSettleKeeps ==
    ASSUME IInv, NEW r \in Requests, NEW amount \in 0..MaxPrice,
           UptoSettle(r, amount)
    PROVE  IInv'
<1>1. Aside /\ UNCHANGED arrived
    BY DEF UptoSettle, Aside
<1>2. PICK q, y : q = reqs[r] /\ y = [q.req EXCEPT !.amount = amount]
    OBVIOUS
<1>3. /\ q.pc = "handling" /\ Base(q) /\ Settings /\ q \in RequestType
      /\ ~q.spent /\ config.kind = "upto"
      /\ q.req \in X402Requirements /\ HandlerFor(q.req) # None
    BY <1>2, RequestAt
    DEF UptoSettle, MaySettle, Base, Placed, Taken, Paying
<1>4. y \in X402Requirements /\ HandlerFor(y) # None
    <2>1. amount \in Nat
        BY PaymentServerConstants
    <2>2. y \in X402Requirements
        BY <1>2, <1>3, <2>1 DEF X402Requirements
    <2> QED BY <1>2, <1>3, <2>1, <2>2, TakenAtAnyAmount
<1>5. PICK found, x :
         /\ found = IF q.req \in q.found THEN (q.found \ {q.req}) \cup {y}
                                         ELSE q.found
         /\ x = [q EXCEPT !.pc = "settling", !.spent = TRUE, !.req = y,
                          !.found = found]
         /\ Continue(r, x)
    BY <1>2 DEF UptoSettle
<1>6. /\ found \in SUBSET X402Requirements
      /\ \A z \in found : HandlerFor(z) # None
      /\ found # {} => q.found # {}
    BY <1>3, <1>4, <1>5 DEF Base, Taken, RequestType
<1>7. "settling" \in Places
    BY DEF Places
<1>8. /\ x \in RequestType /\ x.pc = "settling" /\ x.req = y
      /\ x.found = found /\ x.spent /\ x.route = q.route
      /\ x.auth = q.auth /\ x.settled = q.settled /\ x.ver = q.ver
      /\ x.unhandled = q.unhandled /\ x.reply = q.reply
  <2>1. /\ q \in RequestType /\ y \in X402Requirements \cup {None}
        /\ found \in SUBSET X402Requirements /\ "settling" \in Places
        /\ x = [q EXCEPT !.pc = "settling", !.spent = TRUE, !.req = y,
                         !.found = found]
      BY <1>3, <1>4, <1>5, <1>6, <1>7
  <2>2. x \in RequestType
      BY <2>1 DEF RequestType
  <2> QED BY <2>1, <2>2 DEF RequestType
<1>9. Placed(x)
    BY <1>3, <1>4, <1>6, <1>8 DEF Base, Placed, Paying
<1>10. Settled(x) /\ Taken(x) /\ Priced(x)
    BY <1>3, <1>4, <1>6, <1>8 DEF Base, Settled, Taken, Priced, Paying
<1>11. cache = <<>>
    BY <1>3 DEF IInv, CacheInv, Cached
<1>12. cache' = cache
    BY <1>11 DEF UptoSettle
<1> QED BY <1>1, <1>2, <1>3, <1>5, <1>8, <1>9, <1>10, <1>12, MovedKeeps

(* An inner handler may return without having settled.                     *)
LEMMA UptoReturnKeeps ==
    ASSUME IInv, NEW r \in Requests, UptoReturn(r)
    PROVE  IInv'
<1>1. Aside /\ UNCHANGED <<cache, arrived>>
    BY DEF UptoReturn, Aside
<1>2. PICK q : q = reqs[r]
    OBVIOUS
<1>3. /\ q.pc = "handling" /\ Base(q) /\ q \in RequestType
      /\ config.kind = "upto"
    BY <1>2, RequestAt DEF UptoReturn, Base, Placed
<1>4. CASE Continue(r, Reply(q, "500"))
    BY <1>1, <1>2, <1>3, <1>4, Refused, ContinueKeeps, StepKeeps
<1>5. CASE Continue(r, Reply(q, "200"))
    <2>1. PICK x : x = Reply(q, "200")
        OBVIOUS
    <2>2. /\ x \in RequestType /\ x.pc = "done" /\ x.found = {}
          /\ x.reply = "200" /\ x.route = q.route /\ x.auth = q.auth
          /\ x.unhandled = q.unhandled
        BY <1>3, <2>1, ReplyType
    <2>3. Placed(x) /\ Taken(x)
        BY <1>3, <2>2 DEF Base, Placed, Taken, Paying
    <2>4. Settled(x) /\ Priced(x) /\ Answered(x) /\ Replied(x)
        BY <1>3, <2>2 DEF Settled, Priced, Answered, Replied
    <2> QED BY <1>1, <1>5, <2>1, <2>2, <2>3, <2>4, ContinueKeeps, StepKeeps
            DEF Good, Base
<1> QED BY <1>2, <1>4, <1>5 DEF UptoReturn

-----------------------------------------------------------------------------
(* The environment. *)

(* Steps that change no request.                                           *)
LEMMA PassingKeeps ==
    ASSUME IInv, GoesOn, Settings', UNCHANGED <<cache, reqs, offered, challenges>>,
           \A r \in Requests :
              reqs[r].pc = "answered" => time' <= reqs[r].at + MaxFlight
    PROVE  IInv'
<1>1. \A r \in Requests : Good(reqs[r])'
    <2> SUFFICES ASSUME NEW r \in Requests PROVE Good(reqs[r])'
        OBVIOUS
    <2>1. PICK q : q = reqs[r]
        OBVIOUS
    <2>2. Good(q) /\ (q.pc = "answered" => time' <= q.at + MaxFlight)
        BY <2>1 DEF IInv, RequestsInv
    <2>3. Good(q)'
        BY <2>2, Later
    <2>4. q = reqs'[r]
        BY <2>1
    <2> QED BY <2>3, <2>4
<1>2. RequestsInv'
    BY <1>1 DEF IInv, RequestsInv
<1>3. \A e : GoodEntry(e) => GoodEntry(e)'
    BY LaterEntry
<1>4. \A i \in DOMAIN cache : GoodEntry(cache[i])'
    BY <1>3 DEF IInv, CacheInv
<1>5. Cached' = Cached
    BY SameServer DEF GoesOn
<1>6. CacheInv'
    BY <1>4, <1>5 DEF IInv, CacheInv
<1>7. OffersInv'
    BY DEF IInv, OffersInv, GoesOn
<1> QED BY <1>2, <1>6, <1>7 DEF IInv

(* A handler that fails, or recovers, touches no request.                  *)
LEMMA ChangeMoodKeeps ==
    ASSUME IInv, NEW h \in Handlers, ChangeMood(h)
    PROVE  IInv'
<1>1. Settings
    BY DEF IInv
<1>2. time \in Nat /\ time' = time
    BY <1>1, PaymentServerConstants DEF Settings, ChangeMood
<1>3. /\ failedAt' \in [Handlers -> Int]
      /\ mood' \in [Handlers -> {"quick", "failing"}]
      /\ \A k \in Handlers : /\ failedAt[k] <= failedAt'[k]
                             /\ failedAt'[k] <= time'
                             /\ mood'[k] = "failing" => failedAt'[k] = time'
    BY <1>1, <1>2 DEF Settings, ChangeMood
<1>4. Settings' /\ GoesOn
    BY <1>1, <1>2, <1>3 DEF Settings, ChangeMood, GoesOn
<1>5. \A r \in Requests :
         reqs[r].pc = "answered" => time' <= reqs[r].at + MaxFlight
    BY <1>2, RequestAt DEF Answered
<1> QED BY <1>4, <1>5, PassingKeeps DEF ChangeMood

(* Time passes while no answer is overdue.                                 *)
LEMMA TickKeeps ==
    ASSUME IInv, Tick
    PROVE  IInv'
<1>1. Settings
    BY DEF IInv
<1>2. time \in Nat /\ time' = time + 1 /\ time' \in 0..MaxTime
    BY <1>1, PaymentServerConstants DEF Settings, Tick
<1>3. /\ failedAt' \in [Handlers -> Int]
      /\ \A k \in Handlers : /\ failedAt[k] <= failedAt'[k]
                             /\ failedAt'[k] <= time'
                             /\ mood'[k] = "failing" => failedAt'[k] = time'
    BY <1>1, <1>2 DEF Settings, Tick
<1>4. Settings' /\ GoesOn
    BY <1>1, <1>2, <1>3 DEF Settings, Tick, GoesOn
<1>5. ASSUME NEW r \in Requests, reqs[r].pc = "answered"
      PROVE  time' <= reqs[r].at + MaxFlight
    BY <1>2, <1>5, RequestAt, PaymentServerConstants DEF Tick, RequestType
<1> QED BY <1>4, <1>5, PassingKeeps DEF Tick

(* The invariant holds when the server starts.                             *)
LEMMA Start == Init => IInv
<1> SUFFICES ASSUME Init PROVE IInv
    OBVIOUS
<1>1. Settings
    BY PaymentServerConstants DEF Init, Settings
<1>2. CacheInv
    BY PaymentServerConstants DEF Init, CacheInv
<1>3. PICK q : q = NoRequest
    OBVIOUS
<1>4. 0 \in Amounts
    BY PaymentServerConstants DEF Amounts
<1>5. /\ q \in RequestType /\ q.pc = "idle" /\ q.auth = None
      /\ q.found = {} /\ ~q.spent /\ ~q.settled /\ ~q.unhandled
      /\ q.reply = None
    BY <1>3, <1>4 DEF NoRequest, RequestType, Places
<1>6. Good(q)
    BY <1>5, PaymentServerConstants
    DEF Good, Base, Placed, Settled, Taken, Priced, Answered, Replied, Paying
<1>7. RequestsInv
    BY <1>3, <1>6 DEF Init, RequestsInv
<1>8. OffersInv
    BY DEF Init, OffersInv
<1> QED BY <1>1, <1>2, <1>7, <1>8 DEF IInv

(* Every step keeps the invariant: one lemma for each action.              *)
LEMMA Step == IInv /\ [Next]_vars => IInv'
<1> SUFFICES ASSUME IInv, [Next]_vars PROVE IInv'
    OBVIOUS
<1>1. ASSUME NEW r \in Requests, Serve(r) PROVE IInv'
    BY <1>1, ResolveInProcessKeeps, LookUpAcceptsKeeps, AcceptsRouteKeeps,
       AcceptsArriveKeeps, VerifyPaymentKeeps, RunRouteKeeps,
       HandleSettleKeeps, SettleAnsweredKeeps, SettleMPPPaymentKeeps,
       RunRouteMPPKeeps, AuthorizeKeeps, UptoReturnKeeps
    DEF Serve
<1>2. CASE UNCHANGED vars
    <2>1. Aside /\ UNCHANGED <<cache, reqs, arrived, offered, challenges>>
        BY <1>2 DEF vars, Aside
    <2>2. GoesOn /\ Settings'
        BY <2>1, AsideGoesOn, SettingsKept DEF IInv, Settings
    <2>3. \A r \in Requests :
             reqs[r].pc = "answered" => time' <= reqs[r].at + MaxFlight
        BY <2>1, RequestAt DEF Answered, Aside
    <2> QED BY <2>1, <2>2, <2>3, PassingKeeps
<1> QED BY <1>1, <1>2, ArriveKeeps, AcceptsLostKeeps, UptoSettleKeeps,
           ChangeMoodKeeps, TickKeeps
        DEF Next

-----------------------------------------------------------------------------
(* The theorems. *)

(* The invariant holds in every reachable state.                           *)
LEMMA AlwaysGood == Spec => []IInv
    BY Start, Step, PTL DEF Spec

(* Types: the cache stays within its capacity with one entry for a key,    *)
(* whatever answers are cached, found and evicted in which order.          *)
THEOREM ServerTypeCorrect == Spec => []TypeOK
<1>1. IInv => TypeOK
    <2> SUFFICES ASSUME IInv PROVE TypeOK
        OBVIOUS
    <2>1. Settings /\ CacheInv /\ OffersInv
        BY DEF IInv
    <2>2. \A i \in DOMAIN cache : cache[i].birth \in 0..time
        BY <2>1, PaymentServerConstants
        DEF Settings, CacheInv, GoodEntry, EntryType
    <2>3. \A o \in offered : o.ver \in config.versions /\ o.req.amount \in Amounts
        BY <2>1, PaymentServerConstants DEF OffersInv, Amounts
    <2>4. \A r \in Requests : reqs[r] \in RequestType
        BY RequestAt
    <2> QED BY <2>1, <2>2, <2>3, <2>4
            DEF TypeOK, Settings, CacheInv, RequestType, Places
<1> QED BY <1>1, AlwaysGood, PTL

(* wrap() pays again when it gets a 402: what was settled is only answered *)
(* with one by the routes, or the MPP path, for a handler that threw after *)
(* it settled.                                                             *)
THEOREM RefusedWasNotPaid == Spec => []RefusedIsUnpaid
<1>1. IInv => RefusedIsUnpaid
    <2> SUFFICES ASSUME IInv, NEW r \in Requests,
                        reqs[r].reply = "402" /\ reqs[r].settled
                 PROVE  reqs[r].auth # None \/ (config.remote /\ reqs[r].threw)
        BY DEF RefusedIsUnpaid
    <2> QED BY RequestAt DEF Base, Replied
<1> QED BY <1>1, AlwaysGood, PTL

(* What is served was settled, at the price of the route, by a handler of  *)
(* that kind and network; an MPP credential by the handler its challenge   *)
(* came from, for the request body it was given for.                       *)
THEOREM ServedWasPaid == Spec => []ServedForItsPayment
<1>1. IInv => ServedForItsPayment
    <2> SUFFICES ASSUME IInv, NEW r \in Requests
                 PROVE  Replied(reqs[r])
        BY DEF ServedForItsPayment, Replied
    <2> QED BY RequestAt DEF Base
<1> QED BY <1>1, AlwaysGood, PTL

(* What a challenge offers has a route's price, and a payment for it is    *)
(* neither refused for its version nor left without a handler, however the *)
(* networks were named in the server's configuration and whatever stays in *)
(* the cache.                                                              *)
THEOREM OffersAreTaken == Spec => []OfferedIsTaken
<1>1. IInv => OfferedIsTaken
    <2> SUFFICES ASSUME IInv PROVE OfferedIsTaken
        OBVIOUS
    <2>1. \A o \in offered : /\ o.ver \in config.versions /\ config.x402
                             /\ \E route \in Routes : o.req.amount = Price[route]
        BY DEF IInv, OffersInv
    <2>2. ASSUME NEW r \in Requests,
                 NEW o \in offered, o.ver = reqs[r].ver,
                 reqs[r].accepted \in Payments(o)
          PROVE  reqs[r].reply # "400" /\ ~reqs[r].unhandled
        <3>1. reqs[r].ver \in config.versions /\ config.x402
            BY <2>1, <2>2
        <3> QED BY <3>1, RequestAt DEF Base, Placed, Taken
    <2> QED BY <2>1, <2>2 DEF OfferedIsTaken
<1> QED BY <1>1, AlwaysGood, PTL

(* A request's step changes that request only.                             *)
Only(r) == \E x : reqs' = [reqs EXCEPT ![r] = x]

(* The middleware touches the request it is called for only.               *)
LEMMA MiddlewareOnly ==
    ASSUME NEW r, NEW found, NEW at, HandleMiddlewareRequest(r, found, at)
    PROVE  Only(r)
    BY DEF HandleMiddlewareRequest, HandleMPPRequest, HandleRequest,
           SendPaymentRequired, SendMPPRequired, Continue, Only

(* A request is changed by its own steps, and challenged by four of them.  *)
LEMMA StepsOfOne ==
    ASSUME [Next]_vars, reqs' # reqs
    PROVE  \E s \in Requests :
              /\ Only(s)
              /\ reqs[s].pc \in {"resolving", "answered"} =>
                    \/ ResolveInProcess(s) \/ LookUpAccepts(s)
                    \/ AcceptsArrive(s) \/ AcceptsLost(s)
<1>1. ASSUME NEW s \in Requests, ResolveInProcess(s) PROVE Only(s)
    BY <1>1, MiddlewareOnly DEF ResolveInProcess, Continue, Only
<1>2. ASSUME NEW s \in Requests, LookUpAccepts(s) PROVE Only(s)
    BY <1>2, MiddlewareOnly DEF LookUpAccepts, Continue, Only
<1>3. ASSUME NEW s \in Requests, AcceptsArrive(s) PROVE Only(s)
    BY <1>3, MiddlewareOnly DEF AcceptsArrive
<1>4. ASSUME NEW s \in Requests, AcceptsLost(s) PROVE Only(s)
    BY <1>4 DEF AcceptsLost, Continue, Only
<1>5. ASSUME NEW s \in Requests, NEW route \in Routes,
             NEW body \in Bodies \cup {None}, Arrive(s, route, body)
      PROVE  Only(s) /\ reqs[s].pc \notin {"resolving", "answered"}
    BY <1>5 DEF Arrive, Only
<1>6. ASSUME NEW s \in Requests, NEW amount \in 0..MaxPrice,
             UptoSettle(s, amount)
      PROVE  Only(s) /\ reqs[s].pc \notin {"resolving", "answered"}
    BY <1>6 DEF UptoSettle, Continue, Only
<1>7. ASSUME NEW s \in Requests,
             \/ AcceptsRoute(s) \/ VerifyPayment(s) \/ RunRoute(s)
             \/ HandleSettle(s) \/ SettleAnswered(s)
             \/ SettleMPPPayment(s) \/ RunRouteMPP(s)
             \/ Authorize(s) \/ UptoReturn(s)
      PROVE  Only(s) /\ reqs[s].pc \notin {"resolving", "answered"}
    <2>1. Only(s)
        BY <1>7 DEF AcceptsRoute, VerifyPayment, RunRoute, HandleSettle,
            SettleAnswered, SettleMPPPayment, RunRouteMPP, Authorize,
            UptoReturn, Unhandled, SendPaymentRequired, SendMPPRequired,
            Continue, Only
    <2>2. reqs[s].pc \notin {"resolving", "answered"}
        BY <1>7 DEF AcceptsRoute, VerifyPayment, RunRoute, HandleSettle,
            SettleAnswered, SettleMPPPayment, RunRouteMPP, Authorize, UptoReturn
    <2> QED BY <2>1, <2>2
<1>8. ~(\E h \in Handlers : ChangeMood(h)) /\ ~Tick /\ ~UNCHANGED vars
    BY DEF ChangeMood, Tick, vars
<1> QED BY <1>1, <1>2, <1>3, <1>4, <1>5, <1>6, <1>7, <1>8 DEF Next, Serve

(* A challenge of the middleware carries what was found.                   *)
LEMMA MiddlewareOffers ==
    ASSUME IInv, NEW r \in Requests, NEW found, NEW at,
           reqs[r].pc \in {"resolving", "answered"},
           ~config.mpp \/ reqs[r].auth = None,
           HandleMiddlewareRequest(r, found, at), reqs'[r].reply = "402"
    PROVE  reqs'[r].found = found
<1>1. PICK q : q = [reqs[r] EXCEPT !.found = found, !.at = at]
    OBVIOUS
<1>2. /\ Base(reqs[r]) /\ reqs[r] \in RequestType
      /\ DOMAIN reqs = Requests /\ reqs[r].reply = None
    BY RequestAt DEF IInv, RequestsInv, Base, Placed
<1>3. /\ q.found = found /\ q.reply = None
    BY <1>1, <1>2 DEF RequestType
<1>4. None # "402"
    BY PaymentServerConstants
<1>5. \A y, pc : [q EXCEPT !.req = y, !.pc = pc].reply = q.reply
    BY <1>1, <1>2 DEF RequestType
<1>6. Reply(q, "400").reply = "400"
    BY <1>1, <1>2 DEF Reply, RequestType
<1>7. [Reply(q, "402") EXCEPT !.found = q.found].found = q.found
    BY <1>1, <1>2 DEF Reply, RequestType
<1>8. \A x : Continue(r, x) => reqs'[r] = x
    BY <1>2 DEF Continue
<1>9. SendPaymentRequired(r, q) => reqs'[r].found = found
    BY <1>2, <1>3, <1>7 DEF SendPaymentRequired
<1>10. ~(config.mpp /\ q.auth # None)
    BY <1>1, <1>2 DEF RequestType
<1>11. ASSUME HandleRequest(r, q) PROVE SendPaymentRequired(r, q)
    <2>1. ASSUME NEW y, NEW pc, Continue(r, [q EXCEPT !.req = y, !.pc = pc])
          PROVE  FALSE
        <3>1. reqs'[r] = [q EXCEPT !.req = y, !.pc = pc]
            BY <1>8, <2>1
        <3>2. [q EXCEPT !.req = y, !.pc = pc].reply = None
            BY <1>3, <1>5
        <3> QED BY <1>4, <3>1, <3>2
    <2> QED BY <1>11, <2>1 DEF HandleRequest
<1>12. ~Continue(r, Reply(q, "400"))
    BY <1>6, <1>8
<1>13. SendPaymentRequired(r, q)
    BY <1>1, <1>10, <1>11, <1>12 DEF HandleMiddlewareRequest
<1> QED BY <1>9, <1>13

(* A step that challenges leaves out only what failed a while ago.         *)
LEMMA LackStep ==
    ASSUME IInv, [Next]_vars, NEW r \in Requests
    PROVE  LacksOnlyFailed(r)
<1> SUFFICES ASSUME /\ config.remote
                    /\ ~config.mpp \/ reqs[r].auth = None
                    /\ reqs[r].pc \in {"resolving", "answered"}
                    /\ reqs'[r].reply = "402",
                    NEW h \in Handlers
             PROVE  \/ Complete(h, AcceptsToSend(reqs[r].route), reqs'[r].found)
                    \/ failedAt[h] > time - MaxAge - MaxFlight
    BY DEF LacksOnlyFailed, Complete
<1>1. /\ Base(reqs[r]) /\ Answered(reqs[r]) /\ reqs[r] \in RequestType
      /\ Settings /\ DOMAIN reqs = Requests
    BY RequestAt DEF IInv, RequestsInv
<1>2. reqs[r].reply # "402"
    BY <1>1, PaymentServerConstants DEF Base, Placed
<1>3. PICK s \in Requests :
         /\ Only(s)
         /\ reqs[s].pc \in {"resolving", "answered"} =>
               \/ ResolveInProcess(s) \/ LookUpAccepts(s)
               \/ AcceptsArrive(s) \/ AcceptsLost(s)
    BY <1>2, StepsOfOne
<1>4. s = r
    BY <1>1, <1>2, <1>3 DEF Only
<1>5. /\ time \in Nat /\ failedAt[h] \in Int /\ MaxAge \in Nat /\ MaxAge > 0
      /\ MaxFlight \in Nat
    BY <1>1, PaymentServerConstants DEF Settings
<1>6. CASE LookUpAccepts(r)
    <2>1. PICK key : key = AcceptsToSend(reqs[r].route)
        OBVIOUS
    <2>2. /\ Fresh(key)
          /\ HandleMiddlewareRequest(r, Entry(key).value, Entry(key).birth)
        <3>1. ASSUME Continue(r, [reqs[r] EXCEPT !.pc = "asking"])
              PROVE  FALSE
            BY <1>1, <1>2, <3>1 DEF Continue, RequestType
        <3> QED BY <1>6, <2>1, <3>1 DEF LookUpAccepts
    <2>3. reqs'[r].found = Entry(key).value
        BY <2>2, MiddlewareOffers
    <2>4. Entry(key).key = key /\ GoodEntry(Entry(key))
        BY <2>2, WithoutKeeps DEF Fresh, IInv
    <2>5. \/ Complete(h, key, Entry(key).value)
          \/ failedAt[h] >= Entry(key).birth - MaxFlight
        BY <2>4 DEF GoodEntry
    <2>6. time - Entry(key).birth < MaxAge /\ Entry(key).birth \in Nat
        BY <2>2, <2>4 DEF Fresh, GoodEntry, EntryType
    <2> QED BY <1>5, <2>1, <2>3, <2>5, <2>6
<1>7. CASE AcceptsArrive(r)
    <2>1. reqs'[r].found = reqs[r].found
        BY <1>7, MiddlewareOffers DEF AcceptsArrive
    <2>2. /\ reqs[r].at \in Nat /\ time <= reqs[r].at + MaxFlight
          /\ \/ Complete(h, AcceptsToSend(reqs[r].route), reqs[r].found)
             \/ failedAt[h] >= reqs[r].at
        BY <1>1, <1>7 DEF AcceptsArrive, Answered, RequestType
    <2> QED BY <1>5, <2>1, <2>2
<1>8. CASE AcceptsLost(r)
    BY <1>1, <1>8, ReplyType DEF AcceptsLost, Continue
<1>9. CASE ResolveInProcess(r)
    BY <1>9 DEF ResolveInProcess
<1> QED BY <1>3, <1>4, <1>6, <1>7, <1>8, <1>9

(* A partial answer of /accepts, which is cached, does not outlive the time *)
(* it travels and its maxAge: what a challenge lacks failed that recently.  *)
THEOREM ChallengesLackWhatFailed == Spec => MissingOnlyIfFailed
<1>1. IInv /\ [Next]_vars => [\A r \in Requests : LacksOnlyFailed(r)]_vars
    BY LackStep
<1> QED BY <1>1, AlwaysGood, PTL DEF Spec, MissingOnlyIfFailed
=============================================================================
