-------------------------- MODULE PaidFetch_proofs --------------------------
(***************************************************************************)
(* Proofs about PaidFetch, for any number of concurrent fetches, retries,  *)
(* payments and server configurations.  What the facilitator does behind   *)
(* the server is proved in ExactFacilitator_proofs; E takes its invariant  *)
(* over, with the server's fetches as the callers of handleSettle().       *)
(***************************************************************************)
EXTENDS PaidFetch, TLAPS

E == INSTANCE ExactFacilitator_proofs WITH Calls <- Fetches

-----------------------------------------------------------------------------
(* The inductive invariant, in parts. *)

Challenges == {"402", "402 empty"}

(* A call of fetch() attaches a payment to its second request only, pays   *)
(* or starts over when it was challenged, and is served by a 200.          *)
ClientOf(f) ==
    /\ fetch[f].pay \in Txs <=> fetch[f].ver # 0
    /\ fetch[f].pay \in Txs => Born[fetch[f].pay] <= block
    /\ fetch[f].pc # "gaveUp" => fetch[f].left > 0
    /\ fetch[f].pc = "phase1" => fetch[f].ver = 0
    /\ fetch[f].pc = "phase2" => fetch[f].ver # 0
    /\ fetch[f].pc = "idle" => srv[f] = "none"
    /\ fetch[f].pc \in {"paying", "backoff"} => srv[f] \in Challenges
    /\ fetch[f].pc = "served" => srv[f] = "200"

(* The server goes past the challenge with a payment only; handleSettle()  *)
(* runs with the payment the call attached, and for a call that waits for  *)
(* it or has been told that the facilitator is lost.                       *)
ServerOf(f) ==
    /\ srv[f] \in {"verifying", "next", "settling", "200"}
          => fetch[f].pay \in Txs
    /\ srv[f] = "verifying" => config.first
    /\ calls[f].pc # "idle" =>
          /\ srv[f] \in {"settling", "500"} /\ fetch[f].pay \in Txs
    /\ calls[f].pc = "signing" => calls[f].pay = fetch[f].pay
    /\ calls[f].pc \in E!Active => calls[f].tx = fetch[f].pay

(* The payment of f's request has been settled for it.                     *)
Succeeded(f) ==
    \/ srv[f] = "200"
    \/ srv[f] = "next" /\ ~config.first
    \/ calls[f].pc = "answered" /\ calls[f].res = "ok"

(* Every request settled has a receipt, and with the duplicate check one   *)
(* of its own.                                                             *)
ReceiptInv ==
    \A f \in Fetches : Succeeded(f) =>
       /\ receipts[fetch[f].pay] > 0
       /\ \A g \in Fetches \ {f} :
             DuplicateCheck /\ Succeeded(g) => fetch[g].pay # fetch[f].pay

ClientInv == \A f \in Fetches : ClientOf(f)
ServerInv == \A f \in Fetches : ServerOf(f)

PaidInv == TypeOK /\ E!ExactInv /\ ClientInv /\ ServerInv /\ ReceiptInv

-----------------------------------------------------------------------------
(* The facilitator in PaidFetch is the one ExactFacilitator_proofs is about.*)

(* F and E start in the same states.                                       *)
LEMMA SameInit == F!Init => E!Init
    BY DEF F!Init, E!Init, F!Transactions, E!Transactions, F!Built, E!Built,
           F!NoCall, E!NoCall

(* What E calls well typed, F does.                                        *)
LEMMA SameTypes == E!TypeOK => F!TypeOK
    BY Zenon DEF E!TypeOK, F!TypeOK, F!Transactions, E!Transactions, F!Built,
           E!Built, F!NoCall, E!NoCall, F!Call, E!Call

(* A step of F's chain is a step of E's.                                   *)
LEMMA SameChain == F!Chain => E!Chain
    BY Zenon DEF F!Chain, E!Chain, F!Tick, E!Tick, F!Land, E!Land, F!Usable,
           E!Usable, F!Open, E!Open, F!Transactions, E!Transactions, F!Built,
           E!Built

(* A call that F takes, E takes.                                           *)
LEMMA SameProcessPayment ==
    ASSUME NEW c, NEW pay, F!ProcessPayment(c, pay)
    PROVE  E!ProcessPayment(c, pay)
    BY Zenon DEF F!ProcessPayment, E!ProcessPayment, F!Verified, E!Verified,
           F!Answer, E!Answer, F!Open, E!Open

(* A call that ends in F ends in E.                                        *)
LEMMA SameReturn == ASSUME NEW c, F!Return(c) PROVE E!Return(c)
    BY Zenon DEF F!Return, E!Return, F!NoCall, E!NoCall

(* A step of handleSettle() in F is one in E.                              *)
LEMMA SameStep == ASSUME NEW c, F!Step(c) PROVE E!Step(c)
<1> USE DEF F!Answer, E!Answer, F!Send, E!Send, F!Usable, E!Usable, F!Open,
            E!Open, F!Built, E!Built, F!Transactions, E!Transactions
<1>1. F!SettleTransaction(c) => E!SettleTransaction(c)
    BY Zenon DEF F!SettleTransaction, E!SettleTransaction, F!Add, E!Add,
                 F!Prune, E!Prune
<1>2. F!SettleAccount(c) => E!SettleAccount(c)
    BY Zenon DEF F!SettleAccount, E!SettleAccount
<1>3. F!Simulate(c) => E!Simulate(c)
    BY Zenon DEF F!Simulate, E!Simulate
<1>4. F!SendTransaction(c) => E!SendTransaction(c)
    BY Zenon DEF F!SendTransaction, E!SendTransaction
<1>5. F!PollStatus(c) => E!PollStatus(c)
    BY Zenon DEF F!PollStatus, E!PollStatus
<1>6. F!Throws(c) => E!Throws(c)
    BY Zenon DEF F!Throws, E!Throws
<1> QED BY <1>1, <1>2, <1>3, <1>4, <1>5, <1>6 DEF F!Step, E!Step

(* A step of F, or none, is a step of E, or none.                          *)
LEMMA SameNext == [F!Next]_facVars => [E!Next]_facVars
<1> SUFFICES ASSUME F!Next PROVE E!Next
    OBVIOUS
<1>1. F!Presentable = E!Presentable
    BY DEF F!Presentable, E!Presentable
<1> QED BY <1>1, SameChain, SameProcessPayment, SameReturn, SameStep
        DEF F!Next, E!Next

(* The facilitator starts with the invariant proved of it alone.           *)
LEMMA FacilitatorStart == F!Init => E!ExactInv
    BY SameInit, E!ExactStart, FacilitatorConstants, HeightsAreSound
    DEF E!ExactStart, E!Built, F!Built

(* Its steps keep that invariant, whoever calls it.                        *)
LEMMA FacilitatorKeeps ==
    ASSUME E!ExactInv, [F!Next]_facVars PROVE E!ExactInv' /\ F!TypeOK'
<1>1. [E!Next]_(E!vars)
    BY SameNext DEF facVars, E!vars
<1>2. E!ExactInv'
    BY <1>1, E!ExactStep, FacilitatorConstants, HeightsAreSound
    DEF E!ExactStep, E!Built, F!Built
<1>3. E!TypeOK'
    BY <1>2 DEF E!ExactInv
<1>4. (E!TypeOK => F!TypeOK)'
    BY SameTypes, PTL
<1> QED BY <1>2, <1>3, <1>4

(* What a step of handleSettle() does to the call that runs it. *)
LEMMA FacilitatorMoves ==
    ASSUME E!ExactInv, NEW c \in Fetches, F!Step(c)
    PROVE  /\ block' = block /\ calls[c].pc \notin {"idle", "answered"}
           /\ \A d \in Fetches : d # c => calls'[d] = calls[d]
           /\ calls'[c].pc \in E!Active \cup {"answered"}
           /\ calls'[c].pc \in E!Active =>
                 \/ calls[c].pc \in E!Active /\ calls'[c].tx = calls[c].tx
                 \/ /\ calls[c].pc = "signing"
                    /\ calls[c].pay \in Txs => calls'[c].tx = calls[c].pay
           /\ \/ /\ UNCHANGED receipts
                 /\ calls'[c].pc = "answered" => calls'[c].res # "ok"
              \/ /\ calls[c].pc = "polling" /\ calls[c].tx \in E!Transactions
                 /\ receipts' = [receipts EXCEPT ![calls[c].tx] =
                                                    receipts[calls[c].tx] + 1]
                 /\ E!Guarded(calls[c].tx) => receipts[calls[c].tx] = 0
    BY SameStep, E!CallStep, FacilitatorConstants, HeightsAreSound
    DEF E!CallStep, E!Built, F!Built

-----------------------------------------------------------------------------
(* Steps of the client and the server. *)

(* The types of what is not the facilitator's. *)
Typed ==
    /\ config \in Configs
    /\ cache \in {"none", "full", "empty"}
    /\ fetch \in [Fetches -> Fetch] /\ signed \subseteq Txs
    /\ srv \in [Fetches -> {"none", "resolving", "verifying", "next",
                            "settling"} \cup Reply]

(* What is typed is the client's and the server's, or the facilitator's.   *)
LEMMA TypeParts == TypeOK <=> Typed /\ F!TypeOK
    BY DEF TypeOK, Typed

(* A step of one fetch leaves the others alone; it succeeds only in the    *)
(* facilitator.                                                            *)
LEMMA OneFetchSteps ==
    ASSUME PaidInv, NEW f \in Fetches,
           \A g \in Fetches : g # f => /\ fetch'[g] = fetch[g]
                                       /\ srv'[g] = srv[g]
                                       /\ calls'[g] = calls[g],
           UNCHANGED <<config, block, receipts>>,
           ClientOf(f)', ServerOf(f)',
           Succeeded(f)' => Succeeded(f) /\ fetch'[f].pay = fetch[f].pay
    PROVE  ClientInv' /\ ServerInv' /\ ReceiptInv'
<1>1. ClientInv' /\ ServerInv'
  <2>1. ASSUME NEW g \in Fetches PROVE ClientOf(g)' /\ ServerOf(g)'
    <3>1. CASE g # f
        BY <3>1 DEF PaidInv, ClientInv, ServerInv, ClientOf, ServerOf
    <3> QED BY <3>1
  <2> QED BY <2>1 DEF ClientInv, ServerInv
<1>2. \A g \in Fetches : Succeeded(g)' =>
         Succeeded(g) /\ fetch'[g].pay = fetch[g].pay
    BY DEF Succeeded
<1>3. ReceiptInv'
    BY <1>2 DEF PaidInv, ReceiptInv
<1> QED BY <1>1, <1>3

(* The same for a step that leaves the facilitator alone. *)
LEMMA OutsideSteps ==
    ASSUME PaidInv, NEW f \in Fetches, NEW k \in Fetch,
           NEW s \in {"none", "resolving", "verifying", "next", "settling"}
                     \cup Reply,
           fetch' = [fetch EXCEPT ![f] = k], srv' = [srv EXCEPT ![f] = s],
           UNCHANGED <<config, facVars>>,
           cache' \in {"none", "full", "empty"}, signed' \subseteq Txs,
           ClientOf(f)', ServerOf(f)',
           Succeeded(f)' => Succeeded(f) /\ k.pay = fetch[f].pay
    PROVE  PaidInv'
<1>1. Typed
    BY TypeParts DEF PaidInv
<1>2. Typed' /\ fetch'[f] = k
    BY <1>1 DEF Typed
<1>3. E!ExactInv' /\ F!TypeOK'
    BY FacilitatorKeeps DEF PaidInv
<1>4. TypeOK'
    BY <1>2, <1>3 DEF TypeOK, Typed
<1>5. \A g \in Fetches : g # f => /\ fetch'[g] = fetch[g]
                                  /\ srv'[g] = srv[g]
                                  /\ calls'[g] = calls[g]
    BY <1>1 DEF Typed, facVars
<1>6. UNCHANGED <<config, block, receipts>>
    BY DEF facVars
<1>7. ClientInv' /\ ServerInv' /\ ReceiptInv'
    BY <1>2, <1>5, <1>6, OneFetchSteps
<1> QED BY <1>3, <1>4, <1>7 DEF PaidInv

(* What the invariant says of one fetch. *)
LEMMA FetchFacts ==
    ASSUME PaidInv, NEW f \in Fetches
    PROVE  /\ Typed /\ fetch[f] \in Fetch /\ ClientOf(f) /\ ServerOf(f)
           /\ srv[f] \in {"none", "resolving", "verifying", "next",
                          "settling"} \cup Reply
<1>1. Typed /\ ClientOf(f) /\ ServerOf(f)
    BY TypeParts DEF PaidInv, ClientInv, ServerInv
<1> QED BY <1>1 DEF Typed, Fetch

(* A request goes out with the payment the call attached, or none.         *)
LEMMA MakeRequestStep ==
    ASSUME PaidInv, NEW f \in Fetches, MakeRequest(f) PROVE PaidInv'
<1>1. /\ Typed /\ fetch[f] \in Fetch /\ ClientOf(f) /\ ServerOf(f)
      /\ fetch[f].pc \in {"idle", "backoff"}
    BY FetchFacts DEF MakeRequest
<1>2. PICK k : k = [fetch[f] EXCEPT !.pc = "phase1", !.ver = 0,
                                     !.pay = NoPayment]
    OBVIOUS
<1>3. /\ k \in Fetch /\ k.pc = "phase1" /\ k.left = fetch[f].left
      /\ k.ver = 0 /\ k.pay = NoPayment
    BY <1>1, <1>2 DEF Fetch
<1>4. calls[f].pc = "idle" /\ fetch[f].left > 0
    BY <1>1 DEF ClientOf, ServerOf, Challenges
<1>5. fetch' = [fetch EXCEPT ![f] = k]
    BY <1>1, <1>2 DEF MakeRequest, Typed
<1>6. /\ fetch'[f] = k /\ srv'[f] = "resolving" /\ calls' = calls
    BY <1>1, <1>5 DEF MakeRequest, Typed, facVars
<1>7. ClientOf(f)' /\ ServerOf(f)' /\ ~Succeeded(f)'
    BY <1>3, <1>4, <1>6, PaidFetchConstants
    DEF ClientOf, ServerOf, Succeeded, E!Active
<1> QED BY <1>1, <1>3, <1>5, <1>7, OutsideSteps DEF MakeRequest, Typed

(* The client goes on or ends, with the payment it has. *)
LEMMA GoesOnStep ==
    ASSUME PaidInv, NEW f \in Fetches, NEW n \in 0..(RetryCount + 1),
           NEW pc \in {"paying", "backoff"} \cup Ended,
           fetch' = [fetch EXCEPT ![f].pc = pc, ![f].left = n],
           UNCHANGED <<config, cache, signed, srv, facVars>>,
           fetch[f].pc # "idle", pc # "gaveUp" => n > 0,
           pc \in {"paying", "backoff"} => srv[f] \in Challenges,
           pc = "served" => srv[f] = "200"
    PROVE  PaidInv'
<1>1. /\ Typed /\ fetch[f] \in Fetch /\ ClientOf(f) /\ ServerOf(f)
    BY FetchFacts
<1>2. PICK k : k = [fetch[f] EXCEPT !.pc = pc, !.left = n]
    OBVIOUS
<1>3. /\ k \in Fetch /\ k.pc = pc /\ k.left = n /\ k.ver = fetch[f].ver
      /\ k.pay = fetch[f].pay
    BY <1>1, <1>2 DEF Fetch, Ended
<1>4. fetch' = [fetch EXCEPT ![f] = k]
    BY <1>1, <1>2 DEF Typed
<1>5. /\ fetch'[f] = k /\ srv' = [srv EXCEPT ![f] = srv[f]]
      /\ UNCHANGED <<calls, block, srv, config>>
    BY <1>1, <1>4 DEF Typed, facVars
<1>6. ClientOf(f)'
    BY <1>1, <1>3, <1>5 DEF ClientOf, Ended
<1>7. ServerOf(f)' /\ (Succeeded(f)' => Succeeded(f))
    BY <1>1, <1>3, <1>5 DEF ServerOf, Succeeded
<1> QED BY <1>1, <1>3, <1>4, <1>5, <1>6, <1>7, FetchFacts, OutsideSteps
        DEF Typed

(* A challenged call attaches a payment that was signed, or throws.        *)
LEMMA PayStep ==
    ASSUME PaidInv, NEW f \in Fetches, Pay(f) PROVE PaidInv'
<1>1. /\ Typed /\ fetch[f] \in Fetch /\ ClientOf(f) /\ ServerOf(f)
      /\ fetch[f].pc = "paying" /\ UNCHANGED <<config, cache, facVars>>
    BY FetchFacts DEF Pay
<1>2. calls[f].pc = "idle" /\ fetch[f].left > 0
    BY <1>1 DEF ClientOf, ServerOf, Challenges
<1>3. ASSUME NEW tx \in Txs, Signable(tx), signed' = signed \cup {tx},
             fetch' = [fetch EXCEPT ![f].pc = "phase2",
                                    ![f].ver = DetectedVersion,
                                    ![f].pay = tx],
             srv' = [srv EXCEPT ![f] = "resolving"]
      PROVE  PaidInv'
  <2>1. DetectedVersion \in Versions
      BY DEF DetectedVersion, Versions
  <2>2. PICK k : k = [fetch[f] EXCEPT !.pc = "phase2",
                                      !.ver = DetectedVersion, !.pay = tx]
      OBVIOUS
  <2>3. /\ k \in Fetch /\ k.pc = "phase2" /\ k.left = fetch[f].left
        /\ k.ver = DetectedVersion /\ k.pay = tx
      BY <1>1, <2>1, <2>2 DEF Fetch
  <2>4. fetch' = [fetch EXCEPT ![f] = k]
      BY <1>1, <1>3, <2>2 DEF Typed
  <2>5. /\ fetch'[f] = k /\ srv'[f] = "resolving"
        /\ UNCHANGED <<calls, block>>
      BY <1>1, <1>3, <2>4 DEF Typed, facVars
  <2>6. ClientOf(f)'
      BY <1>2, <1>3, <2>1, <2>3, <2>5 DEF ClientOf, Signable, Versions
  <2>7. ServerOf(f)' /\ ~Succeeded(f)'
      BY <1>2, <2>5 DEF ServerOf, Succeeded, E!Active
  <2>8. srv' = [srv EXCEPT ![f] = "resolving"] /\ signed' \subseteq Txs
      BY <1>1, <1>3 DEF Typed
  <2>9. cache' \in {"none", "full", "empty"} /\ UNCHANGED <<config, facVars>>
      BY <1>1 DEF Typed
  <2> QED BY <2>3, <2>4, <2>6, <2>7, <2>8, <2>9, OutsideSteps
<1>4. CASE Goto(f, "threw") /\ UNCHANGED <<srv, signed>>
  <2>1. fetch' = [fetch EXCEPT ![f].pc = "threw", ![f].left = fetch[f].left]
      BY <1>1, <1>4 DEF Goto, Typed, Fetch
  <2>2. fetch[f].left \in 0..(RetryCount + 1) /\ "threw" \in Ended
      BY <1>1 DEF Fetch, Ended
  <2> QED BY <1>1, <1>2, <1>4, <2>1, <2>2, GoesOnStep
<1> QED BY <1>1, <1>3, <1>4 DEF Pay

(* A reply serves the call, challenges it or ends it.                      *)
LEMMA ReceiveStep ==
    ASSUME PaidInv, NEW f \in Fetches, Receive(f) PROVE PaidInv'
<1>1. /\ Typed /\ fetch[f] \in Fetch /\ ClientOf(f) /\ fetch[f].left > 0
      /\ fetch[f].pc \in {"phase1", "phase2"}
      /\ UNCHANGED <<config, cache, signed, srv, facVars>>
    BY FetchFacts DEF Receive, ClientOf
<1>2. fetch[f].left \in 0..(RetryCount + 1) /\ RetryCount \in Nat
    BY <1>1, PaidFetchConstants DEF Fetch
<1>3. ASSUME NEW pc \in {"paying", "served", "refused"}, Goto(f, pc),
             pc = "paying" => srv[f] \in Challenges,
             pc = "served" => srv[f] = "200"
      PROVE  PaidInv'
  <2>1. fetch' = [fetch EXCEPT ![f].pc = pc, ![f].left = fetch[f].left]
      BY <1>1, <1>3 DEF Goto, Typed, Fetch
  <2> QED BY <1>1, <1>2, <1>3, <2>1, GoesOnStep DEF Ended
<1>4. CASE srv[f] \in Challenges /\ Again(f)
  <2> DEFINE pc == IF fetch[f].left > 1 THEN "backoff" ELSE "gaveUp"
  <2>1. fetch' = [fetch EXCEPT ![f].pc = pc, ![f].left = fetch[f].left - 1]
      BY <1>1, <1>4 DEF Again, Typed, Fetch
  <2>2. /\ fetch[f].left - 1 \in 0..(RetryCount + 1)
        /\ pc # "gaveUp" => fetch[f].left - 1 > 0
        /\ pc \in {"paying", "backoff"} \cup Ended
        /\ pc \notin {"paying", "served"}
      BY <1>1, <1>2 DEF Ended
  <2> HIDE DEF pc
  <2> QED BY <1>1, <1>4, <2>1, <2>2, GoesOnStep
<1> QED BY <1>1, <1>3, <1>4 DEF Receive, Challenges

(* A lost connection ends the call and leaves the server to go on.         *)
LEMMA DisconnectStep ==
    ASSUME PaidInv, NEW f \in Fetches, Disconnect(f) PROVE PaidInv'
<1>1. /\ Typed /\ fetch[f] \in Fetch /\ ClientOf(f) /\ fetch[f].left > 0
      /\ fetch[f].pc \in {"phase1", "phase2"}
      /\ UNCHANGED <<config, cache, signed, srv, facVars>>
    BY FetchFacts DEF Disconnect, ClientOf
<1>2. fetch' = [fetch EXCEPT ![f].pc = "threw", ![f].left = fetch[f].left]
    BY <1>1 DEF Disconnect, Goto, Typed, Fetch
<1>3. fetch[f].left \in 0..(RetryCount + 1) /\ "threw" \in Ended
    BY <1>1 DEF Fetch, Ended
<1> QED BY <1>1, <1>2, <1>3, GoesOnStep

(* The server moves on with the request of one fetch. *)
LEMMA ServerMoves ==
    ASSUME PaidInv, NEW f \in Fetches,
           NEW s \in {"verifying", "next", "settling"} \cup Reply,
           srv' = [srv EXCEPT ![f] = s], srv[f] # "none",
           srv[f] \notin Challenges \cup {"200"},
           UNCHANGED <<config, fetch, signed, facVars>>,
           cache' \in {"none", "full", "empty"},
           s \in {"verifying", "next", "settling", "200", "500"}
              => fetch[f].pay \in Txs \/ (s = "500" /\ calls[f].pc = "idle"),
           calls[f].pc # "idle" => s = "500", s = "verifying" => config.first,
           s = "200" \/ (s = "next" /\ ~config.first) => Succeeded(f)
    PROVE  PaidInv'
<1>1. /\ Typed /\ fetch[f] \in Fetch /\ ClientOf(f) /\ ServerOf(f)
    BY FetchFacts
<1>2. /\ srv'[f] = s /\ fetch' = [fetch EXCEPT ![f] = fetch[f]]
      /\ UNCHANGED <<calls, block, fetch, config>>
    BY <1>1 DEF Typed, facVars
<1>3. ClientOf(f)' /\ ServerOf(f)' /\ (Succeeded(f)' => Succeeded(f))
    BY <1>1, <1>2 DEF ClientOf, ServerOf, Succeeded
<1> QED BY <1>1, <1>2, <1>3, OutsideSteps DEF Typed

(* Resolving the accepts goes on with a payment, or challenges.            *)
LEMMA ResolveRequirementsStep ==
    ASSUME PaidInv, NEW f \in Fetches, ResolveRequirements(f)
    PROVE  PaidInv'
<1>1. /\ Typed /\ ClientOf(f) /\ ServerOf(f) /\ srv[f] = "resolving"
      /\ calls[f].pc = "idle" /\ UNCHANGED <<config, fetch, signed, facVars>>
    BY FetchFacts DEF ResolveRequirements, ServerOf
<1>2. cache' \in {"none", "full", "empty"}
    BY <1>1 DEF ResolveRequirements, Typed, Accepts
<1>3. PICK s \in {"402", "402 empty", "400", "500", "verifying", "settling"} :
         /\ srv' = [srv EXCEPT ![f] = s]
         /\ s \in {"verifying", "settling"} => fetch[f].ver # 0
         /\ s = "verifying" => config.first
    BY <1>1 DEF ResolveRequirements, HandleMiddlewareRequest
<1>4. s \in {"verifying", "settling"} => fetch[f].pay \in Txs
    BY <1>1, <1>3 DEF ClientOf
<1> QED BY <1>1, <1>2, <1>3, <1>4, ServerMoves DEF Challenges, Reply

(* A verification settles nothing.                                         *)
LEMMA VerifyPaymentStep ==
    ASSUME PaidInv, NEW f \in Fetches, VerifyPayment(f) PROVE PaidInv'
<1>1. /\ Typed /\ ServerOf(f) /\ srv[f] = "verifying" /\ fetch[f].pay \in Txs
      /\ calls[f].pc = "idle" /\ config.first
      /\ UNCHANGED <<config, cache, fetch, signed, facVars>>
    BY FetchFacts DEF VerifyPayment, ServerOf
<1>2. cache' \in {"none", "full", "empty"}
    BY <1>1 DEF Typed
<1>3. ASSUME NEW s \in {"402", "500"}, srv' = [srv EXCEPT ![f] = s]
      PROVE  PaidInv'
    BY <1>1, <1>2, <1>3, ServerMoves DEF Challenges, Reply
<1>4. CASE srv' = [srv EXCEPT ![f] = "next"]
    BY <1>1, <1>2, <1>4, ServerMoves DEF Challenges, Reply
<1> QED BY <1>3, <1>4 DEF VerifyPayment

(* The route runs before or after the settlement, as configured.           *)
LEMMA RunRouteStep ==
    ASSUME PaidInv, NEW f \in Fetches, RunRoute(f) PROVE PaidInv'
<1>1. /\ Typed /\ srv[f] = "next" /\ fetch[f].pay \in Txs
      /\ calls[f].pc = "idle"
      /\ UNCHANGED <<config, cache, fetch, signed, facVars>>
    BY FetchFacts DEF RunRoute, ServerOf
<1>2. cache' \in {"none", "full", "empty"} /\ config.first \in BOOLEAN
    BY <1>1, PaidFetchConstants DEF Typed, Config
<1>3. CASE config.first
    BY <1>1, <1>2, <1>3, ServerMoves DEF RunRoute, Challenges, Reply
<1>4. CASE ~config.first
    BY <1>1, <1>2, <1>4, ServerMoves
    DEF RunRoute, Challenges, Reply, Succeeded
<1> QED BY <1>2, <1>3, <1>4

(* The server gives up on a remote facilitator, which may be at work.      *)
LEMMA FacilitatorLostStep ==
    ASSUME PaidInv, NEW f \in Fetches, FacilitatorLost(f) PROVE PaidInv'
<1>1. /\ Typed /\ srv[f] = "settling" /\ fetch[f].pay \in Txs
      /\ UNCHANGED <<config, cache, fetch, signed, facVars>>
    BY FetchFacts DEF FacilitatorLost, ServerOf
<1>2. cache' \in {"none", "full", "empty"}
    BY <1>1 DEF Typed
<1> QED BY <1>1, <1>2, ServerMoves DEF FacilitatorLost, Challenges, Reply

(* A cache entry that expires touches no payment.                          *)
LEMMA ExpireAcceptsStep == ASSUME PaidInv, ExpireAccepts PROVE PaidInv'
<1>1. UNCHANGED <<config, fetch, signed, srv, facVars>> /\ cache' = "none"
    BY DEF ExpireAccepts
<1>2. E!ExactInv' /\ F!TypeOK'
    BY <1>1, FacilitatorKeeps DEF PaidInv
<1>3. TypeOK'
    BY <1>1, <1>2, TypeParts DEF PaidInv, TypeOK, Typed
<1>4. ClientInv' /\ ServerInv' /\ ReceiptInv'
    BY <1>1 DEF facVars, PaidInv, ClientInv, ServerInv, ReceiptInv,
                ClientOf, ServerOf, Succeeded
<1> QED BY <1>2, <1>3, <1>4 DEF PaidInv

-----------------------------------------------------------------------------
(* Steps of the facilitator, each a step of ExactFacilitator. *)

(* The server presents the payment of the request to the facilitator.      *)
LEMMA SettlePresents ==
    ASSUME PaidInv, NEW f \in Fetches, Settle(f)
    PROVE  F!Next /\ fetch[f].pay \in Txs
<1>1. fetch[f].pay \in Txs /\ Born[fetch[f].pay] <= block
    BY FetchFacts DEF Settle, ClientOf, ServerOf
<1>2. fetch[f].pay \in F!Presentable
    BY <1>1 DEF F!Presentable
<1> QED BY <1>1, <1>2 DEF Settle, F!Next

(* Presenting a payment starts a call of the facilitator for it.           *)
LEMMA SettleStep ==
    ASSUME PaidInv, NEW f \in Fetches, Settle(f) PROVE PaidInv'
<1>1. /\ Typed /\ ClientOf(f) /\ ServerOf(f) /\ srv[f] = "settling"
      /\ UNCHANGED <<clientVars, block, receipts>>
    BY FetchFacts DEF Settle, F!ProcessPayment
<1>2. E!ExactInv' /\ F!TypeOK' /\ fetch[f].pay \in Txs
    BY SettlePresents, FacilitatorKeeps DEF PaidInv
<1>3. TypeOK'
    BY <1>1, <1>2 DEF TypeOK, Typed, clientVars
<1>4. calls \in [Fetches -> F!Call]
    BY TypeParts DEF PaidInv, F!TypeOK
<1>5. /\ \A g \in Fetches : g # f => calls'[g] = calls[g]
      /\ \/ calls'[f].pc = "signing" /\ calls'[f].pay = fetch[f].pay
         \/ calls'[f].pc = "answered" /\ calls'[f].res \in {"error", "throw"}
    BY <1>4 DEF Settle, F!ProcessPayment, F!Answer
<1>6. ClientOf(f)' /\ ServerOf(f)' /\ ~Succeeded(f)'
    BY <1>1, <1>2, <1>5
    DEF clientVars, ClientOf, ServerOf, Succeeded, E!Active
<1>7. ClientInv' /\ ServerInv' /\ ReceiptInv'
    BY <1>1, <1>5, <1>6, OneFetchSteps DEF clientVars
<1> QED BY <1>2, <1>3, <1>7 DEF PaidInv

(* The server has the answer: a success stands for a receipt.              *)
LEMMA SettleAnsweredStep ==
    ASSUME PaidInv, NEW f \in Fetches, SettleAnswered(f) PROVE PaidInv'
<1>1. /\ Typed /\ ClientOf(f) /\ ServerOf(f) /\ srv[f] = "settling"
      /\ calls[f].pc = "answered" /\ fetch[f].pay \in Txs
      /\ UNCHANGED <<config, cache, fetch, signed, block, receipts>>
    BY FetchFacts DEF SettleAnswered, F!Return, ServerOf
<1>2. F!Next
    BY DEF SettleAnswered, F!Next
<1>3. E!ExactInv' /\ F!TypeOK'
    BY <1>2, FacilitatorKeeps DEF PaidInv
<1>4. calls \in [Fetches -> F!Call]
    BY TypeParts DEF PaidInv, F!TypeOK
<1>5. /\ calls'[f].pc = "idle"
      /\ \A g \in Fetches : g # f => calls'[g] = calls[g]
    BY <1>4 DEF SettleAnswered, F!Return, F!NoCall
<1>6. PICK s \in {"200", "next", "402", "500"} :
         /\ srv' = [srv EXCEPT ![f] = s]
         /\ s \in {"200", "next"} => Succeeded(f)
    BY <1>1 DEF SettleAnswered, Settled, SettleRoute, Succeeded
<1>7. TypeOK'
    BY <1>1, <1>3, <1>6 DEF TypeOK, Typed, Reply
<1>8. srv'[f] = s /\ \A g \in Fetches : g # f => srv'[g] = srv[g]
    BY <1>1, <1>6 DEF Typed
<1>9. ClientOf(f)' /\ ServerOf(f)' /\ (Succeeded(f)' => Succeeded(f))
    BY <1>1, <1>5, <1>6, <1>8
    DEF ClientOf, ServerOf, Succeeded, E!Active, Challenges
<1>10. ClientInv' /\ ServerInv' /\ ReceiptInv'
    BY <1>1, <1>5, <1>8, <1>9, OneFetchSteps
<1> QED BY <1>3, <1>7, <1>10 DEF PaidInv

(* A success takes the payment's only receipt, so that no other request    *)
(* has had one for it.                                                     *)
LEMMA FacilitatorStep ==
    ASSUME PaidInv, NEW f \in Fetches, F!Step(f), UNCHANGED clientVars
    PROVE  PaidInv'
<1>1. /\ Typed /\ ServerOf(f) /\ UNCHANGED <<config, cache, fetch, signed, srv>>
    BY FetchFacts DEF clientVars
<1>2. /\ block' = block /\ calls[f].pc \notin {"idle", "answered"}
      /\ \A g \in Fetches : g # f => calls'[g] = calls[g]
      /\ calls'[f].pc \in E!Active \cup {"answered"}
      /\ calls'[f].pc \in E!Active =>
            \/ calls[f].pc \in E!Active /\ calls'[f].tx = calls[f].tx
            \/ /\ calls[f].pc = "signing"
               /\ calls[f].pay \in Txs => calls'[f].tx = calls[f].pay
    BY FacilitatorMoves DEF PaidInv
<1>3. fetch[f].pay \in Txs
    BY <1>1, <1>2 DEF ServerOf
<1>4. E!ExactInv' /\ F!TypeOK'
    BY FacilitatorKeeps DEF PaidInv, F!Next
<1>5. TypeOK'
    BY <1>1, <1>4 DEF TypeOK, Typed
<1>6. ClientInv'
    BY <1>1, <1>2 DEF PaidInv, ClientInv, ClientOf
<1>7. ServerInv'
  <2>1. ServerOf(f)'
      BY <1>1, <1>2, <1>3 DEF ServerOf, E!Active
  <2>2. ASSUME NEW g \in Fetches, g # f PROVE ServerOf(g)'
      BY <1>1, <1>2, <2>2 DEF PaidInv, ServerInv, ServerOf
  <2> QED BY <2>1, <2>2 DEF ServerInv
<1>8. ReceiptInv'
  <2>1. ~Succeeded(f) \/ srv[f] \in {"200", "next"}
      BY <1>2 DEF Succeeded
  <2>2. ~Succeeded(f) /\ srv[f] \notin {"200", "next"}
      BY <1>1, <1>2, <2>1 DEF ServerOf
  <2>3. \A g \in Fetches : g # f => (Succeeded(g)' <=> Succeeded(g))
      BY <1>1, <1>2 DEF Succeeded
  <2>4. CASE /\ UNCHANGED receipts
             /\ calls'[f].pc = "answered" => calls'[f].res # "ok"
    <3>1. ~Succeeded(f)'
        BY <1>1, <2>2, <2>4 DEF Succeeded
    <3> QED BY <1>1, <2>3, <2>4, <3>1 DEF PaidInv, ReceiptInv
  <2>5. CASE /\ calls[f].pc = "polling" /\ calls[f].tx \in E!Transactions
             /\ receipts' = [receipts EXCEPT ![calls[f].tx] =
                                               receipts[calls[f].tx] + 1]
             /\ E!Guarded(calls[f].tx) => receipts[calls[f].tx] = 0
    <3>1. calls[f].tx = fetch[f].pay
        BY <1>1, <2>5 DEF ServerOf, E!Active
    <3>2. /\ receipts \in [E!Transactions -> Nat]
        BY DEF PaidInv, E!ExactInv, E!TypeOK
    <3>3. /\ receipts'[fetch[f].pay] > 0
          /\ \A t \in E!Transactions : receipts[t] > 0 => receipts'[t] > 0
        BY <2>5, <3>1, <3>2
    <3>4. DuplicateCheck => receipts[fetch[f].pay] = 0
        BY <2>5, <3>1 DEF E!Guarded
    <3>5. \A g \in Fetches : Succeeded(g) =>
             /\ fetch[g].pay \in E!Transactions
             /\ receipts[fetch[g].pay] > 0
      <4>1. ASSUME NEW g \in Fetches, Succeeded(g)
            PROVE  fetch[g].pay \in Txs
          BY <4>1, FetchFacts DEF Succeeded, ServerOf
      <4> QED BY <4>1 DEF PaidInv, ReceiptInv, E!Transactions
    <3>6. \A g \in Fetches : DuplicateCheck /\ Succeeded(g)
                                => fetch[g].pay # fetch[f].pay
        BY <3>4, <3>5
    <3> SUFFICES ASSUME NEW g \in Fetches, Succeeded(g)'
                 PROVE  /\ receipts'[fetch'[g].pay] > 0
                        /\ \A h \in Fetches \ {g} :
                              DuplicateCheck /\ Succeeded(h)'
                                 => fetch'[h].pay # fetch'[g].pay
        BY DEF ReceiptInv
    <3>7. CASE g = f
        BY <1>1, <2>3, <3>3, <3>6, <3>7
    <3>8. CASE g # f
      <4>1. Succeeded(g)
          BY <2>3, <3>8
      <4>2. \A h \in Fetches \ {g} : DuplicateCheck /\ Succeeded(h)'
                                        => fetch[h].pay # fetch[g].pay
          BY <2>3, <3>6, <4>1 DEF PaidInv, ReceiptInv
      <4> QED BY <1>1, <3>3, <3>5, <4>1, <4>2
    <3> QED BY <3>7, <3>8
  <2> QED BY <2>4, <2>5, FacilitatorMoves DEF PaidInv
<1> QED BY <1>4, <1>5, <1>6, <1>7, <1>8 DEF PaidInv

(* The chain moves behind the backs of client and server.                  *)
LEMMA ChainStep == ASSUME PaidInv, F!Chain, UNCHANGED clientVars PROVE PaidInv'
<1>1. /\ Typed /\ UNCHANGED <<config, cache, fetch, signed, srv>>
      /\ UNCHANGED <<calls, receipts>>
    BY TypeParts DEF clientVars, F!Chain, F!Tick, F!Land, PaidInv
<1>2. E!ExactInv' /\ F!TypeOK'
    BY FacilitatorKeeps DEF PaidInv, F!Next
<1>3. TypeOK'
    BY <1>1, <1>2 DEF TypeOK, Typed
<1>4. \A t \in Txs : Born[t] <= block => Born[t] <= block'
  <2>1. block \in Nat
      BY DEF PaidInv, E!ExactInv, E!TypeOK
  <2> QED BY <2>1, FacilitatorConstants DEF F!Chain, F!Tick, F!Land
<1>5. ClientInv' /\ ServerInv' /\ ReceiptInv'
    BY <1>1, <1>4 DEF PaidInv, ClientInv, ServerInv, ReceiptInv,
                      ClientOf, ServerOf, Succeeded
<1> QED BY <1>2, <1>3, <1>5 DEF PaidInv

-----------------------------------------------------------------------------
(* The invariant holds before the first fetch.                             *)
LEMMA PaidStart == Init => PaidInv
<1> SUFFICES ASSUME Init PROVE PaidInv
    OBVIOUS
<1>1. E!ExactInv /\ F!TypeOK
    BY FacilitatorStart, SameTypes DEF Init, E!ExactInv
<1>2. TypeOK
  <2>1. [pc |-> "idle", left |-> RetryCount + 1, ver |-> 0,
         pay |-> NoPayment] \in Fetch
      BY PaidFetchConstants DEF Fetch
  <2> QED BY <1>1, <2>1 DEF Init, TypeOK
<1>3. \A f \in Fetches : /\ fetch[f].pc = "idle" /\ srv[f] = "none"
                         /\ fetch[f].left > 0 /\ fetch[f].ver = 0
                         /\ fetch[f].pay = NoPayment
                         /\ calls[f].pc = "idle"
  <2>1. \A f \in Fetches : calls[f].pc = "idle" /\ srv[f] = "none"
      BY DEF Init, F!Init, F!NoCall
  <2>2. \A f \in Fetches : /\ fetch[f].pc = "idle" /\ fetch[f].ver = 0
                           /\ fetch[f].left = RetryCount + 1
                           /\ fetch[f].pay = NoPayment
      BY DEF Init
  <2>3. RetryCount + 1 > 0
      BY PaidFetchConstants
  <2> QED BY <2>1, <2>2, <2>3
<1>4. ClientInv /\ ServerInv /\ ReceiptInv
    BY <1>3, PaidFetchConstants
    DEF ClientInv, ServerInv, ReceiptInv, ClientOf, ServerOf, Succeeded,
        E!Active
<1> QED BY <1>1, <1>2, <1>4 DEF PaidInv

(* Every step keeps the invariant: one lemma for each action.              *)
LEMMA PaidStep == PaidInv /\ [Next]_vars => PaidInv'
<1> SUFFICES ASSUME PaidInv, [Next]_vars PROVE PaidInv'
    OBVIOUS
<1>1. ASSUME NEW f \in Fetches, Client(f) PROVE PaidInv'
    BY <1>1, MakeRequestStep, PayStep, ReceiveStep DEF Client
<1>2. ASSUME NEW f \in Fetches, Server(f) PROVE PaidInv'
    BY <1>2, ResolveRequirementsStep, VerifyPaymentStep, RunRouteStep,
       SettleStep, SettleAnsweredStep DEF Server
<1>3. CASE UNCHANGED vars
  <2>1. E!ExactInv' /\ F!TypeOK'
      BY <1>3, FacilitatorKeeps DEF PaidInv, vars
  <2>2. TypeOK'
      BY <1>3, <2>1, TypeParts DEF PaidInv, vars, clientVars, TypeOK, Typed
  <2>3. ClientInv' /\ ServerInv' /\ ReceiptInv'
      BY <1>3 DEF vars, clientVars, facVars, PaidInv, ClientInv, ServerInv,
                  ReceiptInv, ClientOf, ServerOf, Succeeded
  <2> QED BY <2>1, <2>2, <2>3 DEF PaidInv
<1> QED BY <1>1, <1>2, <1>3, FacilitatorStep, DisconnectStep,
           FacilitatorLostStep, ExpireAcceptsStep, ChainStep
        DEF Next, Facilitator

(* The client's, the server's and the facilitator's state stay well typed, *)
(* the attempts of wrap() within their number.                             *)
THEOREM FetchTypeCorrect == Spec => []TypeOK
<1>1. PaidInv => TypeOK
    BY DEF PaidInv
<1> QED BY <1>1, PaidStart, PaidStep, PTL DEF Spec

(* What the client receives as served is paid for on chain, with a payment *)
(* no other served request has if duplicates are checked, whatever the     *)
(* configuration, the retries and the connections that break.              *)
THEOREM ServedFetchIsPaid == Spec => []ServedIsPaid
<1>1. PaidInv => ServedIsPaid
  <2> SUFFICES ASSUME PaidInv, NEW f \in Fetches, fetch[f].pc = "served"
               PROVE  /\ fetch[f].pay \in Txs
                      /\ chain[fetch[f].pay] = "confirmed"
                      /\ \A g \in Fetches \ {f} :
                            DuplicateCheck /\ fetch[g].pc = "served"
                               => fetch[g].pay # fetch[f].pay
      BY DEF ServedIsPaid
  <2>1. \A g \in Fetches : fetch[g].pc = "served" =>
           srv[g] = "200" /\ Succeeded(g)
      BY DEF PaidInv, ClientInv, ClientOf, Succeeded
  <2>2. fetch[f].pay \in Txs /\ fetch[f].pay \in E!Transactions
      BY <2>1 DEF PaidInv, ServerInv, ServerOf, E!Transactions
  <2>3. receipts[fetch[f].pay] > 0
      BY <2>1 DEF PaidInv, ReceiptInv
  <2>4. chain[fetch[f].pay] = "confirmed"
      BY <2>2, <2>3 DEF PaidInv, E!ExactInv, E!SettlesOnlyPayments
  <2>5. \A g \in Fetches \ {f} : DuplicateCheck /\ fetch[g].pc = "served"
                                    => fetch[g].pay # fetch[f].pay
      BY <2>1 DEF PaidInv, ReceiptInv
  <2> QED BY <2>2, <2>4, <2>5
<1> QED BY <1>1, PaidStart, PaidStep, PTL DEF Spec

(* wrap() signs another payment only when the settlement of the one before *)
(* has ended.                                                              *)
THEOREM FetchPaysOneAtATime == Spec => PaysOneAtATime
<1>1. PaidInv => \A f \in Fetches : fetch[f].pc = "paying"
                                       => calls[f].pc = "idle"
    BY DEF PaidInv, ClientInv, ServerInv, ClientOf, ServerOf, Challenges
<1>2. PaidInv => [\A f \in Fetches :
                     fetch[f].pc = "paying" /\ fetch'[f].pc = "phase2"
                        => calls[f].pc = "idle"]_vars
    BY <1>1
<1> QED BY <1>2, PaidStart, PaidStep, PTL DEF Spec, PaysOneAtATime

(* Every step of a paid request is one of the facilitator's, or leaves it  *)
(* alone: handleSettle() is called with payments that exist, and answers   *)
(* calls that were made.                                                   *)
THEOREM FetchImplementsFacilitator == Spec => ImplementsFacilitator
<1>1. Init => F!Init
    BY DEF Init
<1>2. PaidInv /\ [Next]_vars => [F!Next]_(F!vars)
  <2> SUFFICES ASSUME PaidInv, [Next]_vars PROVE [F!Next]_(F!vars)
      OBVIOUS
  <2> USE DEF facVars, F!vars
  <2>1. ASSUME NEW f \in Fetches, Client(f) PROVE UNCHANGED facVars
      BY <2>1 DEF Client, MakeRequest, Pay, Receive
  <2>2. ASSUME NEW f \in Fetches, Server(f) PROVE [F!Next]_facVars
    <3>1. CASE ResolveRequirements(f) \/ VerifyPayment(f) \/ RunRoute(f)
        BY <3>1 DEF ResolveRequirements, VerifyPayment, RunRoute
    <3>2. CASE SettleAnswered(f)
        BY <3>2 DEF SettleAnswered, F!Next
    <3> QED BY <2>2, <3>1, <3>2, SettlePresents DEF Server
  <2>3. CASE \E f \in Fetches : Facilitator(f)
      BY <2>3 DEF Facilitator, F!Next
  <2>4. CASE \E f \in Fetches : Disconnect(f) \/ FacilitatorLost(f)
      BY <2>4 DEF Disconnect, FacilitatorLost
  <2>5. CASE ExpireAccepts
      BY <2>5 DEF ExpireAccepts
  <2>6. CASE F!Chain
      BY <2>6 DEF F!Next
  <2>7. CASE UNCHANGED vars
      BY <2>7 DEF vars
  <2> QED BY <2>1, <2>2, <2>3, <2>4, <2>5, <2>6, <2>7 DEF Next
<1> QED BY <1>1, <1>2, PaidStart, PaidStep, PTL
        DEF Spec, ImplementsFacilitator, F!Spec
=============================================================================
