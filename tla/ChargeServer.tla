---------------------------- MODULE ChargeServer ----------------------------
(***************************************************************************)
(* The MPP "charge" method of packages/payment-solana/src/charge: a server *)
(* hands out challenges for a price (getChallenge), remembers their ids in *)
(* a replay store, and trades a paid challenge for a receipt               *)
(* (handleSettle).  With a fee payer the server signs and broadcasts the   *)
(* client's transaction (pull mode); without one the client has broadcast  *)
(* it and presents its signature (push mode).                              *)
(*                                                                         *)
(* A server has a handler for an SPL token and one for SOL, each of which  *)
(* leaves the other's challenges alone, and so do the clients.  Ids are    *)
(* HMACs of their parameters: equal parameters give equal ids, and clients *)
(* present ids the server has made.                                        *)
(***************************************************************************)
EXTENDS Integers, FiniteSets

CONSTANTS
    Prices,      \* what is charged: amount, currency and recipient
    NativePrices,  \* those whose currency is "sol"
    Hashes,      \* blockhashes a challenge may carry (push mode: one, none)
    Wallets,     \* those who pay
    Calls,       \* concurrent handleSettle() calls
    PerSecond,   \* units of Date.now() in a second
    Timeout,     \* challengeTimeoutMs
    MaxRetries,  \* maxRetries of the polls
    MaxNow,      \* bound: the horizon of the clock
    MaxIssued    \* bound: how many challenges are handed out

ASSUME ChargeConstants ==
    /\ PerSecond \in Nat \ {0} /\ Timeout \in Nat /\ Timeout >= PerSecond
    /\ MaxRetries \in Nat \ {0} /\ MaxNow \in Nat /\ MaxIssued \in Nat
    /\ NativePrices \subseteq Prices

(* exec() of the clients, to its signature: a transfer of the price by the *)
(* wallet, with the blockhash of the challenge.  It has no memo, so that   *)
(* equal transfers with one blockhash are one transaction.  The client for *)
(* tokens returns null for a challenge in SOL, the other for one in tokens.*)
Transfer(w, price, hash) == [wallet |-> w, price |-> price, hash |-> hash]

ChargeClient(w, price, hash) ==
    {Transfer(w, p, hash) : p \in {price} \ NativePrices}

NativeChargeClient(w, price, hash) ==
    {Transfer(w, p, hash) : p \in {price} \cap NativePrices}

Txs == UNION {ChargeClient(w, price, hash) \cup NativeChargeClient(w, price, hash) :
                 w \in Wallets, price \in Prices, hash \in Hashes}

Pays == [tx \in Txs |-> tx.price]

(* The last second a challenge made within the horizon can expire at.      *)
LastSecond == (MaxNow + Timeout) \div PerSecond

Ids == [price : Prices, hash : Hashes, expires : 0..LastSecond]

VARIABLES
    feePayer,  \* is the server configured with a fee payer (pull mode)?
    now,       \* Date.now()
    store,     \* the Map of the replay store: ids and their expiresAt
    calls,     \* each handleSettle(): where it is, the challenge it has
               \* consumed (which consumption of the id), its polls
    chain,     \* the status of each transaction on chain
    issued,    \* history: how often each id was handed out
    consumed,  \* history: how often each id was consumed
    receipts,  \* history: receipts returned, and for which consumption
    restarted  \* history: has the server been restarted?

vars == <<feePayer, now, store, calls, chain, issued, consumed, receipts,
          restarted>>

serverVars == <<feePayer, restarted>>

NoCall == [pc |-> "idle"]

Call == {NoCall} \cup
        [pc : {"fetching", "simulating", "sending", "polling"},
         id : Ids, nth : Nat, tx : Txs, tries : 0..(MaxRetries - 1)]

ServerOK == feePayer \in BOOLEAN /\ restarted \in BOOLEAN

(* The server's, its callers' and the chain's state are well typed.        *)
TypeOK ==
    /\ ServerOK
    /\ now \in Nat
    /\ store \subseteq [id : Ids, until : Nat]
    /\ calls \in [Calls -> Call]
    /\ chain \in [Txs -> {"none", "sent", "confirmed", "failed"}]
    /\ issued \in [Ids -> Nat] /\ consumed \in [Ids -> Nat]
    /\ receipts \subseteq [id : Ids, tx : Txs, nth : Nat]

-----------------------------------------------------------------------------
(* The replay store. *)

Prune(s) == {e \in s : e.until > now}

Add(id, until) ==
    store' = {e \in Prune(store) : e.id # id}
               \cup {[id |-> id, until |-> until]}

Has(s, id) == \E e \in s : e.id = id

(* Mutant: an id that has been consumed stays in the store.                *)
ConsumeKeeps(id) == store' = Prune(store)

(* consume(): true when the id is there once the store has been pruned.    *)
Consume(id) == store' = {e \in Prune(store) : e.id # id}

-----------------------------------------------------------------------------
(* The chain (external) and the clock. *)

Tick ==
    /\ now < MaxNow
    /\ now' = now + 1
    /\ UNCHANGED <<store, calls, chain, issued, consumed, receipts, serverVars>>

(* broadcastAndConfirm(): in push mode the client broadcasts its           *)
(* transaction.                                                            *)
ClientSends(tx) ==
    /\ ~feePayer /\ chain[tx] = "none"
    /\ chain' = [chain EXCEPT ![tx] = "sent"]
    /\ UNCHANGED <<now, store, calls, issued, consumed, receipts, serverVars>>

(* A broadcast transaction is confirmed, fails, or is dropped.             *)
Land(tx) ==
    /\ chain[tx] = "sent"
    /\ \E st \in {"confirmed", "failed", "none"} :
          chain' = [chain EXCEPT ![tx] = st]
    /\ UNCHANGED <<now, store, calls, issued, consumed, receipts, serverVars>>

-----------------------------------------------------------------------------
(* The challenges handed out so far, an id once for each time.             *)
HandedOut == {p \in Ids \X (1..MaxIssued) : p[2] <= issued[p[1]]}

(* Mutant: the store is given seconds, not milliseconds.                   *)
IssueChallengeSeconds(price, hash) ==
    LET until == (now + Timeout) \div PerSecond
        id == [price |-> price, hash |-> hash, expires |-> until]
    IN  /\ Cardinality(HandedOut) < MaxIssued
        /\ Add(id, until)
        /\ issued' = [issued EXCEPT ![id] = @ + 1]
        /\ UNCHANGED <<now, calls, chain, consumed, receipts, serverVars>>

(* What both getChallenge() do: the id is determined by the price, the     *)
(* blockhash and the second it expires in; adding it again only moves its  *)
(* expiry.                                                                 *)
IssueChallenge(price, hash) ==
    LET until == now + Timeout
        id == [price |-> price, hash |-> hash,
               expires |-> until \div PerSecond]
    IN  /\ Cardinality(HandedOut) < MaxIssued
        /\ Add(id, until)
        /\ issued' = [issued EXCEPT ![id] = @ + 1]
        /\ UNCHANGED <<now, calls, chain, consumed, receipts, serverVars>>

GetChallenge(price, hash) ==
    price \notin NativePrices /\ IssueChallenge(price, hash)

NativeGetChallenge(price, hash) ==
    price \in NativePrices /\ IssueChallenge(price, hash)

-----------------------------------------------------------------------------
(* handleSettle(). *)

End(c) == calls' = [calls EXCEPT ![c] = NoCall]

Expired(id) == now > id.expires * PerSecond

(* Mutant: what a transaction pays is not compared with the challenge.     *)
VerifyAny(tx, id) == TRUE

VerifyChargeTransaction(tx, id) ==
    id.price \notin NativePrices /\ Pays[tx] = id.price

VerifyNativeChargeTransaction(tx, id) ==
    id.price \in NativePrices /\ Pays[tx] = id.price

(* What a handler verifies the transaction of its challenges with.         *)
Verify(tx, id) == VerifyChargeTransaction(tx, id)
                  \/ VerifyNativeChargeTransaction(tx, id)

(* A credential with a valid challenge id is presented.  An expired one is *)
(* refused before the store is touched, and an unknown one after it has    *)
(* been pruned.                                                            *)
Refuse(c, id) ==
    /\ calls[c].pc = "idle" /\ issued[id] > 0
    /\ ~Expired(id) /\ ~Has(Prune(store), id)
    /\ store' = Prune(store)
    /\ UNCHANGED <<now, calls, chain, issued, consumed, receipts, serverVars>>

(* What both handleSettle() do.  The challenge is consumed, for good: a    *)
(* malformed payload, one of the other mode and, in pull mode, a           *)
(* transaction that does not match are refused afterwards.                 *)
SettleChallenge(c, id, tx) ==
    /\ calls[c].pc = "idle" /\ issued[id] > 0
    /\ ~Expired(id) /\ Has(Prune(store), id)
    /\ Consume(id)
    /\ consumed' = [consumed EXCEPT ![id] = @ + 1]
    /\ \/ UNCHANGED calls
       \/ /\ feePayer => Verify(tx, id)
          /\ calls' = [calls EXCEPT ![c] =
                         [pc |-> IF feePayer THEN "simulating"
                                             ELSE "fetching",
                          id |-> id, nth |-> consumed[id] + 1, tx |-> tx,
                          tries |-> 0]]
    /\ UNCHANGED <<now, chain, issued, receipts, serverVars>>

HandleSettle(c, id, tx) ==
    id.price \notin NativePrices /\ SettleChallenge(c, id, tx)

NativeHandleSettle(c, id, tx) ==
    id.price \in NativePrices /\ SettleChallenge(c, id, tx)

Return(c) ==
    /\ receipts' = receipts \cup {[id |-> calls[c].id, tx |-> calls[c].tx,
                                   nth |-> calls[c].nth]}
    /\ End(c)

(* Mutant: one poll too many.                                              *)
TryOnceMore(c) ==
    IF calls[c].tries < MaxRetries
      THEN calls' = [calls EXCEPT ![c].tries = @ + 1]
      ELSE End(c)

(* Mutant: the loop starts over.                                           *)
TryAgainForever(c) ==
    calls' = [calls EXCEPT ![c].tries = (@ + 1) % MaxRetries]

(* A poll has found nothing: the next one, or the loop ends and with it    *)
(* the call.                                                               *)
TryAgain(c) ==
    IF calls[c].tries + 1 < MaxRetries
      THEN calls' = [calls EXCEPT ![c].tries = @ + 1]
      ELSE End(c)

(* A poll of fetchConfirmedTransaction(), and the verification after it.   *)
FetchConfirmedTransaction(c) ==
    LET tx == calls[c].tx
    IN  /\ calls[c].pc = "fetching"
        /\ \/ /\ chain[tx] \in {"none", "sent"}
              /\ TryAgain(c) /\ UNCHANGED receipts
           \/ /\ chain[tx] = "confirmed"
              /\ Verify(tx, calls[c].id) /\ Return(c)
           \/ /\ \/ chain[tx] = "failed"
                 \/ /\ chain[tx] = "confirmed"
                    /\ ~Verify(tx, calls[c].id)
              /\ End(c) /\ UNCHANGED receipts
        /\ UNCHANGED <<now, store, chain, issued, consumed, serverVars>>

(* sendTransaction(): the simulation refuses a transaction that has been   *)
(* executed, and may refuse any other.                                     *)
Simulate(c) ==
    /\ calls[c].pc = "simulating"
    /\ \/ /\ chain[calls[c].tx] \in {"none", "sent"}
          /\ calls' = [calls EXCEPT ![c].pc = "sending"]
       \/ End(c)
    /\ UNCHANGED <<now, store, chain, issued, consumed, receipts, serverVars>>

(* The broadcast; the RPC may throw with the transaction on its way.       *)
SendTransaction(c) ==
    LET tx == calls[c].tx
    IN  /\ calls[c].pc = "sending"
        /\ chain' = [chain EXCEPT ![tx] = IF @ = "none" THEN "sent" ELSE @]
        /\ calls' = [calls EXCEPT ![c].pc = "polling"] \/ End(c)
        /\ UNCHANGED <<now, store, issued, consumed, receipts, serverVars>>

(* Mutant: a status other than an error is taken for a confirmation.       *)
PollStatusHasty(c) ==
    /\ calls[c].pc = "polling"
    /\ \/ chain[calls[c].tx] # "failed" /\ Return(c)
       \/ chain[calls[c].tx] = "failed" /\ End(c) /\ UNCHANGED receipts
    /\ UNCHANGED <<now, store, chain, issued, consumed, serverVars>>

(* A poll of the signature's status.                                       *)
PollStatus(c) ==
    LET st == chain[calls[c].tx]
    IN  /\ calls[c].pc = "polling"
        /\ \/ st = "confirmed" /\ Return(c)
           \/ st = "failed" /\ End(c) /\ UNCHANGED receipts
           \/ st \in {"none", "sent"} /\ TryAgain(c) /\ UNCHANGED receipts
        /\ UNCHANGED <<now, store, chain, issued, consumed, serverVars>>

(* An RPC call throws.                                                     *)
RpcThrows(c) ==
    /\ calls[c].pc # "idle"
    /\ End(c)
    /\ UNCHANGED <<now, store, chain, issued, consumed, receipts, serverVars>>

(* The store is in memory; calls in progress die with the server.          *)
Restart ==
    /\ store' = {}
    /\ calls' = [c \in Calls |-> NoCall]
    /\ restarted' = TRUE
    /\ UNCHANGED <<feePayer, now, chain, issued, consumed, receipts>>

-----------------------------------------------------------------------------
Init ==
    /\ feePayer \in BOOLEAN /\ restarted = FALSE
    /\ now = 0
    /\ store = {}
    /\ calls = [c \in Calls |-> NoCall]
    /\ chain = [tx \in Txs |-> "none"]
    /\ issued = [id \in Ids |-> 0] /\ consumed = [id \in Ids |-> 0]
    /\ receipts = {}

Step(c) ==
    \/ FetchConfirmedTransaction(c)
    \/ Simulate(c)
    \/ SendTransaction(c)
    \/ PollStatus(c)
    \/ RpcThrows(c)

Next ==
    \/ Tick
    \/ \E tx \in Txs : ClientSends(tx) \/ Land(tx)
    \/ \E price \in Prices, hash \in Hashes :
          GetChallenge(price, hash) \/ NativeGetChallenge(price, hash)
    \/ \E c \in Calls, id \in Ids :
          \/ Refuse(c, id)
          \/ \E tx \in Txs : \/ HandleSettle(c, id, tx)
                             \/ NativeHandleSettle(c, id, tx)
    \/ \E c \in Calls : Step(c)
    \/ Restart

Spec == Init /\ [][Next]_vars

(* Every await of handleSettle() ends.                                     *)
FairSpec == Spec /\ \A c \in Calls : WF_vars(Step(c))

-----------------------------------------------------------------------------
(* Properties. *)

(* "marks it as used" (ReplayStore): an id is worth as many receipts as it *)
(* has been handed out, however handleSettle() calls, restarts and reissues*)
(* of an id within a second are interleaved: each consumption of an id     *)
(* leads to one receipt at most, and there is one for each getChallenge(). *)
OneReceiptPerChallenge ==
    /\ \A p, q \in receipts : p.id = q.id /\ p.nth = q.nth => p.tx = q.tx
    /\ \A p \in receipts : p.nth \in 1..issued[p.id]

(* handleSettle(): a receipt is returned only for a transaction that is    *)
(* confirmed on chain and pays what the challenge asked for, although the  *)
(* challenge is consumed, and in pull mode the transaction verified, before*)
(* anything is on chain.                                                   *)
ReceiptsArePaid ==
    \A p \in receipts : chain[p.tx] = "confirmed" /\ Pays[p.tx] = p.id.price

(* Pull mode: the server pays the fee of a transaction only if it settles  *)
(* a challenge that was consumed for it.                                   *)
SponsorsOnlyCharges ==
    feePayer => \A tx \in Txs :
       chain[tx] # "none" => \E id \in Ids : /\ consumed[id] > 0
                                            /\ Pays[tx] = id.price

(* Until the second a challenge says it expires in, the store, which counts*)
(* in milliseconds and is pruned by every other call, still has it unless  *)
(* it was consumed or the server was restarted.  At the very millisecond it*)
(* may not.                                                                *)
AcceptedUntilExpiry ==
    ~restarted => \A id \in Ids :
       issued[id] > 0 /\ consumed[id] = 0 /\ now < id.expires * PerSecond
          => Has(Prune(store), id)

(* The polls of the chain are bounded: every handleSettle() returns or     *)
(* throws.                                                                 *)
EveryCallEnds == \A c \in Calls : calls[c].pc # "idle" ~> calls[c].pc = "idle"
=============================================================================
