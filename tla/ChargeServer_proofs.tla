------------------------ MODULE ChargeServer_proofs ------------------------
(***************************************************************************)
(* Proofs about ChargeServer, for any prices, transactions, number of      *)
(* concurrent calls and timing.                                            *)
(***************************************************************************)
EXTENDS ChargeServer, TLAPS

(* Math.floor(expiresAt / 1000): what the division leaves.                 *)
LEMMA DivBounds ==
    ASSUME NEW x \in Nat, NEW n \in Nat \ {0}
    PROVE  x \div n \in Nat /\ (x \div n) * n <= x /\ x < (x \div n) * n + n
    BY Z3

(* Rounding down to seconds keeps the order of points in time.             *)
LEMMA DivMonotonic ==
    ASSUME NEW x \in Nat, NEW y \in Nat, NEW n \in Nat \ {0}, x <= y
    PROVE  x \div n <= y \div n
    BY DivBounds, SMTT(30)

(* The id getChallenge() makes of a price and a blockhash.                 *)
NewId(price, hash) == [price |-> price, hash |-> hash,
                       expires |-> (now + Timeout) \div PerSecond]

InUse(c) == calls[c].pc # "idle"

-----------------------------------------------------------------------------
(* Type correctness. *)

TInv == TypeOK /\ now <= MaxNow

(* A challenge made within the horizon is one of Ids.                      *)
LEMMA NewIdType ==
    ASSUME TInv, NEW price \in Prices, NEW hash \in Hashes
    PROVE  NewId(price, hash) \in Ids
<1>1. /\ now + Timeout \in Nat /\ MaxNow + Timeout \in Nat
      /\ now + Timeout <= MaxNow + Timeout /\ PerSecond \in Nat \ {0}
    BY ChargeConstants DEF TInv, TypeOK
<1>2. (now + Timeout) \div PerSecond <= (MaxNow + Timeout) \div PerSecond
    BY <1>1, DivMonotonic
<1>3. /\ (now + Timeout) \div PerSecond \in Nat
      /\ (MaxNow + Timeout) \div PerSecond \in Nat
    BY <1>1, DivBounds
<1>4. (now + Timeout) \div PerSecond \in 0..LastSecond
    BY <1>2, <1>3 DEF LastSecond
<1> QED BY <1>4 DEF NewId, Ids

(* A call in use has an id, a transaction and its counts.                  *)
LEMMA CallType ==
    ASSUME TypeOK, NEW c \in Calls, calls[c].pc # "idle"
    PROVE  /\ calls[c] \in [pc : {"fetching", "simulating", "sending",
                                  "polling"},
                            id : Ids, nth : Nat, tx : Txs,
                            tries : 0..(MaxRetries - 1)]
           /\ calls[c].id \in Ids /\ calls[c].nth \in Nat
           /\ calls[c].tx \in Txs /\ calls[c].tries \in 0..(MaxRetries - 1)
<1>1. calls[c] \in Call /\ calls[c] # NoCall
    BY DEF TypeOK, NoCall
<1> QED BY <1>1 DEF Call

(* Ending a call and polling again leave well-typed calls.                 *)
LEMMA EndType ==
    ASSUME TypeOK, NEW c \in Calls, End(c)
    PROVE  calls' \in [Calls -> Call]
    BY DEF TypeOK, End, Call

(* A poll that is tried again leaves the calls well typed.                 *)
LEMMA TryAgainType ==
    ASSUME TypeOK, NEW c \in Calls, calls[c].pc # "idle", TryAgain(c)
    PROVE  calls' \in [Calls -> Call]
<1>1. CASE calls[c].tries + 1 < MaxRetries
  <2>1. calls' = [calls EXCEPT ![c].tries = calls[c].tries + 1]
      BY <1>1 DEF TryAgain
  <2>2. calls[c].tries + 1 \in 0..(MaxRetries - 1)
      BY <1>1, CallType, ChargeConstants
  <2>3. [calls[c] EXCEPT !.tries = calls[c].tries + 1] \in Call
      BY <2>2, CallType DEF Call
  <2>4. calls' = [calls EXCEPT ![c] = [calls[c] EXCEPT
                                         !.tries = calls[c].tries + 1]]
      BY <2>1 DEF TypeOK
  <2> QED BY <2>3, <2>4 DEF TypeOK
<1>2. CASE ~(calls[c].tries + 1 < MaxRetries)
    BY <1>2, EndType DEF TryAgain
<1> QED BY <1>1, <1>2

(* A call that returns a receipt leaves calls and receipts well typed.     *)
LEMMA ReturnType ==
    ASSUME TypeOK, NEW c \in Calls, calls[c].pc # "idle", Return(c)
    PROVE  /\ calls' \in [Calls -> Call]
           /\ receipts' \subseteq [id : Ids, tx : Txs, nth : Nat]
<1>1. [id |-> calls[c].id, tx |-> calls[c].tx, nth |-> calls[c].nth]
         \in [id : Ids, tx : Txs, nth : Nat]
    BY CallType
<1>2. receipts' = receipts \cup {[id |-> calls[c].id, tx |-> calls[c].tx,
                                  nth |-> calls[c].nth]}
    BY DEF Return
<1>3. receipts \subseteq [id : Ids, tx : Txs, nth : Nat]
    BY DEF TypeOK
<1> QED BY <1>1, <1>2, <1>3, EndType DEF Return

(* The server starts well typed.                                           *)
LEMMA TypeInit == Init => TInv
<1>1. Init => ServerOK
    BY Zenon DEF Init, ServerOK
<1> QED BY <1>1, ChargeConstants DEF Init, TInv, TypeOK, Call

(* The configuration is fixed, and a restart is never forgotten.           *)
LEMMA ServerStep ==
    ASSUME ServerOK, [Next]_vars
    PROVE  /\ ServerOK' /\ feePayer' = feePayer
           /\ Restart \/ restarted' = restarted
<1>1. CASE UNCHANGED serverVars
    BY <1>1 DEF ServerOK, serverVars
<1>2. CASE Restart
    BY <1>2, Zenon DEF ServerOK, Restart
<1> QED BY <1>1, <1>2, Zenon
        DEF Next, GetChallenge, NativeGetChallenge, HandleSettle,
            NativeHandleSettle, vars, serverVars, Tick, ClientSends, Land, IssueChallenge,
            Refuse, SettleChallenge, Step, FetchConfirmedTransaction, Simulate,
            SendTransaction, PollStatus, RpcThrows

(* Every step of the server, its clients and the chain keeps types.        *)
LEMMA TypeStep == TInv /\ [Next]_vars => TInv'
<1> SUFFICES ASSUME TInv, [Next]_vars PROVE TInv'
    OBVIOUS
<1> USE DEF TInv
<1>0. ServerOK'
    BY ServerStep DEF TypeOK
<1> USE <1>0
<1>1. CASE Tick
    BY <1>1, ChargeConstants DEF Tick, TypeOK
<1>2. ASSUME NEW tx \in Txs, ClientSends(tx) PROVE TInv'
    BY <1>2 DEF ClientSends, TypeOK
<1>3. ASSUME NEW tx \in Txs, Land(tx) PROVE TInv'
    BY <1>3 DEF Land, TypeOK
<1>4. ASSUME NEW price \in Prices, NEW hash \in Hashes,
             IssueChallenge(price, hash)
      PROVE  TInv'
  <2>1. NewId(price, hash) \in Ids
      BY NewIdType
  <2>2. now + Timeout \in Nat
      BY ChargeConstants DEF TypeOK
  <2>3. store' \subseteq [id : Ids, until : Nat]
    <3>1. store' = {e \in Prune(store) : e.id # NewId(price, hash)}
                     \cup {[id |-> NewId(price, hash),
                            until |-> now + Timeout]}
        BY <1>4 DEF IssueChallenge, Add, NewId
    <3>2. [id |-> NewId(price, hash), until |-> now + Timeout]
             \in [id : Ids, until : Nat]
        BY <2>1, <2>2
    <3> QED BY <3>1, <3>2 DEF TypeOK, Prune
  <2>4. issued' \in [Ids -> Nat]
    <3>1. issued' = [issued EXCEPT ![NewId(price, hash)] =
                        issued[NewId(price, hash)] + 1]
        BY <1>4 DEF IssueChallenge, NewId
    <3> QED BY <2>1, <3>1 DEF TypeOK
  <2> QED BY <1>4, <2>3, <2>4 DEF IssueChallenge, TypeOK
<1>5. ASSUME NEW c \in Calls, NEW id \in Ids, Refuse(c, id) PROVE TInv'
    BY <1>5 DEF Refuse, Prune, TypeOK
<1>6. ASSUME NEW c \in Calls, NEW id \in Ids, NEW tx \in Txs,
             SettleChallenge(c, id, tx)
      PROVE  TInv'
  <2>1. store' \subseteq [id : Ids, until : Nat]
      BY <1>6 DEF SettleChallenge, Consume, Prune, TypeOK
  <2>2. consumed' \in [Ids -> Nat]
      BY <1>6 DEF SettleChallenge, TypeOK
  <2>3. calls' \in [Calls -> Call]
    <3>1. 0 \in 0..(MaxRetries - 1)
        BY ChargeConstants
    <3>2. consumed[id] + 1 \in Nat
        BY DEF TypeOK
    <3>3. [pc |-> IF feePayer THEN "simulating" ELSE "fetching", id |-> id,
           nth |-> consumed[id] + 1, tx |-> tx, tries |-> 0] \in Call
        BY <3>1, <3>2 DEF Call
    <3> QED BY <1>6, <3>3 DEF SettleChallenge, TypeOK
  <2> QED BY <1>6, <2>1, <2>2, <2>3 DEF SettleChallenge, TypeOK
<1>7. ASSUME NEW c \in Calls, FetchConfirmedTransaction(c) PROVE TInv'
  <2>1. calls[c].pc # "idle"
      BY <1>7 DEF FetchConfirmedTransaction
  <2>2. /\ calls' \in [Calls -> Call]
        /\ receipts' \subseteq [id : Ids, tx : Txs, nth : Nat]
      BY <1>7, <2>1, EndType, TryAgainType, ReturnType
      DEF FetchConfirmedTransaction, TypeOK
  <2> QED BY <1>7, <2>2 DEF FetchConfirmedTransaction, TypeOK
<1>8. ASSUME NEW c \in Calls, Simulate(c) PROVE TInv'
  <2>1. calls[c].pc # "idle"
      BY <1>8 DEF Simulate
  <2>2. [calls[c] EXCEPT !.pc = "sending"] \in Call
      BY <2>1, CallType DEF Call
  <2>3. calls' \in [Calls -> Call]
      BY <1>8, <2>2, EndType DEF Simulate, TypeOK
  <2> QED BY <1>8, <2>3 DEF Simulate, TypeOK
<1>9. ASSUME NEW c \in Calls, SendTransaction(c) PROVE TInv'
  <2>1. calls[c].pc # "idle"
      BY <1>9 DEF SendTransaction
  <2>2. [calls[c] EXCEPT !.pc = "polling"] \in Call
      BY <2>1, CallType DEF Call
  <2>3. calls' \in [Calls -> Call]
      BY <1>9, <2>2, EndType DEF SendTransaction, TypeOK
  <2>4. chain' \in [Txs -> {"none", "sent", "confirmed", "failed"}]
      BY <1>9, <2>1, CallType DEF SendTransaction, TypeOK
  <2> QED BY <1>9, <2>3, <2>4 DEF SendTransaction, TypeOK
<1>10. ASSUME NEW c \in Calls, PollStatus(c) PROVE TInv'
  <2>1. calls[c].pc # "idle"
      BY <1>10 DEF PollStatus
  <2>2. /\ calls' \in [Calls -> Call]
        /\ receipts' \subseteq [id : Ids, tx : Txs, nth : Nat]
      BY <1>10, <2>1, EndType, TryAgainType, ReturnType
      DEF PollStatus, TypeOK
  <2> QED BY <1>10, <2>2 DEF PollStatus, TypeOK
<1>11. ASSUME NEW c \in Calls, RpcThrows(c) PROVE TInv'
    BY <1>11, EndType DEF RpcThrows, TypeOK
<1>12. CASE Restart
    BY <1>12 DEF Restart, TypeOK, Call
<1>13. CASE UNCHANGED vars
    BY <1>13 DEF vars, TypeOK
<1> QED
    BY <1>1, <1>2, <1>3, <1>4, <1>5, <1>6, <1>7, <1>8, <1>9, <1>10, <1>11,
       <1>12, <1>13 DEF Next, GetChallenge, NativeGetChallenge, HandleSettle,
            NativeHandleSettle, Step

(* Each component of the charge server's state keeps its type.             *)
THEOREM ChargeTypeCorrect == Spec => []TypeOK
<1>1. TInv => TypeOK
    BY DEF TInv
<1> QED BY <1>1, TypeInit, TypeStep, PTL DEF Spec

-----------------------------------------------------------------------------
(* What a receipt is for.  The history counts how often an id was handed   *)
(* out and consumed; an entry of the store is one consumption to come.     *)

CountInv ==
    \A id \in Ids : /\ consumed[id] <= issued[id]
                    /\ Has(store, id) => consumed[id] < issued[id]

(* A call in use stands for one consumption of its id, which no other call *)
(* and no receipt stands for.                                              *)
UseInv ==
    \A c \in Calls : InUse(c) =>
       /\ 1 <= calls[c].nth /\ calls[c].nth <= consumed[calls[c].id]
       /\ \A d \in Calls : InUse(d) /\ d # c /\ calls[d].id = calls[c].id
                              => calls[d].nth # calls[c].nth
       /\ \A p \in receipts : p.id = calls[c].id => p.nth # calls[c].nth

ReceiptInv ==
    \A p \in receipts :
       /\ 1 <= p.nth /\ p.nth <= consumed[p.id]
       /\ \A q \in receipts : p.id = q.id /\ p.nth = q.nth => p.tx = q.tx

(* The transaction of a call past verifyChargeTransaction() pays the price,*)
(* and so does that of a receipt.                                          *)
Verified == {"simulating", "sending", "polling"}

PaidInv ==
    /\ \A c \in Calls : calls[c].pc \in Verified
                           => Pays[calls[c].tx] = calls[c].id.price
    /\ ReceiptsArePaid

ChargeInv == /\ TInv
             /\ CountInv /\ UseInv /\ ReceiptInv
             /\ PaidInv /\ SponsorsOnlyCharges

(* A step that only lets calls go on or end.                               *)
GoOnOrEnd ==
    /\ receipts' = receipts /\ consumed' = consumed
    /\ \A c \in Calls : InUse(c)' => /\ InUse(c)
                                     /\ calls'[c].id = calls[c].id
                                     /\ calls'[c].nth = calls[c].nth
                                     /\ calls'[c].tx = calls[c].tx
                                     /\ calls'[c].pc \in Verified
                                          => calls[c].pc \in Verified

(* A call that goes on, or ends without a receipt, leaves each consumption *)
(* to the one call that has it.                                            *)
LEMMA GoOnOrEndKeeps ==
    ASSUME UseInv, ReceiptInv, GoOnOrEnd
    PROVE  UseInv' /\ ReceiptInv'
    BY DEF UseInv, ReceiptInv, GoOnOrEnd, InUse

(* A call that goes on, or ends without a receipt, keeps what was verified *)
(* of its transaction.                                                     *)
LEMMA GoOnOrEndKeepsPaid ==
    ASSUME TypeOK, PaidInv, GoOnOrEnd,
           \A tx \in Txs : chain[tx] = "confirmed" => chain'[tx] = "confirmed"
    PROVE  PaidInv'
<1>1. ReceiptsArePaid'
    BY DEF PaidInv, ReceiptsArePaid, GoOnOrEnd, TypeOK
<1>2. ASSUME NEW c \in Calls, calls'[c].pc \in Verified
      PROVE  Pays[calls'[c].tx] = calls'[c].id.price
    BY <1>2 DEF PaidInv, GoOnOrEnd, InUse, Verified
<1> QED BY <1>1, <1>2 DEF PaidInv

(* Ending a call without a receipt is such a step.                         *)
LEMMA EndGoesOnOrEnds ==
    ASSUME TypeOK, NEW c \in Calls, End(c),
           receipts' = receipts, consumed' = consumed
    PROVE  GoOnOrEnd
    BY DEF TypeOK, End, NoCall, GoOnOrEnd, InUse

(* Polling once more is such a step.                                       *)
LEMMA TryAgainGoesOnOrEnds ==
    ASSUME TypeOK, NEW c \in Calls, InUse(c), TryAgain(c),
           receipts' = receipts, consumed' = consumed
    PROVE  GoOnOrEnd
<1>1. CASE calls[c].tries + 1 < MaxRetries
  <2>1. calls' = [calls EXCEPT ![c] = [calls[c] EXCEPT
                                         !.tries = calls[c].tries + 1]]
      BY <1>1 DEF TryAgain, TypeOK
  <2>2. calls[c] \in [pc : {"fetching", "simulating", "sending", "polling"},
                      id : Ids, nth : Nat, tx : Txs,
                      tries : 0..(MaxRetries - 1)]
      BY CallType DEF InUse
  <2>3. /\ calls'[c].id = calls[c].id /\ calls'[c].nth = calls[c].nth
        /\ calls'[c].tx = calls[c].tx /\ calls'[c].pc = calls[c].pc
      BY <2>1, <2>2 DEF TypeOK
  <2>4. \A d \in Calls : d # c => calls'[d] = calls[d]
      BY <2>1 DEF TypeOK
  <2> QED BY <2>3, <2>4 DEF GoOnOrEnd, InUse
<1>2. CASE ~(calls[c].tries + 1 < MaxRetries)
    BY <1>2, EndGoesOnOrEnds DEF TryAgain
<1> QED BY <1>1, <1>2

(* Return(): the call's consumption becomes the receipt's.                 *)
LEMMA ReturnKeeps ==
    ASSUME TypeOK, UseInv, ReceiptInv, NEW c \in Calls, InUse(c), Return(c),
           consumed' = consumed
    PROVE  UseInv' /\ ReceiptInv'
<1> DEFINE p == [id |-> calls[c].id, tx |-> calls[c].tx, nth |-> calls[c].nth]
<1>1. receipts' = receipts \cup {p}
    BY DEF Return
<1>2. /\ \A d \in Calls : InUse(d)' => d # c /\ InUse(d)
      /\ \A d \in Calls : d # c => calls'[d] = calls[d]
    BY DEF Return, End, NoCall, InUse, TypeOK
<1>3. /\ p.id = calls[c].id /\ p.nth = calls[c].nth
      /\ 1 <= p.nth /\ p.nth <= consumed[p.id]
      /\ \A q \in receipts : p.id = q.id => p.nth # q.nth
    BY DEF UseInv
<1>4. ReceiptInv'
    BY <1>1, <1>3 DEF ReceiptInv
<1>5. ASSUME NEW d \in Calls, InUse(d)', NEW q \in receipts',
             q.id = calls'[d].id
      PROVE  q.nth # calls'[d].nth
  <2>1. d # c /\ InUse(d) /\ calls'[d] = calls[d]
      BY <1>2, <1>5
  <2>2. CASE q \in receipts
      BY <2>1, <2>2, <1>5 DEF UseInv
  <2>3. CASE q = p
      BY <2>1, <2>3, <1>3, <1>5 DEF UseInv
  <2> QED BY <1>1, <2>2, <2>3
<1>6. ASSUME NEW d \in Calls, InUse(d)'
      PROVE  /\ 1 <= calls'[d].nth /\ calls'[d].nth <= consumed'[calls'[d].id]
             /\ \A e \in Calls : InUse(e)' /\ e # d
                                 /\ calls'[e].id = calls'[d].id
                                   => calls'[e].nth # calls'[d].nth
    BY <1>2, <1>6 DEF UseInv
<1>7. UseInv'
    BY <1>5, <1>6 DEF UseInv, InUse
<1> QED BY <1>4, <1>7

(* A receipt for a confirmed transaction that pays the price is a receipt  *)
(* that is paid.                                                           *)
LEMMA ReturnKeepsPaid ==
    ASSUME TypeOK, PaidInv, NEW c \in Calls, InUse(c), Return(c),
           chain' = chain, chain[calls[c].tx] = "confirmed",
           Pays[calls[c].tx] = calls[c].id.price
    PROVE  PaidInv'
<1>1. ReceiptsArePaid'
    BY DEF PaidInv, ReceiptsArePaid, Return
<1>2. ASSUME NEW d \in Calls, calls'[d].pc \in Verified
      PROVE  Pays[calls'[d].tx] = calls'[d].id.price
  <2>1. d # c /\ calls'[d] = calls[d]
      BY <1>2 DEF Return, End, NoCall, Verified, TypeOK
  <2> QED BY <1>2, <2>1 DEF PaidInv
<1> QED BY <1>1, <1>2 DEF PaidInv

(* A step of a call that leaves the counts and the store alone.            *)
LEMMA QuietStep ==
    ASSUME ChargeInv, TypeOK, GoOnOrEnd, feePayer' = feePayer,
           issued' = issued, store' = store, chain' = chain
    PROVE  /\ CountInv' /\ UseInv' /\ ReceiptInv'
           /\ PaidInv' /\ SponsorsOnlyCharges'
<1>1. UseInv' /\ ReceiptInv'
    BY GoOnOrEndKeeps DEF ChargeInv
<1>2. PaidInv'
    BY GoOnOrEndKeepsPaid DEF ChargeInv
<1>3. CountInv'
    BY DEF ChargeInv, CountInv, GoOnOrEnd
<1>4. SponsorsOnlyCharges'
    BY DEF ChargeInv, SponsorsOnlyCharges, GoOnOrEnd
<1> QED BY <1>1, <1>2, <1>3, <1>4

(* A call that returns a receipt for a confirmed transaction.              *)
LEMMA ReturnStep ==
    ASSUME ChargeInv, TypeOK, NEW c \in Calls, InUse(c), Return(c),
           issued' = issued, store' = store, chain' = chain,
           feePayer' = feePayer,
           consumed' = consumed, chain[calls[c].tx] = "confirmed",
           Pays[calls[c].tx] = calls[c].id.price
    PROVE  /\ CountInv' /\ UseInv' /\ ReceiptInv'
           /\ PaidInv' /\ SponsorsOnlyCharges'
<1>1. UseInv' /\ ReceiptInv'
    BY ReturnKeeps DEF ChargeInv
<1>2. PaidInv'
    BY ReturnKeepsPaid DEF ChargeInv
<1>3. CountInv' /\ SponsorsOnlyCharges'
    BY DEF ChargeInv, CountInv, SponsorsOnlyCharges
<1> QED BY <1>1, <1>2, <1>3

(* consume(): the entry of the store becomes the consumption of a call.    *)
LEMMA SettleStep ==
    ASSUME ChargeInv, TypeOK, NEW c \in Calls, NEW id \in Ids, NEW tx \in Txs,
           SettleChallenge(c, id, tx), feePayer' = feePayer
    PROVE  /\ CountInv' /\ UseInv' /\ ReceiptInv'
           /\ PaidInv' /\ SponsorsOnlyCharges'
<1> DEFINE new == [pc |-> IF feePayer THEN "simulating" ELSE "fetching",
                   id |-> id, nth |-> consumed[id] + 1, tx |-> tx,
                   tries |-> 0]
<1>1. /\ consumed' = [consumed EXCEPT ![id] = consumed[id] + 1]
      /\ consumed \in [Ids -> Nat] /\ issued \in [Ids -> Nat]
      /\ receipts' = receipts /\ issued' = issued /\ chain' = chain
      /\ ~InUse(c)
    BY DEF SettleChallenge, TypeOK, InUse
<1>2. \A i \in Ids : consumed[i] <= consumed'[i]
    BY <1>1
<1>3. CountInv'
  <2>1. consumed[id] < issued[id]
      BY DEF SettleChallenge, Has, Prune, ChargeInv, CountInv
  <2>2. \A i \in Ids : Has(store', i) => i # id /\ Has(store, i)
      BY DEF SettleChallenge, Consume, Has, Prune
  <2> QED BY <1>1, <2>1, <2>2 DEF ChargeInv, CountInv
<1>4. CASE calls' = calls
  <2>1. UseInv'
    <3>1. ASSUME NEW d \in Calls, InUse(d)
          PROVE  calls[d].nth <= consumed'[calls[d].id]
      <4>1. calls[d].id \in Ids /\ calls[d].nth \in Nat
          BY <3>1, CallType DEF InUse
      <4> QED BY <1>1, <3>1, <4>1 DEF ChargeInv, UseInv
    <3> QED BY <1>1, <1>4, <3>1 DEF ChargeInv, UseInv, InUse
  <2>2. ReceiptInv'
    <3>1. ASSUME NEW p \in receipts PROVE p.nth <= consumed'[p.id]
      <4>1. p.id \in Ids /\ p.nth \in Nat
          BY DEF TypeOK
      <4> QED BY <1>1, <4>1 DEF ChargeInv, ReceiptInv
    <3> QED BY <1>1, <3>1 DEF ChargeInv, ReceiptInv
  <2>3. PaidInv'
      BY <1>1, <1>4 DEF ChargeInv, PaidInv, ReceiptsArePaid
  <2>4. SponsorsOnlyCharges'
      BY <1>1 DEF ChargeInv, SponsorsOnlyCharges
  <2> QED BY <1>3, <2>1, <2>2, <2>3, <2>4
<1>5. CASE /\ feePayer => Verify(tx, id)
           /\ calls' = [calls EXCEPT ![c] = new]
  <2>1. /\ calls'[c] = new
        /\ \A d \in Calls : d # c => calls'[d] = calls[d]
      BY <1>5 DEF TypeOK
  <2>2. /\ calls'[c].id = id /\ calls'[c].nth = consumed[id] + 1
        /\ calls'[c].tx = tx
        /\ calls'[c].pc = IF feePayer THEN "simulating" ELSE "fetching"
      BY <2>1
  <2>3. ReceiptInv'
    <3>1. ASSUME NEW p \in receipts PROVE p.nth <= consumed'[p.id]
      <4>1. p.id \in Ids /\ p.nth \in Nat
          BY DEF TypeOK
      <4> QED BY <1>1, <4>1 DEF ChargeInv, ReceiptInv
    <3> QED BY <1>1, <3>1 DEF ChargeInv, ReceiptInv
  <2>4. ASSUME NEW p \in receipts, p.id = id PROVE p.nth # consumed[id] + 1
    <3>1. p.nth \in Nat /\ p.nth <= consumed[id]
        BY <2>4 DEF TypeOK, ChargeInv, ReceiptInv
    <3> QED BY <1>1, <3>1
  <2>5. ASSUME NEW d \in Calls, InUse(d), d # c
        PROVE  /\ calls[d].id \in Ids /\ calls[d].nth \in Nat
               /\ calls[d].nth <= consumed[calls[d].id]
               /\ calls[d].nth <= consumed'[calls[d].id]
    <3>1. calls[d].id \in Ids /\ calls[d].nth \in Nat
        BY <2>5, CallType DEF InUse
    <3> QED BY <1>1, <2>5, <3>1 DEF ChargeInv, UseInv
  <2>6. ASSUME NEW d \in Calls, InUse(d), d # c, calls[d].id = id
        PROVE  calls[d].nth # consumed[id] + 1
      BY <1>1, <2>5, <2>6
  <2>7. /\ 1 <= calls'[c].nth /\ calls'[c].nth <= consumed'[calls'[c].id]
        /\ \A p \in receipts' : p.id = calls'[c].id => p.nth # calls'[c].nth
        /\ \A d \in Calls : InUse(d)' /\ d # c /\ calls'[d].id = calls'[c].id
                               => calls'[d].nth # calls'[c].nth
      BY <1>1, <2>1, <2>2, <2>4, <2>6 DEF InUse
  <2>8. ASSUME NEW d \in Calls, InUse(d)', d # c
        PROVE  /\ 1 <= calls'[d].nth
               /\ calls'[d].nth <= consumed'[calls'[d].id]
               /\ \A p \in receipts' : p.id = calls'[d].id
                                          => p.nth # calls'[d].nth
               /\ \A e \in Calls : InUse(e)' /\ e # d
                                   /\ calls'[e].id = calls'[d].id
                                      => calls'[e].nth # calls'[d].nth
    <3>1. InUse(d) /\ calls'[d] = calls[d]
        BY <2>1, <2>8 DEF InUse
    <3>2. \A e \in Calls : e # c /\ InUse(e)' => InUse(e)
        BY <2>1 DEF InUse
    <3>3. \A p \in receipts : p.id = calls[d].id => p.nth # calls[d].nth
        BY <3>1 DEF ChargeInv, UseInv
    <3>4. ASSUME NEW e \in Calls, InUse(e)', e # d,
                 calls'[e].id = calls'[d].id
          PROVE  calls'[e].nth # calls'[d].nth
      <4>1. CASE e = c
          BY <4>1, <2>7, <2>8, <3>4
      <4>2. CASE e # c
          BY <4>2, <2>1, <3>1, <3>2, <3>4 DEF ChargeInv, UseInv
      <4> QED BY <4>1, <4>2
    <3>5. 1 <= calls[d].nth
        BY <3>1 DEF ChargeInv, UseInv
    <3> QED BY <1>1, <2>5, <2>8, <3>1, <3>3, <3>4, <3>5
  <2>9. UseInv'
      BY <2>7, <2>8 DEF UseInv, InUse
  <2>10. PaidInv'
    <3>1. ReceiptsArePaid'
        BY <1>1 DEF ChargeInv, PaidInv, ReceiptsArePaid
    <3>2. ASSUME NEW d \in Calls, calls'[d].pc \in Verified
          PROVE  Pays[calls'[d].tx] = calls'[d].id.price
        BY <1>5, <2>1, <2>2, <3>2
        DEF ChargeInv, PaidInv, Verified, Verify, VerifyChargeTransaction,
            VerifyNativeChargeTransaction
    <3> QED BY <3>1, <3>2 DEF PaidInv
  <2>11. SponsorsOnlyCharges'
      BY <1>1 DEF ChargeInv, SponsorsOnlyCharges
  <2> QED BY <1>3, <2>3, <2>9, <2>10, <2>11
<1> QED BY <1>4, <1>5 DEF SettleChallenge

(* The invariant holds when the server starts.                             *)
LEMMA ChargeStart == Init => ChargeInv
<1> SUFFICES ASSUME Init PROVE ChargeInv
    OBVIOUS
<1>1. TInv
    BY TypeInit
<1> QED
    BY <1>1 DEF Init, ChargeInv, CountInv, Has, UseInv, InUse, NoCall,
                ReceiptInv, PaidInv, Verified, ReceiptsArePaid,
                SponsorsOnlyCharges

(* Every step keeps the invariant: one case for each action.               *)
LEMMA ChargeStep == ChargeInv /\ [Next]_vars => ChargeInv'
<1> SUFFICES ASSUME ChargeInv, [Next]_vars PROVE ChargeInv'
    OBVIOUS
<1>0. TInv' /\ TypeOK /\ feePayer' = feePayer
    BY TypeStep, ServerStep DEF ChargeInv, TInv, TypeOK
<1> DEFINE Rest == /\ CountInv' /\ UseInv' /\ ReceiptInv'
                   /\ PaidInv' /\ SponsorsOnlyCharges'
<1> SUFFICES Rest
    BY <1>0 DEF ChargeInv
<1> USE <1>0
<1>1. CASE Tick \/ UNCHANGED vars
    BY <1>1, QuietStep DEF Tick, vars, GoOnOrEnd, InUse
<1>2. ASSUME NEW tx \in Txs, ClientSends(tx) PROVE Rest
  <2>1. GoOnOrEnd
      BY <1>2 DEF ClientSends, GoOnOrEnd, InUse
  <2>2. \A t \in Txs : chain[t] = "confirmed" => chain'[t] = "confirmed"
      BY <1>2 DEF ClientSends, TypeOK
  <2>3. UseInv' /\ ReceiptInv' /\ PaidInv'
      BY <2>1, <2>2, GoOnOrEndKeeps, GoOnOrEndKeepsPaid DEF ChargeInv
  <2> QED BY <1>2, <2>3
          DEF ClientSends, ChargeInv, CountInv, SponsorsOnlyCharges
<1>3. ASSUME NEW tx \in Txs, Land(tx) PROVE Rest
  <2>1. GoOnOrEnd
      BY <1>3 DEF Land, GoOnOrEnd, InUse
  <2>2. \A t \in Txs : chain[t] = "confirmed" => chain'[t] = "confirmed"
      BY <1>3 DEF Land, TypeOK
  <2>3. UseInv' /\ ReceiptInv' /\ PaidInv'
      BY <2>1, <2>2, GoOnOrEndKeeps, GoOnOrEndKeepsPaid DEF ChargeInv
  <2>4. \A t \in Txs : chain'[t] # "none" => chain[t] # "none"
      BY <1>3 DEF Land, TypeOK
  <2> QED BY <1>3, <2>3, <2>4
          DEF Land, ChargeInv, CountInv, SponsorsOnlyCharges
<1>4. ASSUME NEW price \in Prices, NEW hash \in Hashes,
             IssueChallenge(price, hash)
      PROVE  Rest
  <2>1. GoOnOrEnd
      BY <1>4 DEF IssueChallenge, GoOnOrEnd, InUse
  <2>2. UseInv' /\ ReceiptInv' /\ PaidInv'
      BY <1>4, <2>1, GoOnOrEndKeeps, GoOnOrEndKeepsPaid
      DEF ChargeInv, IssueChallenge
  <2>3. CountInv'
    <3>1. NewId(price, hash) \in Ids
        BY NewIdType DEF ChargeInv
    <3>2. /\ issued' = [issued EXCEPT ![NewId(price, hash)] =
                           issued[NewId(price, hash)] + 1]
          /\ consumed' = consumed
          /\ issued \in [Ids -> Nat] /\ consumed \in [Ids -> Nat]
        BY <1>4 DEF IssueChallenge, NewId, TypeOK
    <3>3. \A id \in Ids : Has(store', id) /\ id # NewId(price, hash)
                             => Has(store, id)
        BY <1>4 DEF IssueChallenge, Add, Prune, Has, NewId
    <3> QED BY <3>1, <3>2, <3>3 DEF ChargeInv, CountInv
  <2>4. SponsorsOnlyCharges'
      BY <1>4 DEF IssueChallenge, ChargeInv, SponsorsOnlyCharges
  <2> QED BY <2>2, <2>3, <2>4
<1>5. ASSUME NEW c \in Calls, NEW id \in Ids, Refuse(c, id) PROVE Rest
  <2>1. GoOnOrEnd
      BY <1>5 DEF Refuse, GoOnOrEnd, InUse
  <2>2. UseInv' /\ ReceiptInv' /\ PaidInv'
      BY <1>5, <2>1, GoOnOrEndKeeps, GoOnOrEndKeepsPaid DEF ChargeInv, Refuse
  <2>3. CountInv' /\ SponsorsOnlyCharges'
      BY <1>5 DEF Refuse, ChargeInv, CountInv, Prune, Has, SponsorsOnlyCharges
  <2> QED BY <2>2, <2>3
<1>6. ASSUME NEW c \in Calls, NEW id \in Ids, NEW tx \in Txs,
             SettleChallenge(c, id, tx)
      PROVE  Rest
    BY <1>6, SettleStep
<1>7. ASSUME NEW c \in Calls, FetchConfirmedTransaction(c) PROVE Rest
  <2>1. /\ InUse(c) /\ issued' = issued /\ store' = store /\ chain' = chain
        /\ consumed' = consumed
      BY <1>7 DEF FetchConfirmedTransaction, InUse
  <2>2. CASE TryAgain(c) /\ UNCHANGED receipts
      BY <2>1, <2>2, TryAgainGoesOnOrEnds, QuietStep
  <2>3. CASE End(c) /\ UNCHANGED receipts
      BY <2>1, <2>3, EndGoesOnOrEnds, QuietStep
  <2>4. CASE /\ chain[calls[c].tx] = "confirmed" /\ Return(c)
             /\ Verify(calls[c].tx, calls[c].id)
      BY <2>1, <2>4, ReturnStep DEF Verify, VerifyChargeTransaction,
            VerifyNativeChargeTransaction
  <2> QED BY <1>7, <2>2, <2>3, <2>4 DEF FetchConfirmedTransaction
<1>8. ASSUME NEW c \in Calls, Simulate(c) PROVE Rest
  <2>1. CASE calls' = [calls EXCEPT ![c].pc = "sending"]
    <3>1. calls[c].pc = "simulating"
        BY <1>8 DEF Simulate
    <3>2. calls[c] \in [pc : {"fetching", "simulating", "sending", "polling"},
                        id : Ids, nth : Nat, tx : Txs,
                        tries : 0..(MaxRetries - 1)]
        BY <3>1, CallType
    <3>3. calls'[c] = [calls[c] EXCEPT !.pc = "sending"]
        BY <2>1 DEF TypeOK
    <3>4. /\ calls'[c].id = calls[c].id /\ calls'[c].nth = calls[c].nth
          /\ calls'[c].tx = calls[c].tx /\ calls'[c].pc = "sending"
        BY <3>2, <3>3
    <3>5. \A d \in Calls : d # c => calls'[d] = calls[d]
        BY <2>1 DEF TypeOK
    <3>6. GoOnOrEnd
        BY <1>8, <3>1, <3>4, <3>5 DEF Simulate, GoOnOrEnd, InUse, Verified
    <3> QED BY <1>8, <3>6, QuietStep DEF Simulate
  <2>2. CASE End(c)
      BY <1>8, <2>2, EndGoesOnOrEnds, QuietStep DEF Simulate
  <2> QED BY <1>8, <2>1, <2>2 DEF Simulate
<1>9. ASSUME NEW c \in Calls, SendTransaction(c) PROVE Rest
  <2>1. calls[c].pc = "sending"
      BY <1>9 DEF SendTransaction
  <2>2. calls[c] \in [pc : {"fetching", "simulating", "sending", "polling"},
                      id : Ids, nth : Nat, tx : Txs,
                      tries : 0..(MaxRetries - 1)]
      BY <2>1, CallType
  <2>3. GoOnOrEnd
    <3>1. CASE calls' = [calls EXCEPT ![c].pc = "polling"]
      <4>1. calls'[c] = [calls[c] EXCEPT !.pc = "polling"]
          BY <3>1 DEF TypeOK
      <4>2. /\ calls'[c].id = calls[c].id /\ calls'[c].nth = calls[c].nth
            /\ calls'[c].tx = calls[c].tx /\ calls'[c].pc = "polling"
          BY <2>2, <4>1
      <4>3. \A d \in Calls : d # c => calls'[d] = calls[d]
          BY <3>1 DEF TypeOK
      <4> QED BY <1>9, <2>1, <4>2, <4>3
              DEF SendTransaction, GoOnOrEnd, InUse, Verified
    <3>2. CASE End(c)
        BY <1>9, <3>2, EndGoesOnOrEnds DEF SendTransaction
    <3> QED BY <1>9, <3>1, <3>2 DEF SendTransaction
  <2>4. /\ \A t \in Txs : chain[t] = "confirmed" => chain'[t] = "confirmed"
        /\ \A t \in Txs : t # calls[c].tx => chain'[t] = chain[t]
      BY <1>9, <2>2 DEF SendTransaction, TypeOK
  <2>5. UseInv' /\ ReceiptInv' /\ PaidInv'
      BY <2>3, <2>4, GoOnOrEndKeeps, GoOnOrEndKeepsPaid DEF ChargeInv
  <2>6. CountInv'
      BY <1>9 DEF SendTransaction, ChargeInv, CountInv
  <2>7. Pays[calls[c].tx] = calls[c].id.price
      BY <2>1 DEF ChargeInv, PaidInv, Verified
  <2>8. calls[c].id \in Ids /\ consumed[calls[c].id] > 0
    <3>1. /\ 1 <= calls[c].nth /\ calls[c].nth <= consumed[calls[c].id]
        BY <2>1 DEF ChargeInv, UseInv, InUse
    <3>2. /\ calls[c].id \in Ids /\ calls[c].nth \in Nat
          /\ consumed[calls[c].id] \in Nat
        BY <2>2 DEF TypeOK
    <3> QED BY <3>1, <3>2
  <2>9. SponsorsOnlyCharges'
    <3> SUFFICES ASSUME feePayer', NEW t \in Txs, chain'[t] # "none"
                 PROVE  \E id \in Ids : /\ consumed'[id] > 0
                                        /\ Pays[t] = id.price
        BY DEF SponsorsOnlyCharges
    <3>1. consumed' = consumed /\ feePayer' = feePayer
        BY <1>9 DEF SendTransaction, serverVars
    <3>2. CASE t = calls[c].tx
        BY <2>7, <2>8, <3>1, <3>2
    <3>3. CASE t # calls[c].tx
        BY <2>4, <3>1, <3>3 DEF ChargeInv, SponsorsOnlyCharges
    <3> QED BY <3>2, <3>3
  <2> QED BY <2>5, <2>6, <2>9
<1>10. ASSUME NEW c \in Calls, PollStatus(c) PROVE Rest
  <2>1. /\ InUse(c) /\ issued' = issued /\ store' = store /\ chain' = chain
        /\ consumed' = consumed
      BY <1>10 DEF PollStatus, InUse
  <2>2. CASE TryAgain(c) /\ UNCHANGED receipts
      BY <2>1, <2>2, TryAgainGoesOnOrEnds, QuietStep
  <2>3. CASE End(c) /\ UNCHANGED receipts
      BY <2>1, <2>3, EndGoesOnOrEnds, QuietStep
  <2>4. CASE chain[calls[c].tx] = "confirmed" /\ Return(c)
    <3>1. Pays[calls[c].tx] = calls[c].id.price
        BY <1>10 DEF PollStatus, ChargeInv, PaidInv, Verified
    <3> QED BY <2>1, <2>4, <3>1, ReturnStep
  <2> QED BY <1>10, <2>2, <2>3, <2>4 DEF PollStatus
<1>11. ASSUME NEW c \in Calls, RpcThrows(c) PROVE Rest
    BY <1>11, EndGoesOnOrEnds, QuietStep DEF RpcThrows
<1>12. CASE Restart
  <2>1. GoOnOrEnd
      BY <1>12 DEF Restart, GoOnOrEnd, InUse, NoCall
  <2>2. UseInv' /\ ReceiptInv' /\ PaidInv'
      BY <1>12, <2>1, GoOnOrEndKeeps, GoOnOrEndKeepsPaid
      DEF ChargeInv, Restart
  <2>3. CountInv' /\ SponsorsOnlyCharges'
      BY <1>12 DEF Restart, ChargeInv, CountInv, Has, SponsorsOnlyCharges
  <2> QED BY <2>2, <2>3
<1> HIDE DEF Rest
<1> QED
    BY <1>1, <1>2, <1>3, <1>4, <1>5, <1>6, <1>7, <1>8, <1>9, <1>10, <1>11,
       <1>12 DEF Next, GetChallenge, NativeGetChallenge, HandleSettle,
            NativeHandleSettle, Step

(* "marks it as used" (ReplayStore): every receipt belongs to a            *)
(* consumption of its own, and an id is not consumed more often than       *)
(* getChallenge() has handed it out, whatever calls run at the same time.  *)
THEOREM ReceiptsAreForChallenges == Spec => []OneReceiptPerChallenge
<1>1. ChargeInv => OneReceiptPerChallenge
  <2> SUFFICES ASSUME ChargeInv, NEW p \in receipts
               PROVE  /\ p.nth \in 1..issued[p.id]
                      /\ \A q \in receipts : p.id = q.id /\ p.nth = q.nth
                                                => p.tx = q.tx
      BY DEF OneReceiptPerChallenge
  <2>1. p.nth \in Nat /\ p.id \in Ids
      BY DEF ChargeInv, TInv, TypeOK
  <2>2. /\ consumed[p.id] \in Nat /\ issued[p.id] \in Nat
        /\ consumed[p.id] <= issued[p.id]
      BY <2>1 DEF ChargeInv, TInv, TypeOK, CountInv
  <2> QED BY <2>1, <2>2 DEF ChargeInv, ReceiptInv
<1> QED BY <1>1, ChargeStart, ChargeStep, PTL DEF Spec

(* handleSettle() returns a receipt only for a confirmed transaction that  *)
(* pays the price of the challenge.                                        *)
THEOREM ReceiptsPaid == Spec => []ReceiptsArePaid
<1>1. ChargeInv => ReceiptsArePaid
    BY DEF ChargeInv, PaidInv
<1> QED BY <1>1, ChargeStart, ChargeStep, PTL DEF Spec

(* In pull mode the server signs and broadcasts only transactions that pay *)
(* for a challenge it has consumed.                                        *)
THEOREM SponsorsCharges == Spec => []SponsorsOnlyCharges
<1>1. ChargeInv => SponsorsOnlyCharges
    BY DEF ChargeInv
<1> QED BY <1>1, ChargeStart, ChargeStep, PTL DEF Spec

-----------------------------------------------------------------------------
(* How long a challenge is good for, in a server that is not restarted.    *)

(* A challenge that was never consumed is in the store with an expiry no   *)
(* earlier than the second it states, until that second.                   *)
KeptInv ==
    ~restarted => \A id \in Ids :
       issued[id] > 0 /\ consumed[id] = 0 /\ now < id.expires * PerSecond
          => \E e \in store : e.id = id /\ id.expires * PerSecond <= e.until

(* The store starts empty, and no id has been handed out.                  *)
LEMMA KeptStart == Init => KeptInv
    BY DEF Init, KeptInv

(* No step removes an unused challenge before the second it expires in.    *)
LEMMA KeptStep ==
    ASSUME TInv, TInv', KeptInv, [Next]_vars
    PROVE  KeptInv'
<1> SUFFICES ASSUME ~restarted', NEW id \in Ids, issued'[id] > 0, consumed'[id] = 0,
                    now' < id.expires * PerSecond
             PROVE  \E e \in store' : /\ e.id = id
                                      /\ id.expires * PerSecond <= e.until
    BY DEF KeptInv
<1>a. ~restarted /\ ~Restart
  <2>1. ~Restart
      BY DEF Restart
  <2> QED BY <2>1, ServerStep DEF TInv, TypeOK
<1>0. /\ issued[id] \in Nat /\ consumed[id] \in Nat /\ now \in Nat
      /\ id.expires \in Nat /\ PerSecond \in Nat \ {0}
      /\ id.expires * PerSecond \in Nat /\ TypeOK
  <2>1. LastSecond \in Nat
      BY DivBounds, ChargeConstants DEF LastSecond
  <2>2. id.expires \in Nat
      BY <2>1 DEF Ids
  <2>3. id.expires * PerSecond \in Nat
      BY <2>2, ChargeConstants
  <2> QED BY <2>2, <2>3, ChargeConstants DEF TInv, TypeOK
<1>1. now <= now'
  <2>1. CASE Tick
      BY <1>0, <2>1 DEF Tick
  <2>2. CASE now' = now
      BY <1>0, <2>2
  <2> QED BY <2>1, <2>2 DEF Next, GetChallenge, NativeGetChallenge, HandleSettle,
            NativeHandleSettle, vars, ClientSends, Land, IssueChallenge,
             Refuse, SettleChallenge, Step, FetchConfirmedTransaction, Simulate,
             SendTransaction, PollStatus, RpcThrows, Restart
<1>2. now < id.expires * PerSecond
    BY <1>0, <1>1 DEF TInv, TypeOK
<1>3. CASE \E price \in Prices, hash \in Hashes :
              IssueChallenge(price, hash) /\ NewId(price, hash) = id
  <2>1. PICK price \in Prices, hash \in Hashes :
               IssueChallenge(price, hash) /\ NewId(price, hash) = id
      BY <1>3
  <2>2. [id |-> id, until |-> now + Timeout] \in store'
      BY <2>1 DEF IssueChallenge, Add, NewId
  <2>3. id.expires = (now + Timeout) \div PerSecond
      BY <2>1 DEF NewId
  <2>4. id.expires * PerSecond <= now + Timeout
      BY <1>0, <2>3, DivBounds, ChargeConstants
  <2> QED BY <2>2, <2>4
<1>4. CASE ~\E price \in Prices, hash \in Hashes :
              IssueChallenge(price, hash) /\ NewId(price, hash) = id
  <2>1. issued[id] > 0
      BY <1>0, <1>4 DEF Next, GetChallenge, NativeGetChallenge, HandleSettle,
            NativeHandleSettle, vars, Tick, ClientSends, Land, IssueChallenge,
                NewId, Refuse,
                SettleChallenge, Step, FetchConfirmedTransaction, Simulate,
                SendTransaction, PollStatus, RpcThrows, Restart, TypeOK
  <2>2. consumed[id] = 0
    <3>1. CASE \E c \in Calls, i \in Ids, tx \in Txs : SettleChallenge(c, i, tx)
        BY <1>0, <3>1 DEF SettleChallenge, TypeOK
    <3>2. CASE consumed' = consumed
        BY <3>2
    <3> QED BY <3>1, <3>2 DEF Next, GetChallenge, NativeGetChallenge, HandleSettle,
            NativeHandleSettle, vars, Tick, ClientSends, Land,
                IssueChallenge, Refuse, Step, FetchConfirmedTransaction,
                Simulate, SendTransaction, PollStatus, RpcThrows, Restart
  <2>3. PICK e \in store : e.id = id /\ id.expires * PerSecond <= e.until
      BY <1>2, <1>a, <2>1, <2>2 DEF KeptInv
  <2>4. e.until > now
      BY <1>0, <1>2, <2>3 DEF TypeOK
  <2>5. e \in Prune(store)
      BY <2>4 DEF Prune
  <2>6. e \in store'
    <3>1. ASSUME NEW c \in Calls, NEW i \in Ids, NEW tx \in Txs,
                 SettleChallenge(c, i, tx)
          PROVE  e \in store'
      <4>1. i # id
          BY <1>0, <3>1 DEF SettleChallenge, TypeOK
      <4> QED BY <2>3, <2>5, <3>1, <4>1 DEF SettleChallenge, Consume
    <3>2. ASSUME NEW price \in Prices, NEW hash \in Hashes,
                 IssueChallenge(price, hash)
          PROVE  e \in store'
        BY <1>4, <2>3, <2>5, <3>2 DEF IssueChallenge, Add, NewId
    <3>3. ASSUME NEW c \in Calls, NEW i \in Ids, Refuse(c, i)
          PROVE  e \in store'
        BY <2>5, <3>3 DEF Refuse
    <3>4. CASE store' = store
        BY <3>4
    <3> QED BY <1>a, <3>1, <3>2, <3>3, <3>4 DEF Next, GetChallenge, NativeGetChallenge, HandleSettle,
            NativeHandleSettle, vars, Tick,
                ClientSends, Land, Step, FetchConfirmedTransaction, Simulate,
                SendTransaction, PollStatus, RpcThrows
  <2> QED BY <2>3, <2>6
<1> QED BY <1>3, <1>4

(* A challenge is accepted until the second it expires in: the store,      *)
(* whose entries expire with the millisecond, does not drop it before.     *)
THEOREM KeptUntilExpiry == Spec => []AcceptedUntilExpiry
<1>1. TInv /\ KeptInv => AcceptedUntilExpiry
  <2> SUFFICES ASSUME TInv, KeptInv, ~restarted, NEW id \in Ids, issued[id] > 0,
                      consumed[id] = 0, now < id.expires * PerSecond
               PROVE  Has(Prune(store), id)
      BY DEF AcceptedUntilExpiry
  <2>1. PICK e \in store : e.id = id /\ id.expires * PerSecond <= e.until
      BY DEF KeptInv
  <2>2. /\ now \in Nat /\ e.until \in Nat /\ id.expires * PerSecond \in Nat
      BY ChargeConstants DEF TInv, TypeOK, Ids
  <2>3. e.until > now
      BY <2>1, <2>2
  <2> QED BY <2>1, <2>3 DEF Has, Prune
<1>2. Init => TInv /\ KeptInv
    BY TypeInit, KeptStart
<1>3. TInv /\ KeptInv /\ [Next]_vars => (TInv /\ KeptInv)'
    BY TypeStep, KeptStep
<1> QED BY <1>1, <1>2, <1>3, PTL DEF Spec
=============================================================================
