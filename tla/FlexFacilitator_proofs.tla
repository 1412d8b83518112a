----------------------- MODULE FlexFacilitator_proofs -----------------------
(***************************************************************************)
(* Proofs about FlexFacilitator, for every set of authorizations, every    *)
(* payload and every setting of the timing parameters that BufferCovers    *)
(* admits.                                                                 *)
(***************************************************************************)
EXTENDS FlexFacilitator, TLAPS

-----------------------------------------------------------------------------
(* The inductive invariant, in parts. *)

(* Slot numbers and the slot estimate stay within Jitter of the clock.     *)
ClockInv ==
    /\ Near(slot, now)
    /\ skew <= Jitter /\ -skew <= Jitter

(* A cached key is as old as fetchedAt says and no older than what it      *)
(* shows: a key cached as active was not revoked before it was fetched.    *)
KeyInv ==
    /\ key.st # "active" => key.at <= slot
    /\ key.st = "closed" => slot >= key.at + Grace
    /\ keyCache.st # "none" =>
          /\ keyCache.fetchedAt <= now
          /\ keyCache.fetchedSlot <= slot
          /\ keyCache.fetchedAt <= keyCache.fetchedSlot + Jitter
    /\ keyCache.st = "active" /\ key.st # "active"
          => keyCache.fetchedSlot <= key.at
    /\ keyCache.st = "revoked" => key.st # "active" /\ keyCache.at = key.at

(* The last slot, as estimated, at which a may be handed to the chain.     *)
DeadlineOK(until, a, k, s) ==
    /\ until + Buffer <= ExpiresAt[a]
    /\ until + Buffer <= KeyExpiresAt
    /\ k.st = "active" => until + 2 * Jitter - Grace <= s
    /\ k.st # "active" => until + 2 * Jitter - Grace <= k.at

DeadlineInv ==
    /\ \A a \in Auths : holds[a].st \in {"held", "settled", "submitting"}
                           => DeadlineOK(holds[a].until, a, key, slot)
    /\ \A r \in Requests : req[r].pc = "checked"
                              => DeadlineOK(req[r].until, req[r].auth, key, slot)

Draining == {"submitting", "finalizing"}

(* A transaction being polled belongs to the batch of the running tick.    *)
BatchInv ==
    /\ \A a \in Auths : sub[a] # "none" <=> holds[a].st \in Draining
    /\ \A a \in Auths : holds[a].st \in Draining => holds[a].st = tickPc
    /\ \A tx \in net : tx.cur =>
          /\ sub[tx.auth] = "wait"
          /\ tx.kind = "submit" <=> tickPc = "submitting"
    /\ \A x, y \in net : x.cur /\ y.cur /\ x.auth = y.auth => x = y
    /\ tickPc = "submitting" =>
          /\ flushAt <= now /\ now <= flushAt + ConfirmWindow
          /\ flushAt <= flushSlot + Jitter

(* A settlement lands at most ConfirmWindow after flush() started, and a   *)
(* finalized one can never land again.                                     *)
ChainInv ==
    \A a \in Auths :
       /\ chain[a].st = "pending"
             => ExpiresAt[a] <= chain[a].at + RefundTimeout
       /\ chain[a].st = "finalized" => ExpiresAt[a] <= slot
       /\ tickPc = "submitting" /\ sub[a] = "ok" =>
             /\ chain[a].st # "none"
             /\ chain[a].at <= flushAt + ConfirmWindow + Jitter
       /\ holds[a].st \in {"submitted", "finalizing"} =>
             /\ chain[a].st # "none"
             /\ chain[a].at <= holds[a].subAt + ConfirmWindow + 2 * Jitter

(* Every amount on its way to the chain has been reported by /settle.      *)
AmountInv ==
    /\ \A a \in Auths : holds[a].st \in {"settled", "submitting", "submitted",
                                         "finalizing"}
                           => holds[a].amt \in receipts[a].all
    /\ \A tx \in net : tx.kind = "submit" => tx.amt \in receipts[tx.auth].all
    /\ SettlesOnlyReportedAmounts

-----------------------------------------------------------------------------
(* Type correctness. *)

(* Every hold, settlement and cached key the handler builds is well typed. *)
LEMMA RecordTypes ==
    /\ NoHold \in Hold /\ NoSettlement \in Settlement /\ NoKey \in CachedKey
    /\ IdleRequest \in Request
  BY DEF NoHold, NewHold, Hold, HoldStatus, NoSettlement, Settlement, NoKey,
         CachedKey, IdleRequest, Request

(* What the hold manager does to a hold leaves a hold.                     *)
LEMMA HoldTypes ==
    /\ \A st \in HoldStatus, amt \in Nat, until \in Int :
          NewHold(st, amt, until) \in Hold
    /\ {"held", "settled", "submitting", "submitted", "finalizing"}
          \subseteq HoldStatus
    /\ \A h \in Hold, st \in HoldStatus : [h EXCEPT !.st = st] \in Hold
    /\ \A h \in Hold, n \in Nat : /\ [h EXCEPT !.amt = n] \in Hold
                                  /\ [h EXCEPT !.retries = n] \in Hold
    /\ \A h \in Hold, s \in Int : [h EXCEPT !.subAt = s] \in Hold
  BY DEF NewHold, Hold, HoldStatus

(* An orphaned transaction is a transaction.                               *)
LEMMA OrphanType == \A tx \in Tx : Orphan(tx) \in Tx
  BY DEF Orphan, Tx

(* computeHoldDeadline() returns a slot number.                            *)
LEMMA DeadlineType ==
    ASSUME NEW k \in CachedKey, NEW e \in Nat, NEW s \in Int
    PROVE  ComputeHoldDeadline(k, e, s) \in Int
  BY ParametersAreSlots DEF ComputeHoldDeadline, MinOf, CachedKey

(* Each step of a /verify or /settle call keeps the state well typed.      *)
LEMMA TypeRequest ==
    ASSUME TypeOK, NEW r \in Requests,
           \/ BeginRequest(r) \/ BeginRequestThrows(r) \/ HandleRequest(r)
    PROVE  TypeOK'
  <1> USE ParametersAreSlots, PayloadsAreNumeric, RecordTypes
      DEF TypeOK, clockVars, keyVars, tickVars, chainVars
  <1>1. CASE BeginRequest(r)
    <2>1. req' \in [Requests -> Request]
      BY <1>1 DEF BeginRequest, Request
    <2>2. skew' \in Int /\ snapshot' \in Nat \cup {Absent}
      BY <1>1 DEF BeginRequest, SnapshotEscrow, RefreshSlot
    <2> QED BY <1>1, <2>1, <2>2 DEF BeginRequest
  <1>2. CASE BeginRequestThrows(r)
    BY <1>2 DEF BeginRequestThrows, SnapshotEscrowThrows, RefreshSlot
  <1>3. CASE CheckPayload(r)
    <2>1. req[r] \in Request /\ req[r].pc = "snapshot"
      BY <1>3 DEF CheckPayload
    <2>2. req[r].auth \in Auths
      BY <2>1 DEF Request, IdleRequest
    <2>3. CachedSessionKey \in CachedKey
      BY DEF CachedSessionKey, CachedKey, KeyRecord
    <2>4. EstimateCurrentSlot \in Int
      BY DEF EstimateCurrentSlot
    <2>5. ComputeHoldDeadline(CachedSessionKey, ExpiresAt[req[r].auth],
                              EstimateCurrentSlot) \in Int
      BY <2>2, <2>3, <2>4, DeadlineType
    <2>6. req' \in [Requests -> Request]
      <3> DEFINE until == ComputeHoldDeadline(CachedSessionKey,
                            ExpiresAt[req[r].auth], EstimateCurrentSlot)
                 q == [req[r] EXCEPT !.pc = "checked", !.until = until]
      <3>1. \/ Done(r)
            \/ req' = [req EXCEPT ![r].pc = "checked", ![r].until = until]
        BY <1>3 DEF CheckPayload
      <3>2. until \in Int
        BY <2>5
      <3> HIDE DEF until
      <3>3. q \in Request
        <4>1. req[r] \in [pc : {"snapshot", "checked"},
                           kind : {"verify", "settle"}, auth : Auths,
                           amt : Nat, until : Int]
          BY <2>1 DEF Request, IdleRequest
        <4>2. q \in [pc : {"snapshot", "checked"},
                      kind : {"verify", "settle"}, auth : Auths,
                      amt : Nat, until : Int]
          BY <3>2, <4>1
        <4> QED BY <4>2 DEF Request
      <3>4. CASE Done(r)
        BY <3>4 DEF Done, Request
      <3>5. CASE req' = [req EXCEPT ![r].pc = "checked", ![r].until = until]
        <4>1. req' = [req EXCEPT ![r] = q]
          BY <3>5
        <4> QED BY <3>3, <4>1
      <3> QED BY <3>1, <3>4, <3>5
    <2>7. keyCache' \in CachedKey
      BY <1>3, <2>3 DEF CheckPayload
    <2> QED BY <1>3, <2>6, <2>7 DEF CheckPayload
  <1>4. CASE RejectRequest(r)
    BY <1>4 DEF RejectRequest, Done
  <1>5. CASE PlaceHold(r)
    <2>1. req[r].auth \in Auths /\ req[r].until \in Int
      BY <1>5 DEF PlaceHold, Request, IdleRequest
    <2>2. holds' \in [Auths -> Hold]
      BY <1>5, <2>1, HoldTypes DEF PlaceHold, TryHold
    <2> QED BY <1>5, <2>2 DEF PlaceHold, Done
  <1>6. CASE SettleHold(r)
    <2>1. /\ req[r].auth \in Auths /\ req[r].until \in Int
          /\ req[r].amt \in Nat
      BY <1>6 DEF SettleHold, Request, IdleRequest
    <2>2. holds' \in [Auths -> Hold]
      <3>1. CASE UpdateSettleAmount(req[r].auth, req[r].amt)
        <4> DEFINE h == [holds[req[r].auth] EXCEPT !.st = "settled"]
        <4>1. h \in Hold
          BY <2>1, HoldTypes
        <4>2. [h EXCEPT !.amt = req[r].amt] \in Hold
          BY <2>1, <4>1, HoldTypes
        <4>3. holds' = [holds EXCEPT ![req[r].auth] =
                                       [h EXCEPT !.amt = req[r].amt]]
          BY <3>1, <2>1 DEF UpdateSettleAmount
        <4> QED BY <2>1, <4>2, <4>3
      <3>2. CASE holds' = [holds EXCEPT ![req[r].auth] =
                             NewHold("settled", req[r].amt, req[r].until)]
        <4>1. NewHold("settled", req[r].amt, req[r].until) \in Hold
          BY <2>1, HoldTypes
        <4> QED BY <2>1, <3>2, <4>1
      <3> QED BY <1>6, <3>1, <3>2 DEF SettleHold
    <2>3. receipts' \in [Auths -> [all : SUBSET Nat, last : Nat]]
      BY <1>6, <2>1 DEF SettleHold
    <2> QED BY <1>6, <2>2, <2>3 DEF SettleHold, Done
  <1> QED BY <1>1, <1>2, <1>3, <1>4, <1>5, <1>6 DEF HandleRequest

(* Each step of the tick keeps the state well typed.                       *)
LEMMA TypeTick ==
    ASSUME TypeOK, RunTick
    PROVE  TypeOK'
  <1> USE ParametersAreSlots, RecordTypes
      DEF TypeOK, clockVars, keyVars, tickVars, chainVars
  <1>1. CASE FlushStart
    <2>1. \A h \in Hold, s \in Int : SweepAndDrain(h, s) \in Hold
      BY DEF SweepAndDrain, Hold, HoldStatus
    <2>2. EstimateCurrentSlot \in Int
      BY DEF EstimateCurrentSlot
    <2>3. holds' \in [Auths -> Hold]
      BY <1>1, <2>1, <2>2 DEF FlushStart
    <2> QED BY <1>1, <2>2, <2>3 DEF FlushStart
  <1>2. ASSUME NEW a \in Auths, SendTransaction(a)
        PROVE  TypeOK'
    <2>1. net' \subseteq Tx
      <3> DEFINE tx == [kind |-> IF tickPc = "submitting" THEN "submit"
                                                          ELSE "finalize",
                        auth |-> a, amt |-> holds[a].amt, cur |-> TRUE]
      <3>1. tx \in Tx
        BY DEF Tx, Hold
      <3> HIDE DEF tx
      <3>2. net' \subseteq net \cup {tx, Orphan(tx)}
        BY <1>2 DEF SendTransaction, tx
      <3> QED BY <3>1, <3>2, OrphanType
    <2> QED BY <1>2, <2>1 DEF SendTransaction, Settle
  <1>3. ASSUME NEW a \in Auths, ConfirmationTimeout(a)
        PROVE  TypeOK'
    <2>1. net' \subseteq Tx
      BY <1>3, OrphanType DEF ConfirmationTimeout, Current
    <2> QED BY <1>3, <2>1 DEF ConfirmationTimeout, Settle
  <1>4. CASE FlushResults
    <2>1. \A h \in Hold, o \in Outcomes : AfterSubmit(h, o) \in Hold
      <3> SUFFICES ASSUME NEW h \in Hold, NEW o \in Outcomes
                   PROVE  AfterSubmit(h, o) \in Hold
        OBVIOUS
      <3>1. [h EXCEPT !.st = "submitted"] \in Hold
        BY HoldTypes
      <3>2. [[h EXCEPT !.st = "submitted"] EXCEPT !.subAt = flushSlot] \in Hold
        BY <3>1, HoldTypes
      <3>3. h.retries + 1 \in Nat
        BY DEF Hold
      <3>4. [h EXCEPT !.st = "settled"] \in Hold
        BY HoldTypes
      <3>5. [[h EXCEPT !.st = "settled"] EXCEPT !.retries = h.retries + 1]
               \in Hold
        BY <3>3, <3>4, HoldTypes
      <3> QED BY <3>2, <3>5 DEF AfterSubmit
    <2>2. holds' \in [Auths -> Hold]
      BY <1>4, <2>1 DEF FlushResults, Settled
    <2> QED BY <1>4, <2>2 DEF FlushResults
  <1>5. CASE RefreshAfterFlush
    BY <1>5 DEF RefreshAfterFlush, SnapshotEscrow, SnapshotEscrowThrows,
                RefreshSlot
  <1>6. CASE FinalizeStart
    <2>1. holds' \in [Auths -> Hold]
      BY <1>6 DEF FinalizeStart, Hold, HoldStatus
    <2> QED BY <1>6, <2>1 DEF FinalizeStart
  <1>7. CASE FinalizeResults
    <2>1. \A h \in Hold, o \in Outcomes : AfterFinalize(h, o) \in Hold
      BY DEF AfterFinalize, Hold, HoldStatus
    <2>2. holds' \in [Auths -> Hold]
      BY <1>7, <2>1 DEF FinalizeResults, Settled
    <2> QED BY <1>7, <2>2 DEF FinalizeResults
  <1> QED BY <1>1, <1>2, <1>3, <1>4, <1>5, <1>6, <1>7 DEF RunTick

(* Each step of the chain, the key and the clock keeps it well typed.      *)
LEMMA TypeChain ==
    ASSUME TypeOK, RunChain \/ RevokeKey \/ CloseKey \/ Tick
    PROVE  TypeOK'
  <1> USE ParametersAreSlots, PayloadsAreNumeric
      DEF TypeOK, clockVars, keyVars, tickVars, chainVars
  <1>1. ASSUME NEW tx \in net, ExecuteTransaction(tx)
        PROVE  TypeOK'
    <2>1. tx \in Tx
      OBVIOUS
    <2>2. chain' \in [Auths -> Settlement]
      <3>1. CASE ExecuteSubmit(tx)
        BY <2>1, <3>1 DEF ExecuteSubmit, Settlement, Tx
      <3>2. CASE ExecuteFinalize(tx)
        <4>1. tx.auth \in Auths
          BY <2>1 DEF Tx
        <4>2. \A c \in Settlement :
                 [c EXCEPT !.st = "finalized"] \in Settlement
          BY DEF Settlement
        <4> QED BY <3>2, <4>1, <4>2 DEF ExecuteFinalize
      <3> QED BY <1>1, <3>1, <3>2 DEF ExecuteTransaction
    <2>3. sub' \in [Auths -> {"none", "send", "wait", "ok", "perm", "fail"}]
      BY <1>1, <2>1 DEF ExecuteTransaction, ExecuteSubmit, ExecuteFinalize,
                        Report, Tx
    <2> QED BY <1>1, <2>2, <2>3 DEF ExecuteTransaction
  <1>2. ASSUME NEW tx \in net, DropTransaction(tx)
        PROVE  TypeOK'
    BY <1>2 DEF DropTransaction
  <1>3. CASE RevokeKey
    BY <1>3 DEF RevokeKey, KeyRecord
  <1>4. CASE CloseKey
    BY <1>4 DEF CloseKey, KeyRecord
  <1>5. CASE Tick
    BY <1>5 DEF Tick
  <1> QED BY <1>1, <1>2, <1>3, <1>4, <1>5 DEF RunChain

(* The facilitator, its callers and the chain keep their types.            *)
THEOREM TypeCorrect == Spec => []TypeOK
  <1>1. Init => TypeOK
    BY RecordTypes, ParametersAreSlots
    DEF Init, TypeOK, KeyRecord
  <1>2. TypeOK /\ [Next]_vars => TypeOK'
    <2> SUFFICES ASSUME TypeOK, [Next]_vars PROVE TypeOK'
      OBVIOUS
    <2>1. CASE Next
      BY <2>1, TypeRequest, TypeTick, TypeChain DEF Next
    <2>2. CASE UNCHANGED vars
      BY <2>2 DEF TypeOK, vars, clockVars, keyVars, tickVars, chainVars
    <2> QED BY <2>1, <2>2
  <1> QED BY <1>1, <1>2, PTL DEF Spec

-----------------------------------------------------------------------------
(* Which step may change what. *)

(* The clock moves in Tick, the key on chain when its owner acts, the      *)
(* cached key in CheckPayload; the estimate follows a fetched slot.        *)
LEMMA Frames ==
    ASSUME [Next]_vars
    PROVE  /\ Tick \/ UNCHANGED <<now, slot>>
           /\ \/ UNCHANGED skew
              \/ skew' = slot - now /\ UNCHANGED <<now, slot>>
           /\ RevokeKey \/ CloseKey \/ UNCHANGED key
           /\ (\E r \in Requests : CheckPayload(r)) \/ UNCHANGED keyCache
  <1> USE DEF clockVars, keyVars, tickVars, chainVars
  <1>1. ASSUME Tick
        PROVE  UNCHANGED <<skew, key, keyCache>>
    BY <1>1 DEF Tick
  <1>7. ASSUME RevokeKey \/ CloseKey
        PROVE  UNCHANGED <<now, slot, skew, keyCache>>
    BY <1>7 DEF RevokeKey, CloseKey
  <1>2. ASSUME NEW r \in Requests, BeginRequest(r) \/ BeginRequestThrows(r)
        PROVE  /\ UNCHANGED <<now, slot, key, keyCache>>
               /\ UNCHANGED skew \/ skew' = slot - now
    BY <1>2 DEF BeginRequest, BeginRequestThrows, SnapshotEscrow,
                SnapshotEscrowThrows, RefreshSlot
  <1>3. ASSUME NEW r \in Requests, HandleRequest(r)
        PROVE  /\ UNCHANGED <<now, slot, skew, key>>
               /\ CheckPayload(r) \/ UNCHANGED keyCache
    BY <1>3 DEF HandleRequest, CheckPayload, RejectRequest, PlaceHold,
                SettleHold
  <1>4. CASE RunTick
    BY <1>4 DEF RunTick, FlushStart, SendTransaction, ConfirmationTimeout,
                FlushResults, RefreshAfterFlush, FinalizeStart,
                FinalizeResults, SnapshotEscrow, SnapshotEscrowThrows,
                RefreshSlot
  <1>5. CASE RunChain
    BY <1>5 DEF RunChain, ExecuteTransaction, DropTransaction
  <1>6. CASE UNCHANGED vars
    BY <1>6 DEF vars
  <1> QED BY <1>1, <1>2, <1>3, <1>4, <1>5, <1>6, <1>7 DEF Next

(* Time does not run backwards, and a key is revoked once.                 *)
LEMMA Monotone ==
    ASSUME TypeOK, [Next]_vars
    PROVE  /\ now <= now' /\ slot <= slot'
           /\ key.st # "active" => key'.st # "active" /\ key'.at = key.at
           /\ key.st = "active" /\ key'.st # "active"
                 => key'.at = slot /\ slot' = slot
  <1> USE ParametersAreSlots DEF TypeOK
  <1>1. now <= now' /\ slot <= slot'
    <2>1. CASE Tick BY <2>1 DEF Tick
    <2>2. CASE UNCHANGED <<now, slot>> BY <2>2
    <2> QED BY <2>1, <2>2, Frames
  <1>2. /\ key.st # "active" => key'.st # "active" /\ key'.at = key.at
        /\ key.st = "active" /\ key'.st # "active"
              => key'.at = slot /\ slot' = slot
    <2>1. CASE RevokeKey BY <2>1 DEF RevokeKey, clockVars
    <2>2. CASE CloseKey BY <2>2 DEF CloseKey, clockVars, KeyRecord
    <2>3. CASE UNCHANGED key BY <2>3
    <2> QED BY <2>1, <2>2, <2>3, Frames
  <1> QED BY <1>1, <1>2

-----------------------------------------------------------------------------
(* The clocks and the session key. *)

(* Slots and slot estimates stay within Jitter of the wall clock.          *)
LEMMA ClockCorrect == Spec => []ClockInv
  <1> USE ParametersAreSlots
  <1>1. Init => ClockInv
    BY DEF Init, ClockInv, Near
  <1>2. TypeOK /\ ClockInv /\ [Next]_vars => ClockInv'
    <2> SUFFICES ASSUME TypeOK, ClockInv, [Next]_vars PROVE ClockInv'
      OBVIOUS
    <2> USE DEF TypeOK, ClockInv, Near
    <2>1. Near(slot, now)'
      <3>1. CASE Tick BY <3>1 DEF Tick
      <3>2. CASE UNCHANGED <<now, slot>> BY <3>2
      <3> QED BY <3>1, <3>2, Frames
    <2>2. skew' <= Jitter /\ -skew' <= Jitter
      BY Frames
    <2> QED BY <2>1, <2>2
  <1> QED BY <1>1, <1>2, TypeCorrect, PTL DEF Spec

(* A cached session key lags the account on chain by no more than its age. *)
LEMMA KeyCorrect == Spec => []KeyInv
  <1> USE ParametersAreSlots
  <1>1. Init => KeyInv
    BY DEF Init, KeyInv, NoKey
  <1>2. TypeOK /\ ClockInv /\ KeyInv /\ [Next]_vars => KeyInv'
    <2> SUFFICES ASSUME TypeOK, ClockInv, KeyInv, [Next]_vars PROVE KeyInv'
      OBVIOUS
    <2>1. TypeOK'
      BY TypeRequest, TypeTick, TypeChain
      DEF Next, TypeOK, vars, clockVars, keyVars, tickVars, chainVars
    <2>2. /\ key'.st # "active" => key'.at <= slot'
          /\ key'.st = "closed" => slot' >= key'.at + Grace
      <3>1. CASE RevokeKey
        BY <3>1 DEF RevokeKey, clockVars, TypeOK
      <3>2. CASE CloseKey
        BY <3>2, Monotone DEF CloseKey, clockVars, TypeOK, KeyRecord, KeyInv
      <3>3. CASE UNCHANGED key
        BY <3>3, <2>1, Monotone DEF TypeOK, KeyRecord, KeyInv
      <3> QED BY <3>1, <3>2, <3>3, Frames
    <2>3. CASE UNCHANGED keyCache
      BY <2>1, <2>2, <2>3, Monotone
      DEF KeyInv, TypeOK, KeyRecord, CachedKey
    <2>4. ASSUME NEW r \in Requests, CheckPayload(r)
          PROVE  KeyInv'
      <3>1. /\ UNCHANGED <<now, slot, key>>
            /\ keyCache' \in {NoKey, CachedSessionKey}
        BY <2>4 DEF CheckPayload, clockVars
      <3>2. CASE keyCache' = NoKey
        BY <2>2, <3>1, <3>2 DEF KeyInv, NoKey
      <3>3. CASE keyCache' = keyCache
        BY <3>1, <3>3 DEF KeyInv
      <3>4. CASE /\ key.st # "closed"
                 /\ keyCache' = [st |-> key.st, at |-> key.at,
                                 fetchedAt |-> now, fetchedSlot |-> slot]
        BY <2>2, <3>1, <3>4
        DEF KeyInv, TypeOK, KeyRecord, ClockInv, Near
      <3> QED BY <3>1, <3>2, <3>3, <3>4 DEF CachedSessionKey
    <2> QED BY <2>3, <2>4, Frames
  <1> QED BY <1>1, <1>2, TypeCorrect, ClockCorrect, PTL DEF Spec

-----------------------------------------------------------------------------
(* The deadline of a hold. *)

(* A deadline that respects the key and the expiry keeps doing so, even if *)
(* the key is revoked afterwards: revocation leaves Grace slots from now.  *)
LEMMA DeadlineStable ==
    ASSUME TypeOK, TypeOK', [Next]_vars, NEW until \in Int, NEW a \in Auths,
           DeadlineOK(until, a, key, slot)
    PROVE  DeadlineOK(until, a, key', slot')
  <1>1. /\ key.at \in Nat /\ key'.at \in Nat
        /\ slot \in Nat /\ slot' \in Nat
    BY DEF TypeOK, KeyRecord
  <1>2. /\ slot <= slot'
        /\ key.st # "active" => key'.st # "active" /\ key'.at = key.at
        /\ key.st = "active" /\ key'.st # "active" => key'.at = slot
    BY Monotone
  <1>3. Jitter \in Nat /\ Grace \in Nat
    BY ParametersAreSlots
  <1> QED BY <1>1, <1>2, <1>3 DEF DeadlineOK

(* computeHoldDeadline(), applied to a cached key that may be as old as    *)
(* KeyCacheMaxAge at a slot that is only estimated, respects the key that  *)
(* is on chain.                                                            *)
LEMMA DeadlineSound ==
    ASSUME TypeOK, ClockInv, KeyInv, NEW a \in Auths, Grace >= MinGrace,
           CachedSessionKey.st # "none"
    PROVE  DeadlineOK(ComputeHoldDeadline(CachedSessionKey, ExpiresAt[a],
                                          EstimateCurrentSlot),
                      a, key, slot)
  <1> USE ParametersAreSlots, BufferCovers, PayloadsAreNumeric
  <1> DEFINE k == CachedSessionKey
             s == EstimateCurrentSlot
             d == ComputeHoldDeadline(k, ExpiresAt[a], s)
  <1>1. /\ k \in CachedKey
        /\ now - k.fetchedAt < KeyCacheMaxAge \/ k.fetchedAt = now
        /\ k.fetchedSlot <= slot
        /\ k.fetchedAt <= k.fetchedSlot + Jitter
        /\ k.st = "active" /\ key.st # "active" => k.fetchedSlot <= key.at
        /\ k.st = "revoked" => key.st # "active" /\ k.at = key.at
    <2>1. CASE KeyCacheFresh
      BY <2>1 DEF CachedSessionKey, KeyCacheFresh, TypeOK, KeyInv
    <2>2. CASE ~KeyCacheFresh
      BY <2>2 DEF CachedSessionKey, TypeOK, KeyInv, KeyRecord, CachedKey,
                  ClockInv, Near, NoKey
    <2> QED BY <2>1, <2>2
  <1>2. /\ s \in Int /\ slot \in Nat /\ now \in Nat /\ key.at \in Nat
        /\ s <= now + Jitter
    BY DEF EstimateCurrentSlot, TypeOK, ClockInv, KeyRecord
  <1>3. /\ k.st \in {"active", "revoked"} /\ k.at \in Nat
        /\ k.fetchedAt \in Nat /\ k.fetchedSlot \in Int
        /\ ExpiresAt[a] \in Nat
    BY <1>1 DEF CachedKey
  <1> HIDE DEF k, s
  <1>4. CASE k.st = "active"
    <2>1. d <= s + Grace - Buffer /\ d + Buffer <= ExpiresAt[a]
          /\ d + Buffer <= KeyExpiresAt /\ d \in Int
      BY <1>2, <1>3, <1>4 DEF ComputeHoldDeadline, MinOf
    <2>2. s <= k.fetchedSlot + Buffer - 2 * Jitter
      BY <1>1, <1>2, <1>3
    <2>3. d + 2 * Jitter - Grace <= k.fetchedSlot
      BY <2>1, <2>2, <1>2, <1>3
    <2> QED BY <1>1, <1>2, <1>3, <1>4, <2>1, <2>3 DEF DeadlineOK, k, s
  <1>5. CASE k.st = "revoked"
    <2>1. d <= k.at + Grace - Buffer /\ d + Buffer <= ExpiresAt[a]
          /\ d + Buffer <= KeyExpiresAt /\ d \in Int
      BY <1>2, <1>3, <1>5 DEF ComputeHoldDeadline, MinOf
    <2>2. d + 2 * Jitter - Grace <= key.at
      BY <1>1, <1>2, <1>3, <1>5, <2>1
    <2> QED BY <1>1, <1>5, <2>1, <2>2 DEF DeadlineOK, k, s
  <1> QED BY <1>3, <1>4, <1>5

(* Every hold that may still be submitted, and every checked request, has  *)
(* a deadline that respects the authorization and the key.                 *)
LEMMA DeadlineStep ==
    ASSUME TypeOK, TypeOK', ClockInv, KeyInv, DeadlineInv, [Next]_vars
    PROVE  DeadlineInv'
  <1> DEFINE Live == {"held", "settled", "submitting"}
             HoldOK(h, a) == h.st \in Live
                               => DeadlineOK(h.until, a, key', slot')
             RequestOK(q) == q.pc = "checked"
                               => DeadlineOK(q.until, q.auth, key', slot')
  <1>h. \A a \in Auths : HoldOK(holds[a], a)
    <2> SUFFICES ASSUME NEW a \in Auths, holds[a].st \in Live
                 PROVE  DeadlineOK(holds[a].until, a, key', slot')
      OBVIOUS
    <2>1. holds[a].until \in Int
      BY DEF TypeOK, Hold
    <2>2. DeadlineOK(holds[a].until, a, key, slot)
      BY DEF DeadlineInv
    <2> QED BY <2>1, <2>2, DeadlineStable
  <1>r. \A r \in Requests : RequestOK(req[r])
    <2> SUFFICES ASSUME NEW r \in Requests, req[r].pc = "checked"
                 PROVE  DeadlineOK(req[r].until, req[r].auth, key', slot')
      OBVIOUS
    <2>1. req[r].until \in Int /\ req[r].auth \in Auths
      BY DEF TypeOK, Request, IdleRequest
    <2>2. DeadlineOK(req[r].until, req[r].auth, key, slot)
      BY DEF DeadlineInv
    <2> QED BY <2>1, <2>2, DeadlineStable
  <1> SUFFICES /\ \A a \in Auths : HoldOK(holds'[a], a)
               /\ \A r \in Requests : RequestOK(req'[r])
    BY DEF DeadlineInv
  <1> USE DEF clockVars, keyVars, tickVars, chainVars
  <1>n. RequestOK(IdleRequest) /\ \A a \in Auths : HoldOK(NoHold, a)
    BY DEF IdleRequest, NoHold, NewHold
  <1> HIDE DEF HoldOK, RequestOK
  <1>1. CASE UNCHANGED <<holds, req>>
    BY <1>h, <1>r, <1>1
  <1>2. ASSUME NEW r \in Requests, BeginRequest(r)
        PROVE  UNCHANGED holds /\ \A q \in Requests : RequestOK(req'[q])
    <2>1. req'[r].pc # "checked"
      BY <1>2 DEF BeginRequest, TypeOK
    <2>2. \A q \in Requests \ {r} : req'[q] = req[q]
      BY <1>2 DEF BeginRequest, TypeOK
    <2>3. RequestOK(req'[r])
      BY <2>1 DEF RequestOK
    <2> QED BY <1>2, <1>r, <2>2, <2>3 DEF BeginRequest
  <1>3. ASSUME NEW r \in Requests, CheckPayload(r)
        PROVE  UNCHANGED holds /\ \A q \in Requests : RequestOK(req'[q])
    <2> DEFINE d == ComputeHoldDeadline(CachedSessionKey,
                       ExpiresAt[req[r].auth], EstimateCurrentSlot)
    <2>1. req[r].auth \in Auths
      BY <1>3 DEF CheckPayload, TypeOK, Request, IdleRequest
    <2>2. UNCHANGED <<key, slot, holds>>
      BY <1>3 DEF CheckPayload
    <2>3. CASE req' = [req EXCEPT ![r] = IdleRequest]
      BY <1>r, <1>n, <2>2, <2>3 DEF TypeOK
    <2>4. CASE /\ PayloadAcceptable(req[r].auth, CachedSessionKey,
                                    EstimateCurrentSlot)
               /\ req' = [req EXCEPT ![r].pc = "checked", ![r].until = d]
      <3>1. DeadlineOK(d, req[r].auth, key, slot)
        BY <1>3, <2>1, <2>4, DeadlineSound
        DEF CheckPayload, PayloadAcceptable
      <3>2. \A q \in Requests \ {r} : req'[q] = req[q]
        BY <2>4 DEF TypeOK
      <3>3. req[r] \in Request /\ req[r].pc = "snapshot"
        BY <1>3 DEF CheckPayload, TypeOK
      <3>4. req'[r] = [[req[r] EXCEPT !.pc = "checked"] EXCEPT !.until = d]
        BY <2>4 DEF TypeOK
      <3>5. req'[r].until = d /\ req'[r].auth = req[r].auth
        BY <3>3, <3>4 DEF Request, IdleRequest
      <3>6. RequestOK(req'[r])
        BY <3>1, <3>5, <2>2 DEF RequestOK
      <3> QED BY <1>r, <2>2, <3>2, <3>6
    <2> QED BY <1>3, <2>3, <2>4 DEF CheckPayload, Done
  <1>4. ASSUME NEW r \in Requests, RejectRequest(r)
        PROVE  UNCHANGED holds /\ \A q \in Requests : RequestOK(req'[q])
    BY <1>4, <1>r, <1>n DEF RejectRequest, Done, TypeOK
  <1>5. ASSUME NEW r \in Requests, PlaceHold(r) \/ SettleHold(r)
        PROVE  /\ \A a \in Auths : HoldOK(holds'[a], a)
               /\ \A q \in Requests : RequestOK(req'[q])
    <2> DEFINE a == req[r].auth
    <2>1. a \in Auths /\ req[r].pc = "checked"
      BY <1>5 DEF PlaceHold, SettleHold, TypeOK, Request, IdleRequest
    <2>2. \A q \in Requests : RequestOK(req'[q])
      BY <1>5, <1>r, <1>n DEF PlaceHold, SettleHold, Done, TypeOK
    <2>3. DeadlineOK(req[r].until, a, key', slot')
      BY <1>r, <2>1 DEF RequestOK
    <2>4. \A b \in Auths \ {a} : holds'[b] = holds[b]
      BY <1>5, <2>1 DEF PlaceHold, SettleHold, TryHold, UpdateSettleAmount,
                        TypeOK
    <2>5. \/ holds'[a].until = req[r].until
          \/ holds'[a].until = holds[a].until /\ holds[a].st \in Live
      BY <1>5, <2>1 DEF PlaceHold, SettleHold, TryHold, UpdateSettleAmount,
                        TypeOK, NewHold, Hold, Reserved
    <2>6. HoldOK(holds'[a], a)
      BY <1>h, <2>1, <2>3, <2>5 DEF HoldOK
    <2> QED BY <1>h, <2>2, <2>4, <2>6
  <1>6. ASSUME FlushStart \/ FlushResults \/ FinalizeStart
               \/ FinalizeResults
        PROVE  UNCHANGED req /\ \A a \in Auths : HoldOK(holds'[a], a)
    <2> SUFFICES ASSUME NEW a \in Auths
                 PROVE  HoldOK(holds'[a], a)
      BY <1>6 DEF FlushStart, FlushResults, FinalizeStart, FinalizeResults
    <2>1. holds[a] \in Hold
      BY DEF TypeOK
    <2>2. CASE holds'[a] = NoHold
      BY <1>n, <2>2
    <2>3. CASE holds'[a] = holds[a]
      BY <1>h, <2>3
    <2>4. CASE holds'[a].st \notin Live
      BY <2>4 DEF HoldOK
    <2>5. CASE holds[a].st \in Live /\ holds'[a].until = holds[a].until
      BY <1>h, <2>5 DEF HoldOK
    <2>6. CASE FlushStart
      <3>1. holds'[a] = SweepAndDrain(holds[a], EstimateCurrentSlot)
        BY <2>6 DEF FlushStart
      <3> QED BY <2>1, <3>1, <2>2, <2>3, <2>5
              DEF SweepAndDrain, Hold
    <2>7. CASE FlushResults
      <3>1. holds'[a] = holds[a] \/ (/\ holds[a].st = "submitting"
               /\ holds'[a] = AfterSubmit(holds[a], sub[a]))
        BY <2>7 DEF FlushResults, InBatch
      <3>2. AfterSubmit(holds[a], sub[a]).until = holds[a].until
            \/ AfterSubmit(holds[a], sub[a]) = NoHold
        BY <2>1 DEF AfterSubmit, Hold
      <3> QED BY <3>1, <3>2, <2>2, <2>3, <2>5
    <2>8. CASE FinalizeStart
      BY <2>1, <2>3, <2>4, <2>8 DEF FinalizeStart, Hold
    <2>9. CASE FinalizeResults
      BY <2>1, <2>2, <2>3, <2>4, <2>9
      DEF FinalizeResults, AfterFinalize, Hold
    <2> QED BY <1>6, <2>6, <2>7, <2>8, <2>9
  <1>7. CASE \/ Tick \/ RevokeKey \/ CloseKey \/ RunChain \/ RefreshAfterFlush
             \/ \E a \in Auths : SendTransaction(a) \/ ConfirmationTimeout(a)
             \/ \E r \in Requests : BeginRequestThrows(r)
             \/ UNCHANGED vars
    <2>1. UNCHANGED <<holds, req>>
      BY <1>7 DEF Tick, RevokeKey, CloseKey, RunChain, ExecuteTransaction,
                  DropTransaction, RefreshAfterFlush, SendTransaction,
                  ConfirmationTimeout, BeginRequestThrows, vars
    <2> QED BY <1>1, <2>1
  <1> QED BY <1>h, <1>r, <1>2, <1>3, <1>4, <1>5, <1>6, <1>7
          DEF Next, HandleRequest, RunTick

(* A deadline that was sound when the hold was placed stays sound.         *)
LEMMA DeadlineCorrect == Spec => []DeadlineInv
  <1>1. Init => DeadlineInv
    BY DEF Init, DeadlineInv, NoHold, NewHold, IdleRequest
  <1>2. TypeOK /\ TypeOK' /\ ClockInv /\ KeyInv /\ DeadlineInv /\ [Next]_vars
           => DeadlineInv'
    BY DeadlineStep
  <1> QED BY <1>1, <1>2, TypeCorrect, ClockCorrect, KeyCorrect, PTL DEF Spec

(* flush() never starts to submit a hold the program would refuse because  *)
(* the authorization or the session key has run out.                       *)
THEOREM SubmitsInTimeHolds == Spec => SubmitsInTime
  <1> DEFINE InTime(a) ==
         /\ slot + Buffer < ExpiresAt[a] + 2 * Jitter
         /\ slot + Buffer < KeyExpiresAt + 2 * Jitter
         /\ IsSessionKeyUsable(key, slot)
  <1>1. ASSUME TypeOK, ClockInv, KeyInv, DeadlineInv, [Next]_vars,
               NEW a \in Auths,
               holds[a].st # "submitting", holds'[a].st = "submitting"
        PROVE  InTime(a)
    <2>1. /\ holds[a].st = "settled"
          /\ EstimateCurrentSlot < holds[a].until
      <3> USE DEF clockVars, keyVars, tickVars, chainVars
      <3>1. CASE FlushStart
        BY <1>1, <3>1 DEF FlushStart, SweepAndDrain, TypeOK, Hold, NoHold,
                          NewHold, EstimateCurrentSlot, Reserved
      <3>2. CASE FlushResults
        BY <1>1, <3>2 DEF FlushResults, AfterSubmit, InBatch, TypeOK, Hold,
                          NoHold, NewHold
      <3>3. CASE FinalizeStart \/ FinalizeResults
        <4>1. CASE FinalizeStart
          BY <1>1, <4>1 DEF FinalizeStart, TypeOK, Hold, NoHold
        <4>2. CASE FinalizeResults
          BY <1>1, <4>2 DEF FinalizeResults, AfterFinalize, InBatch, TypeOK,
                            Hold, NoHold, NewHold
        <4> QED BY <3>3, <4>1, <4>2
      <3>4. ASSUME NEW r \in Requests, PlaceHold(r) \/ SettleHold(r)
            PROVE  FALSE
        <4>1. CASE PlaceHold(r)
          BY <1>1, <4>1 DEF PlaceHold, TryHold, TypeOK, NewHold
        <4>2. CASE UpdateSettleAmount(req[r].auth, req[r].amt)
          BY <1>1, <4>2 DEF UpdateSettleAmount, TypeOK, Hold
        <4>3. CASE holds' = [holds EXCEPT ![req[r].auth] =
                               NewHold("settled", req[r].amt, req[r].until)]
          BY <1>1, <4>3 DEF TypeOK, NewHold
        <4> QED BY <3>4, <4>1, <4>2, <4>3 DEF SettleHold
      <3>5. CASE UNCHANGED holds
        BY <1>1, <3>5
      <3>6. \/ FlushStart \/ FlushResults \/ FinalizeStart \/ FinalizeResults
            \/ \E r \in Requests : PlaceHold(r) \/ SettleHold(r)
            \/ UNCHANGED holds
        BY <1>1 DEF Next, RunTick, RunChain, HandleRequest, BeginRequest,
                  BeginRequestThrows, CheckPayload, RejectRequest,
                  SendTransaction, ConfirmationTimeout, RefreshAfterFlush,
                  ExecuteTransaction, DropTransaction, Tick, RevokeKey,
                  CloseKey, vars
      <3> QED BY <3>1, <3>2, <3>3, <3>4, <3>5, <3>6
    <2>2. DeadlineOK(holds[a].until, a, key, slot)
      BY <1>1, <2>1 DEF DeadlineInv
    <2>3. /\ slot \in Nat /\ key.at \in Nat /\ holds[a].until \in Int
          /\ slot < holds[a].until + 2 * Jitter
          /\ key.st \in {"active", "revoked", "closed"}
          /\ ExpiresAt[a] \in Nat
      BY <1>1, <2>1, ParametersAreSlots, PayloadsAreNumeric
      DEF TypeOK, KeyRecord, Hold, ClockInv, Near, EstimateCurrentSlot
    <2>4. /\ slot + Buffer < ExpiresAt[a] + 2 * Jitter
          /\ slot + Buffer < KeyExpiresAt + 2 * Jitter
      BY <2>2, <2>3, ParametersAreSlots DEF DeadlineOK
    <2>5. slot < KeyExpiresAt
      BY <2>2, <2>3, BufferCovers, ParametersAreSlots DEF DeadlineOK
    <2>6. key.st # "active" => slot < key.at + Grace
      BY <2>2, <2>3, ParametersAreSlots DEF DeadlineOK
    <2>7. key.st # "closed"
      BY <1>1, <2>3, <2>6, ParametersAreSlots DEF KeyInv
    <2> QED BY <2>3, <2>4, <2>5, <2>6, <2>7 DEF IsSessionKeyUsable
  <1>2. TypeOK /\ ClockInv /\ KeyInv /\ DeadlineInv /\ [Next]_vars
           => [\A a \in Auths :
                 holds[a].st # "submitting" /\ holds'[a].st = "submitting"
                    => InTime(a)]_vars
    BY <1>1
  <1> QED BY <1>2, TypeCorrect, ClockCorrect, KeyCorrect, DeadlineCorrect, PTL
          DEF Spec, SubmitsInTime

-----------------------------------------------------------------------------
(* The batch of the running tick. *)

(* A step that is none of the tick's and none of the chain's leaves the    *)
(* batch alone; Tick keeps it within ConfirmWindow.                        *)
LEMMA BatchFrame ==
    ASSUME TypeOK, BatchInv,
           UNCHANGED <<tickVars, net>>,
           UNCHANGED now \/ Tick,
           \A a \in Auths : \/ holds'[a].st = holds[a].st
                            \/ {holds[a].st, holds'[a].st} \cap Draining = {}
    PROVE  BatchInv'
  <1> USE ParametersAreSlots DEF tickVars
  <1>1. tickPc = "submitting" => /\ flushAt <= now'
                                 /\ now' <= flushAt + ConfirmWindow
    BY DEF BatchInv, TypeOK, Tick
  <1> QED BY <1>1 DEF BatchInv

(* The batch of the tick is what flush() and finalizeReady() drained, and  *)
(* only its transactions are polled.                                       *)
LEMMA BatchStep ==
    ASSUME TypeOK, ClockInv, BatchInv, [Next]_vars
    PROVE  BatchInv'
  <1> USE ParametersAreSlots
      DEF clockVars, keyVars, tickVars, chainVars, Draining
  <1>1. CASE \/ Tick \/ RevokeKey \/ CloseKey \/ UNCHANGED vars
             \/ \E r \in Requests : \/ BeginRequest(r)
                                    \/ BeginRequestThrows(r)
                                    \/ CheckPayload(r)
                                    \/ RejectRequest(r)
    <2>1. UNCHANGED <<tickVars, net, holds>> /\ (UNCHANGED now \/ Tick)
      BY <1>1 DEF Tick, RevokeKey, CloseKey, BeginRequest,
                  BeginRequestThrows, CheckPayload, RejectRequest, vars
    <2> QED BY <2>1, BatchFrame
  <1>2. ASSUME NEW r \in Requests, PlaceHold(r) \/ SettleHold(r)
        PROVE  BatchInv'
    <2> DEFINE b == req[r].auth
    <2>1. UNCHANGED <<tickVars, net, now>>
      BY <1>2 DEF PlaceHold, SettleHold
    <2>2. b \in Auths
      BY <1>2 DEF PlaceHold, SettleHold, TypeOK, Request, IdleRequest
    <2>3. \A a \in Auths \ {b} : holds'[a] = holds[a]
      BY <1>2 DEF PlaceHold, SettleHold, TryHold, UpdateSettleAmount, TypeOK
    <2>4. holds[b].st \notin Draining /\ holds'[b].st \notin Draining
      <3>1. CASE PlaceHold(r)
        BY <2>2, <3>1 DEF PlaceHold, TryHold, NewHold, TypeOK
      <3>2. CASE UpdateSettleAmount(b, req[r].amt)
        BY <2>2, <3>2 DEF UpdateSettleAmount, Reserved, TypeOK, Hold
      <3>3. CASE /\ holds[b].st = "none"
                 /\ holds' = [holds EXCEPT ![b] =
                               NewHold("settled", req[r].amt, req[r].until)]
        BY <2>2, <3>3 DEF NewHold, TypeOK
      <3> QED BY <1>2, <3>1, <3>2, <3>3 DEF SettleHold
    <2> QED BY <2>1, <2>3, <2>4, BatchFrame
  <1>3. CASE FlushStart
    <2>1. \A a \in Auths : sub[a] = "none" /\ holds[a].st \notin Draining
      BY <1>3 DEF FlushStart, BatchInv
    <2>2. \A tx \in net : ~tx.cur
      BY <2>1 DEF BatchInv, TypeOK, Tx
    <2>5. \A a \in Auths : holds'[a].st # "finalizing"
      BY <1>3, <2>1 DEF FlushStart, SweepAndDrain, TypeOK, Hold, NoHold,
                        NewHold
    <2>3. CASE tickPc' = "finalize"
      BY <1>3, <2>1, <2>2, <2>3, <2>5 DEF FlushStart, BatchInv
    <2>4. CASE tickPc' = "submitting"
      <3>1. \A a \in Auths : /\ sub'[a] # "none" <=> holds'[a].st \in Draining
                             /\ holds'[a].st \in Draining
                                   => holds'[a].st = tickPc'
        BY <1>3, <2>4, <2>5 DEF FlushStart
      <3>2. flushAt' = now /\ flushSlot' = now + skew /\ now' = now
        BY <1>3, <2>4 DEF FlushStart, EstimateCurrentSlot
      <3>3. /\ flushAt' <= now' /\ now' <= flushAt' + ConfirmWindow
            /\ flushAt' <= flushSlot' + Jitter
        BY <3>2 DEF TypeOK, ClockInv
      <3>4. net' = net
        BY <1>3 DEF FlushStart
      <3> QED BY <2>2, <2>4, <3>1, <3>3, <3>4 DEF BatchInv
    <2> QED BY <1>3, <2>3, <2>4 DEF FlushStart
  <1>4. ASSUME NEW a \in Auths, SendTransaction(a)
        PROVE  BatchInv'
    <2>1. /\ UNCHANGED <<tickPc, flushSlot, flushAt, now, holds>>
          /\ sub[a] = "send" /\ sub'[a] \in {"wait", "fail"}
          /\ \A b \in Auths \ {a} : sub'[b] = sub[b]
          /\ tickPc \in {"submitting", "finalizing"}
      BY <1>4 DEF SendTransaction, Settle, TypeOK
    <2>2. \A tx \in net : tx.cur => tx.auth # a
      BY <2>1 DEF BatchInv
    <2>3. \A tx \in net' \ net : tx.cur =>
             /\ tx.auth = a /\ sub'[a] = "wait"
             /\ tx.kind = "submit" <=> tickPc = "submitting"
      BY <1>4 DEF SendTransaction, Settle, Orphan, TypeOK
    <2>4. \A tx \in net : tx.auth \in Auths
      BY DEF TypeOK, Tx
    <2>5. \A tx \in net' : tx.cur =>
             /\ sub'[tx.auth] = "wait"
             /\ tx.kind = "submit" <=> tickPc' = "submitting"
      BY <2>1, <2>2, <2>3, <2>4 DEF BatchInv
    <2>6. \A b \in Auths : sub'[b] = "none" <=> sub[b] = "none"
      BY <2>1
    <2>7. \A x, y \in net' : x.cur /\ y.cur /\ x.auth = y.auth => x = y
      <3>1. \A x, y \in net' \ net : x.cur /\ y.cur => x = y
        BY <1>4 DEF SendTransaction, Orphan
      <3> QED BY <2>2, <2>3, <3>1 DEF BatchInv
    <2> QED BY <2>1, <2>5, <2>6, <2>7 DEF BatchInv
  <1>5. ASSUME NEW a \in Auths, ConfirmationTimeout(a)
        PROVE  BatchInv'
    <2>1. /\ UNCHANGED <<tickPc, flushSlot, flushAt, now, holds>>
          /\ sub[a] = "wait" /\ sub'[a] = "fail"
          /\ \A b \in Auths \ {a} : sub'[b] = sub[b]
      BY <1>5 DEF ConfirmationTimeout, Settle, TypeOK
    <2>2. \A tx \in net' : tx.cur => tx \in net /\ tx.auth # a
      <3>1. \A tx \in net : ~Orphan(tx).cur
        BY DEF Orphan, TypeOK, Tx
      <3> QED BY <1>5, <3>1 DEF ConfirmationTimeout, Current
    <2>3. \A tx \in net : tx.auth \in Auths
      BY DEF TypeOK, Tx
    <2>4. \A tx \in net' : tx.cur =>
             /\ sub'[tx.auth] = "wait"
             /\ tx.kind = "submit" <=> tickPc' = "submitting"
      BY <2>1, <2>2, <2>3 DEF BatchInv
    <2>5. \A b \in Auths : sub'[b] = "none" <=> sub[b] = "none"
      BY <2>1
    <2>6. \A x, y \in net' : x.cur /\ y.cur /\ x.auth = y.auth => x = y
      BY <2>2 DEF BatchInv
    <2> QED BY <2>1, <2>4, <2>5, <2>6 DEF BatchInv
  <1>6. ASSUME FlushResults \/ FinalizeResults
        PROVE  BatchInv'
    <2>1. \A a \in Auths : sub[a] # "wait"
      BY <1>6 DEF FlushResults, FinalizeResults, Settled, InBatch, Outcomes,
                  BatchInv, TypeOK
    <2>2. \A tx \in net : ~tx.cur
      BY <2>1 DEF BatchInv, TypeOK, Tx
    <2>3. \A a \in Auths : sub'[a] = "none"
      BY <1>6 DEF FlushResults, FinalizeResults
    <2>4. tickPc' # "submitting" /\ net' = net
      BY <1>6 DEF FlushResults, FinalizeResults
    <2>5. ASSUME NEW a \in Auths
          PROVE  holds'[a].st \notin Draining
      <3>1. holds[a] \in Hold
        BY DEF TypeOK
      <3>2. CASE FlushResults
        <4>1. AfterSubmit(holds[a], sub[a]).st \notin Draining
          BY <3>1 DEF AfterSubmit, Hold, NoHold, NewHold
        <4> QED BY <3>2, <4>1 DEF FlushResults, InBatch, BatchInv
      <3>3. CASE FinalizeResults
        <4>1. AfterFinalize(holds[a], sub[a]).st \notin Draining
          BY <3>1 DEF AfterFinalize, Hold, NoHold, NewHold
        <4> QED BY <3>3, <4>1 DEF FinalizeResults, InBatch, BatchInv
      <3> QED BY <1>6, <3>2, <3>3
    <2> QED BY <2>2, <2>3, <2>4, <2>5 DEF BatchInv
  <1>7. CASE RefreshAfterFlush
    <2>1. /\ tickPc \notin Draining /\ tickPc' \notin Draining
          /\ UNCHANGED <<holds, sub, net>>
      BY <1>7 DEF RefreshAfterFlush
    <2>2. \A a \in Auths : sub[a] = "none"
      BY <2>1 DEF BatchInv
    <2>3. \A tx \in net : ~tx.cur
      BY <2>2 DEF BatchInv, TypeOK, Tx
    <2> QED BY <2>1, <2>2, <2>3 DEF BatchInv
  <1>8. CASE FinalizeStart
    <2>1. tickPc = "finalize" /\ UNCHANGED net
      BY <1>8 DEF FinalizeStart
    <2>2. \A a \in Auths : sub[a] = "none" /\ holds[a].st \notin Draining
      BY <2>1 DEF BatchInv
    <2>3. \A tx \in net : ~tx.cur
      BY <2>2 DEF BatchInv, TypeOK, Tx
    <2>4. \A a \in Auths :
             /\ sub'[a] # "none" <=> Finalizable(holds[a])
             /\ Finalizable(holds[a]) => holds'[a].st = "finalizing"
             /\ ~Finalizable(holds[a]) => holds'[a] = holds[a]
      BY <1>8 DEF FinalizeStart, TypeOK, Hold
    <2>5. \A a \in Auths : Finalizable(holds[a]) => tickPc' = "finalizing"
      BY <1>8 DEF FinalizeStart
    <2>6. tickPc' # "submitting"
      BY <1>8 DEF FinalizeStart
    <2> QED BY <2>1, <2>2, <2>3, <2>4, <2>5, <2>6 DEF BatchInv
  <1>9. ASSUME NEW tx \in net, ExecuteTransaction(tx) \/ DropTransaction(tx)
        PROVE  BatchInv'
    <2>1. /\ UNCHANGED <<tickPc, flushSlot, flushAt, now, holds>>
          /\ net' = net \ {tx}
      BY <1>9 DEF ExecuteTransaction, DropTransaction
    <2>2. sub' = sub \/ (/\ tx.cur
                       /\ \E o \in Outcomes :
                             sub' = [sub EXCEPT ![tx.auth] = o])
      BY <1>9 DEF ExecuteTransaction, DropTransaction, ExecuteSubmit,
                  ExecuteFinalize, Report, Outcomes
    <2>3. tx.auth \in Auths
      BY DEF TypeOK, Tx
    <2>4. \A b \in Auths : sub'[b] = "none" <=> sub[b] = "none"
      BY <2>2, <2>3 DEF Outcomes, BatchInv, TypeOK
    <2>5. ASSUME NEW x \in net', x.cur
          PROVE  x \in net /\ sub'[x.auth] = sub[x.auth]
      <3>1. x \in net /\ x # tx /\ x.auth \in Auths
        BY <2>1 DEF TypeOK, Tx
      <3>2. tx.cur => x.auth # tx.auth
        BY <2>5, <3>1 DEF BatchInv
      <3> QED BY <2>2, <3>1, <3>2 DEF TypeOK
    <2>6. \A x, y \in net' : x.cur /\ y.cur /\ x.auth = y.auth => x = y
      BY <2>5 DEF BatchInv
    <2> QED BY <2>1, <2>4, <2>5, <2>6 DEF BatchInv
  <1> QED BY <1>1, <1>2, <1>3, <1>4, <1>5, <1>6, <1>7, <1>8, <1>9
          DEF Next, HandleRequest, RunTick, RunChain

(* The batch is tracked in every reachable state.                          *)
LEMMA BatchCorrect == Spec => []BatchInv
  <1>1. Init => BatchInv
    BY DEF Init, BatchInv, Draining, NoHold, NewHold
  <1>2. TypeOK /\ ClockInv /\ BatchInv /\ [Next]_vars => BatchInv'
    BY BatchStep
  <1> QED BY <1>1, <1>2, TypeCorrect, ClockCorrect, PTL DEF Spec

-----------------------------------------------------------------------------
(* The amounts. *)

(* No step puts an amount on its way to the chain, or on the chain, that   *)
(* /settle has not reported.                                               *)
LEMMA AmountStep ==
    ASSUME TypeOK, BatchInv, AmountInv, [Next]_vars
    PROVE  AmountInv'
  <1> DEFINE Going == {"settled", "submitting", "submitted", "finalizing"}
             Reported(a) == receipts'[a].all
             HoldOK(h, a) == h.st \in Going => h.amt \in Reported(a)
             TxOK(tx) == tx.kind = "submit" => tx.amt \in Reported(tx.auth)
             ChainOK(c, a) == c.st # "none" => c.amt \in Reported(a)
  <1> USE DEF clockVars, keyVars, tickVars, chainVars
  <1>1. \A a \in Auths : receipts[a].all \subseteq Reported(a)
    <2>1. ASSUME NEW r \in Requests, SettleHold(r)
          PROVE  \A a \in Auths : receipts[a].all \subseteq Reported(a)
      BY <2>1 DEF SettleHold, TypeOK
    <2>2. (\E r \in Requests : SettleHold(r)) \/ UNCHANGED receipts
      BY DEF Next, RunTick, RunChain, HandleRequest, BeginRequest,
             BeginRequestThrows, CheckPayload, RejectRequest, PlaceHold,
             FlushStart, SendTransaction, ConfirmationTimeout, FlushResults,
             RefreshAfterFlush, FinalizeStart, FinalizeResults,
             ExecuteTransaction, DropTransaction, Tick, RevokeKey, CloseKey,
             vars
    <2> QED BY <2>1, <2>2
  <1>2. \A a \in Auths : HoldOK(holds[a], a) /\ ChainOK(chain[a], a)
    BY <1>1 DEF AmountInv, SettlesOnlyReportedAmounts
  <1>3. \A tx \in net : tx \in Tx /\ tx.auth \in Auths /\ TxOK(tx)
    BY <1>1 DEF AmountInv, TypeOK, Tx
  <1>4. \A a \in Auths : HoldOK(NoHold, a)
    BY DEF NoHold, NewHold
  <1> SUFFICES /\ \A a \in Auths : HoldOK(holds'[a], a) /\ ChainOK(chain'[a], a)
               /\ \A tx \in net' : TxOK(tx)
    BY DEF AmountInv, SettlesOnlyReportedAmounts
  <1> HIDE DEF Reported, HoldOK, TxOK, ChainOK
  <1>5. ASSUME NEW r \in Requests, PlaceHold(r) \/ SettleHold(r)
        PROVE  /\ UNCHANGED <<net, chain>>
               /\ \A a \in Auths : HoldOK(holds'[a], a)
    <2> DEFINE a == req[r].auth
    <2>1. a \in Auths /\ a \in DOMAIN holds
      BY <1>5 DEF PlaceHold, SettleHold, TypeOK, Request, IdleRequest
    <2>2. \A b \in Auths \ {a} : holds'[b] = holds[b]
      BY <1>5 DEF PlaceHold, SettleHold, TryHold, UpdateSettleAmount, TypeOK
    <2>3. CASE PlaceHold(r)
      <3>1. holds'[a].st = "held"
        BY <2>1, <2>3 DEF PlaceHold, TryHold, NewHold, TypeOK
      <3> QED BY <1>2, <1>5, <2>2, <2>3, <3>1 DEF HoldOK, PlaceHold
    <2>4. CASE SettleHold(r)
      <3>1. req[r].amt \in Reported(a)
        BY <2>1, <2>4 DEF SettleHold, Reported, TypeOK
      <3>2. holds'[a].amt = req[r].amt
        <4>1. CASE UpdateSettleAmount(a, req[r].amt)
          <5>1. holds'[a] = [[holds[a] EXCEPT !.st = "settled"]
                                EXCEPT !.amt = req[r].amt]
            BY <2>1, <4>1 DEF UpdateSettleAmount, TypeOK
          <5> QED BY <2>1, <5>1 DEF TypeOK, Hold
        <4>2. CASE holds' = [holds EXCEPT ![a] =
                               NewHold("settled", req[r].amt, req[r].until)]
          BY <2>1, <4>2 DEF TypeOK, NewHold
        <4> QED BY <2>4, <4>1, <4>2 DEF SettleHold
      <3> QED BY <1>2, <2>2, <2>4, <3>1, <3>2 DEF HoldOK, SettleHold
    <2> QED BY <1>5, <2>3, <2>4
  <1>6. ASSUME FlushStart \/ FlushResults \/ FinalizeStart
               \/ FinalizeResults
        PROVE  /\ UNCHANGED <<net, chain>>
               /\ \A a \in Auths : HoldOK(holds'[a], a)
    <2> SUFFICES ASSUME NEW a \in Auths
                 PROVE  HoldOK(holds'[a], a)
      BY <1>6 DEF FlushStart, FlushResults, FinalizeStart, FinalizeResults
    <2>1. holds[a] \in Hold
      BY DEF TypeOK
    <2>2. CASE holds'[a] = NoHold
      BY <1>4, <2>2
    <2>3. CASE holds'[a] = holds[a]
      BY <1>2, <2>3
    <2>4. CASE holds[a].st \in Going /\ holds'[a].amt = holds[a].amt
      BY <1>2, <2>4 DEF HoldOK
    <2>5. CASE FlushStart
      BY <2>1, <2>2, <2>3, <2>4, <2>5 DEF FlushStart, SweepAndDrain, Hold
    <2>6. CASE FlushResults
      <3>1. holds'[a] = holds[a] \/ (/\ holds[a].st = "submitting"
               /\ holds'[a] = AfterSubmit(holds[a], sub[a]))
        BY <2>6 DEF FlushResults, InBatch
      <3>2. AfterSubmit(holds[a], sub[a]).amt = holds[a].amt
            \/ AfterSubmit(holds[a], sub[a]) = NoHold
        BY <2>1 DEF AfterSubmit, Hold
      <3> QED BY <3>1, <3>2, <2>2, <2>3, <2>4
    <2>7. CASE FinalizeStart
      BY <2>1, <2>3, <2>4, <2>7 DEF FinalizeStart, Finalizable, Hold
    <2>8. CASE FinalizeResults
      BY <2>1, <2>2, <2>3, <2>4, <2>8
      DEF FinalizeResults, AfterFinalize, InBatch, Hold
    <2> QED BY <1>6, <2>5, <2>6, <2>7, <2>8
  <1>7. ASSUME NEW a \in Auths, SendTransaction(a) \/ ConfirmationTimeout(a)
        PROVE  UNCHANGED <<holds, chain>> /\ \A tx \in net' : TxOK(tx)
    <2>1. UNCHANGED <<holds, chain>>
      BY <1>7 DEF SendTransaction, ConfirmationTimeout
    <2>2. \A tx \in Tx : TxOK(tx) => TxOK(Orphan(tx))
      BY DEF TxOK, Orphan, Tx
    <2>3. CASE SendTransaction(a)
      <3> DEFINE tx == [kind |-> IF tickPc = "submitting" THEN "submit"
                                                          ELSE "finalize",
                        auth |-> a, amt |-> holds[a].amt, cur |-> TRUE]
      <3>1. tx \in Tx /\ TxOK(tx)
        BY <1>2, <2>3 DEF SendTransaction, BatchInv, Draining, HoldOK, TxOK,
                          TypeOK, Hold, Tx
      <3> HIDE DEF tx
      <3>2. net' \subseteq net \cup {tx, Orphan(tx)}
        BY <2>3 DEF SendTransaction, tx
      <3> QED BY <1>3, <2>1, <2>2, <3>1, <3>2
    <2>4. CASE ConfirmationTimeout(a)
      BY <1>3, <2>1, <2>2, <2>4 DEF ConfirmationTimeout, Current
    <2> QED BY <1>7, <2>3, <2>4
  <1>8. ASSUME NEW tx \in net, ExecuteTransaction(tx) \/ DropTransaction(tx)
        PROVE  /\ UNCHANGED holds /\ net' \subseteq net
               /\ \A a \in Auths : ChainOK(chain'[a], a)
    <2>1. UNCHANGED holds /\ net' \subseteq net
      BY <1>8 DEF ExecuteTransaction, DropTransaction
    <2>2. tx \in Tx /\ tx.auth \in Auths /\ TxOK(tx)
      BY <1>3
    <2>3. CASE UNCHANGED chain
      BY <1>2, <2>1, <2>3
    <2>4. CASE ExecuteSubmit(tx) /\ ~UNCHANGED chain
      <3>1. /\ tx.kind = "submit"
            /\ chain' = [chain EXCEPT ![tx.auth] = [st |-> "pending",
                                           amt |-> tx.amt, at |-> slot]]
        BY <2>4 DEF ExecuteSubmit
      <3> QED BY <1>2, <2>1, <2>2, <3>1 DEF TxOK, ChainOK, TypeOK
    <2>5. CASE ExecuteFinalize(tx) /\ ~UNCHANGED chain
      <3>1. /\ chain[tx.auth].st = "pending"
            /\ chain' = [chain EXCEPT ![tx.auth].st = "finalized"]
        BY <2>5 DEF ExecuteFinalize
      <3> QED BY <1>2, <2>1, <2>2, <3>1 DEF ChainOK, TypeOK, Settlement
    <2> QED BY <1>8, <2>1, <2>3, <2>4, <2>5
            DEF ExecuteTransaction, DropTransaction
  <1>9. CASE \/ Tick \/ RevokeKey \/ CloseKey \/ RefreshAfterFlush
             \/ UNCHANGED vars
             \/ \E r \in Requests : \/ BeginRequest(r)
                                    \/ BeginRequestThrows(r)
                                    \/ CheckPayload(r)
                                    \/ RejectRequest(r)
    <2>1. UNCHANGED <<holds, net, chain>>
      BY <1>9 DEF Tick, RevokeKey, CloseKey, RefreshAfterFlush, BeginRequest,
                  BeginRequestThrows, CheckPayload, RejectRequest, vars
    <2> QED BY <1>2, <1>3, <2>1
  <1> QED BY <1>2, <1>3, <1>5, <1>6, <1>7, <1>8, <1>9
          DEF Next, HandleRequest, RunTick, RunChain

(* Whatever is lost, delayed or retried, the chain never settles an amount *)
(* that no successful /settle reported.                                    *)
THEOREM SettlesOnlyReported == Spec => []SettlesOnlyReportedAmounts
  <1>1. Init => AmountInv
    BY DEF Init, AmountInv, SettlesOnlyReportedAmounts, NoHold, NewHold,
           NoSettlement
  <1>2. TypeOK /\ BatchInv /\ AmountInv /\ [Next]_vars => AmountInv'
    BY AmountStep
  <1>3. AmountInv => SettlesOnlyReportedAmounts
    BY DEF AmountInv
  <1> QED BY <1>1, <1>2, <1>3, TypeCorrect, BatchCorrect, PTL DEF Spec

-----------------------------------------------------------------------------
(* The refund timeout. *)

(* A settlement that is on chain stays there, at the slot it landed in:    *)
(* while it is pending the program refuses another one, and once it is     *)
(* finalized the authorization has expired.                                *)
LEMMA ChainStable ==
    ASSUME TypeOK, ChainInv, [Next]_vars, NEW a \in Auths,
           chain[a].st # "none"
    PROVE  chain'[a].st # "none" /\ chain'[a].at = chain[a].at
  <1> USE DEF clockVars, keyVars, tickVars, chainVars
  <1>1. CASE UNCHANGED chain
    BY <1>1
  <1>2. ASSUME NEW tx \in net, ExecuteSubmit(tx), ~UNCHANGED chain
        PROVE  chain'[a] = chain[a]
    <2>1. tx.auth \in Auths
      BY DEF TypeOK, Tx
    <2>2. /\ slot < ExpiresAt[tx.auth] /\ chain[tx.auth].st # "pending"
          /\ chain' = [chain EXCEPT ![tx.auth] = [st |-> "pending",
                                           amt |-> tx.amt, at |-> slot]]
      BY <1>2 DEF ExecuteSubmit, ProgramAccepts
    <2>3. chain[tx.auth].st # "finalized"
      <3>1. chain[tx.auth].st = "finalized" => ExpiresAt[tx.auth] <= slot
        BY <2>1 DEF ChainInv
      <3>2. ExpiresAt[tx.auth] \in Nat /\ slot \in Nat
        BY <2>1, PayloadsAreNumeric DEF TypeOK
      <3> QED BY <2>2, <3>1, <3>2
    <2>4. tx.auth # a
      BY <2>1, <2>2, <2>3 DEF TypeOK, Settlement
    <2> QED BY <2>1, <2>2, <2>4 DEF TypeOK
  <1>3. ASSUME NEW tx \in net, ExecuteFinalize(tx), ~UNCHANGED chain
        PROVE  chain'[a].st # "none" /\ chain'[a].at = chain[a].at
    BY <1>3 DEF ExecuteFinalize, TypeOK, Settlement
  <1>4. \/ UNCHANGED chain
        \/ \E tx \in net : ExecuteSubmit(tx) \/ ExecuteFinalize(tx)
    BY DEF Next, RunTick, RunChain, HandleRequest, BeginRequest,
           BeginRequestThrows, CheckPayload, RejectRequest, PlaceHold,
           SettleHold, FlushStart, SendTransaction, ConfirmationTimeout,
           FlushResults, RefreshAfterFlush, FinalizeStart, FinalizeResults,
           ExecuteTransaction, DropTransaction, Tick, RevokeKey, CloseKey,
           vars
  <1> QED BY <1>1, <1>2, <1>3, <1>4

(* A settlement can land only while its authorization is valid and can be  *)
(* finalized only when it has expired.                                     *)
LEMMA LandedStep ==
    ASSUME TypeOK, TypeOK', ChainInv, [Next]_vars, NEW a \in Auths
    PROVE  /\ chain'[a].st = "pending"
                 => ExpiresAt[a] <= chain'[a].at + RefundTimeout
           /\ chain'[a].st = "finalized" => ExpiresAt[a] <= slot'
  <1> USE ParametersAreSlots, PayloadsAreNumeric
      DEF clockVars, keyVars, tickVars, chainVars
  <1>1. slot <= slot' /\ slot \in Nat /\ slot' \in Nat /\ ExpiresAt[a] \in Nat
    BY Monotone DEF TypeOK
  <1>2. CASE chain'[a] = chain[a]
    BY <1>1, <1>2 DEF ChainInv
  <1>3. ASSUME NEW tx \in net, ExecuteSubmit(tx), chain'[a] # chain[a]
        PROVE  /\ ExpiresAt[a] <= chain'[a].at + RefundTimeout
               /\ chain'[a].st = "pending"
    BY <1>3 DEF ExecuteSubmit, ProgramAccepts, TypeOK, Tx
  <1>4. ASSUME NEW tx \in net, ExecuteFinalize(tx), chain'[a] # chain[a]
        PROVE  ExpiresAt[a] <= slot /\ chain'[a].st = "finalized"
    <2>1. /\ tx.auth = a /\ chain[a].st = "pending"
          /\ chain' = [chain EXCEPT ![a].st = "finalized"]
          /\ slot >= chain[a].at + RefundTimeout
      BY <1>4 DEF ExecuteFinalize, TypeOK, Tx
    <2>2. chain[a].at \in Nat /\ chain'[a].st = "finalized"
      BY <2>1 DEF TypeOK, Settlement
    <2> QED BY <1>1, <2>1, <2>2 DEF ChainInv
  <1>5. \/ UNCHANGED chain
        \/ \E tx \in net : ExecuteSubmit(tx) \/ ExecuteFinalize(tx)
    BY DEF Next, RunTick, RunChain, HandleRequest, BeginRequest,
           BeginRequestThrows, CheckPayload, RejectRequest, PlaceHold,
           SettleHold, FlushStart, SendTransaction, ConfirmationTimeout,
           FlushResults, RefreshAfterFlush, FinalizeStart, FinalizeResults,
           ExecuteTransaction, DropTransaction, Tick, RevokeKey, CloseKey,
           vars
  <1> QED BY <1>1, <1>2, <1>3, <1>4, <1>5

(* A transaction of the batch that is reported as confirmed has landed     *)
(* within ConfirmWindow of the start of flush().                           *)
LEMMA ConfirmedStep ==
    ASSUME TypeOK, TypeOK', ClockInv, BatchInv, ChainInv, [Next]_vars,
           NEW a \in Auths, tickPc' = "submitting", sub'[a] = "ok"
    PROVE  /\ chain'[a].st # "none"
           /\ chain'[a].at <= flushAt' + ConfirmWindow + Jitter
  <1> USE ParametersAreSlots DEF clockVars, keyVars, tickVars, chainVars
  <1>1. CASE UNCHANGED <<tickPc, flushAt>> /\ sub[a] = "ok"
    BY <1>1, ChainStable DEF ChainInv
  <1>2. ASSUME NEW tx \in net, ExecuteTransaction(tx), sub[a] # "ok"
        PROVE  /\ UNCHANGED flushAt
               /\ chain'[a].st # "none"
               /\ chain'[a].at <= flushAt + ConfirmWindow + Jitter
    <2>1. /\ UNCHANGED <<tickPc, flushAt>>
          /\ tx.cur /\ tx.auth = a
      BY <1>2 DEF ExecuteTransaction, ExecuteSubmit, ExecuteFinalize, Report,
                  TypeOK, Tx
    <2>2. tx.kind = "submit"
      BY <2>1 DEF BatchInv
    <2>3. chain'[a].st = "pending" /\ chain'[a].at = slot
      BY <1>2, <2>1, <2>2 DEF ExecuteTransaction, ExecuteSubmit,
                              ExecuteFinalize, Report, TypeOK
    <2>4. slot <= flushAt + ConfirmWindow + Jitter
      BY <2>1 DEF BatchInv, ClockInv, Near, TypeOK
    <2> QED BY <2>1, <2>3, <2>4
  <1>3. \/ UNCHANGED <<tickPc, flushAt>> /\ sub[a] = "ok"
        \/ /\ sub[a] # "ok"
           /\ \E tx \in net : ExecuteTransaction(tx)
    <2>1. CASE UNCHANGED <<tickPc, flushAt, sub>>
      BY <2>1
    <2>2. CASE FlushStart \/ FlushResults \/ FinalizeStart \/ FinalizeResults
      BY <2>2 DEF FlushStart, FlushResults, FinalizeStart, FinalizeResults
    <2>3. CASE RefreshAfterFlush
      BY <2>3 DEF RefreshAfterFlush
    <2>4. ASSUME NEW b \in Auths, SendTransaction(b) \/ ConfirmationTimeout(b)
          PROVE  UNCHANGED <<tickPc, flushAt>> /\ sub[a] = "ok"
      BY <2>4 DEF SendTransaction, ConfirmationTimeout, Settle, TypeOK
    <2>5. ASSUME NEW tx \in net, ExecuteTransaction(tx)
          PROVE  UNCHANGED <<tickPc, flushAt>>
      BY <2>5 DEF ExecuteTransaction
    <2>6. \/ UNCHANGED <<tickPc, flushAt, sub>>
          \/ RunTick
          \/ \E tx \in net : ExecuteTransaction(tx)
      BY DEF Next, RunChain, HandleRequest, BeginRequest, BeginRequestThrows,
             CheckPayload, RejectRequest, PlaceHold, SettleHold,
             DropTransaction, Tick, RevokeKey, CloseKey, vars
    <2> QED BY <2>1, <2>2, <2>3, <2>4, <2>5, <2>6 DEF RunTick
  <1> QED BY <1>1, <1>2, <1>3

(* The settlement of a submitted hold is on chain, and not much later than *)
(* the slot markSubmitted() recorded.                                      *)
LEMMA SubmittedStep ==
    ASSUME TypeOK, TypeOK', BatchInv, ChainInv, [Next]_vars,
           NEW a \in Auths, holds'[a].st \in {"submitted", "finalizing"}
    PROVE  /\ chain'[a].st # "none"
           /\ chain'[a].at <= holds'[a].subAt + ConfirmWindow + 2 * Jitter
  <1> USE ParametersAreSlots DEF clockVars, keyVars, tickVars, chainVars
  <1> DEFINE Landed == {"submitted", "finalizing"}
  <1>t. holds[a] \in Hold /\ chain[a] \in Settlement
    BY DEF TypeOK
  <1>1. CASE holds[a].st \in Landed /\ holds'[a].subAt = holds[a].subAt
    <2>1. /\ chain[a].st # "none"
          /\ chain[a].at <= holds[a].subAt + ConfirmWindow + 2 * Jitter
      BY <1>1 DEF ChainInv
    <2> QED BY <1>1, <2>1, ChainStable
  <1>2. CASE FlushResults /\ holds[a].st \notin Landed
    <2>1. /\ holds[a].st = "submitting" /\ tickPc = "submitting"
          /\ holds'[a] = AfterSubmit(holds[a], sub[a])
      BY <1>2 DEF FlushResults, InBatch
    <2>2. sub[a] = "ok" /\ holds'[a].subAt = flushSlot
      BY <1>t, <2>1 DEF AfterSubmit, NoHold, NewHold, Hold
    <2>3. /\ chain[a].st # "none"
          /\ chain[a].at <= flushAt + ConfirmWindow + Jitter
          /\ flushAt <= flushSlot + Jitter
      BY <2>1, <2>2 DEF ChainInv, BatchInv
    <2>4. /\ chain[a].at \in Nat /\ flushAt \in Nat /\ flushSlot \in Int
      BY <1>t DEF Settlement, TypeOK
    <2>5. chain[a].at <= flushSlot + ConfirmWindow + 2 * Jitter
      BY <2>3, <2>4
    <2> QED BY <2>2, <2>3, <2>5, ChainStable
  <1>3. \/ holds[a].st \in Landed /\ holds'[a].subAt = holds[a].subAt
        \/ FlushResults /\ holds[a].st \notin Landed
    <2>1. CASE UNCHANGED holds
      BY <2>1
    <2>2. ASSUME NEW r \in Requests, PlaceHold(r)
          PROVE  holds'[a] = holds[a]
      BY <2>2, <1>t DEF PlaceHold, TryHold, NewHold, TypeOK
    <2>3. ASSUME NEW r \in Requests, SettleHold(r)
          PROVE  holds'[a] = holds[a]
      <3>1. CASE UpdateSettleAmount(req[r].auth, req[r].amt)
        BY <3>1, <1>t DEF UpdateSettleAmount, TypeOK, Hold
      <3>2. CASE holds' = [holds EXCEPT ![req[r].auth] =
                             NewHold("settled", req[r].amt, req[r].until)]
        BY <3>2, <1>t DEF TypeOK, NewHold
      <3> QED BY <2>3, <3>1, <3>2 DEF SettleHold
    <2>4. CASE FlushStart
      BY <1>t, <2>4 DEF FlushStart, SweepAndDrain, NoHold, NewHold, Hold
    <2>5. CASE FlushResults
      BY <1>t, <2>5 DEF FlushResults, InBatch
    <2>6. CASE FinalizeStart
      BY <1>t, <2>6 DEF FinalizeStart, Finalizable, Hold
    <2>7. CASE FinalizeResults
      BY <1>t, <2>7 DEF FinalizeResults, AfterFinalize, NoHold, NewHold,
                        InBatch, Hold
    <2>8. \/ UNCHANGED holds
          \/ \E r \in Requests : PlaceHold(r) \/ SettleHold(r)
          \/ FlushStart \/ FlushResults \/ FinalizeStart \/ FinalizeResults
      BY DEF Next, RunTick, RunChain, HandleRequest, BeginRequest,
             BeginRequestThrows, CheckPayload, RejectRequest,
             SendTransaction, ConfirmationTimeout, RefreshAfterFlush,
             ExecuteTransaction, DropTransaction, Tick, RevokeKey, CloseKey,
             vars
    <2> QED BY <2>1, <2>2, <2>3, <2>4, <2>5, <2>6, <2>7, <2>8
  <1> QED BY <1>1, <1>2, <1>3

(* The chain and what the facilitator knows of it agree.                   *)
LEMMA ChainCorrect == Spec => []ChainInv
  <1>1. Init => ChainInv
    <2> SUFFICES ASSUME Init PROVE ChainInv
      OBVIOUS
    <2>1. /\ tickPc = "idle"
          /\ \A a \in Auths : holds[a].st = "none" /\ chain[a].st = "none"
      BY DEF Init, NoHold, NewHold, NoSettlement
    <2> QED BY <2>1 DEF ChainInv
  <1>2. TypeOK /\ TypeOK' /\ ClockInv /\ BatchInv /\ ChainInv /\ [Next]_vars
           => ChainInv'
    <2> SUFFICES ASSUME TypeOK, TypeOK', ClockInv, BatchInv, ChainInv,
                        [Next]_vars
                 PROVE  ChainInv'
      OBVIOUS
    <2> SUFFICES ASSUME NEW a \in Auths
        PROVE /\ chain'[a].st = "pending"
                    => ExpiresAt[a] <= chain'[a].at + RefundTimeout
              /\ chain'[a].st = "finalized" => ExpiresAt[a] <= slot'
              /\ tickPc' = "submitting" /\ sub'[a] = "ok" =>
                    /\ chain'[a].st # "none"
                    /\ chain'[a].at <= flushAt' + ConfirmWindow + Jitter
              /\ holds'[a].st \in {"submitted", "finalizing"} =>
                    /\ chain'[a].st # "none"
                    /\ chain'[a].at
                          <= holds'[a].subAt + ConfirmWindow + 2 * Jitter
      BY DEF ChainInv
    <2> QED BY LandedStep, ConfirmedStep, SubmittedStep
  <1> QED BY <1>1, <1>2, TypeCorrect, ClockCorrect, BatchCorrect, PTL
          DEF Spec

(* finalizeReady() never tries to finalize a settlement that is not on     *)
(* chain, or before its refund timeout has passed on chain: the buffer     *)
(* added to the timeout covers the slots between the currentSlot flush()   *)
(* records and the slot the transaction lands in.                          *)
THEOREM FinalizesAfterTimeout == Spec => FinalizesAfterRefundTimeout
  <1>1. ASSUME TypeOK, ClockInv, BatchInv, ChainInv, [Next]_vars,
               NEW a \in Auths,
               holds[a].st # "finalizing", holds'[a].st = "finalizing"
        PROVE  chain[a].st # "none" /\ slot >= chain[a].at + RefundTimeout
    <2>1. CASE FinalizeStart
      <3>1. Finalizable(holds[a])
        BY <1>1, <2>1 DEF FinalizeStart
      <3>2. /\ holds[a].st = "submitted"
            /\ now + skew >= holds[a].subAt + (RefundTimeout + Buffer)
        BY <3>1 DEF Finalizable, GetRefundTimeout, EstimateCurrentSlot
      <3>3. /\ chain[a].st # "none"
            /\ chain[a].at <= holds[a].subAt + ConfirmWindow + 2 * Jitter
        BY <1>1, <3>2 DEF ChainInv
      <3>4. /\ holds[a].subAt \in Int /\ chain[a].at \in Nat
            /\ now \in Nat /\ slot \in Nat /\ skew \in Int
            /\ now <= slot + Jitter /\ skew <= Jitter
        BY <1>1, ParametersAreSlots
        DEF TypeOK, Hold, Settlement, ClockInv, Near
      <3> QED BY <3>2, <3>3, <3>4, ParametersAreSlots, BufferCovers
    <2>2. CASE ~FinalizeStart
      <3> USE DEF clockVars, keyVars, tickVars, chainVars
      <3>t. holds[a] \in Hold
        BY <1>1 DEF TypeOK
      <3>1. CASE UNCHANGED holds
        BY <1>1, <3>1
      <3>2. ASSUME NEW r \in Requests, PlaceHold(r) \/ SettleHold(r)
            PROVE  FALSE
        <4>1. CASE PlaceHold(r)
          BY <1>1, <4>1 DEF PlaceHold, TryHold, TypeOK, NewHold
        <4>2. CASE UpdateSettleAmount(req[r].auth, req[r].amt)
          BY <1>1, <4>2 DEF UpdateSettleAmount, TypeOK, Hold
        <4>3. CASE holds' = [holds EXCEPT ![req[r].auth] =
                               NewHold("settled", req[r].amt, req[r].until)]
          BY <1>1, <4>3 DEF TypeOK, NewHold
        <4> QED BY <3>2, <4>1, <4>2, <4>3 DEF SettleHold
      <3>3. CASE FlushStart
        BY <1>1, <3>t, <3>3 DEF FlushStart, SweepAndDrain, NoHold, NewHold,
                                Hold
      <3>4. CASE FlushResults
        <4>1. AfterSubmit(holds[a], sub[a]).st # "finalizing"
          BY <3>t DEF AfterSubmit, NoHold, NewHold, Hold
        <4> QED BY <1>1, <3>4, <4>1 DEF FlushResults
      <3>5. CASE FinalizeResults
        BY <1>1, <3>t, <3>5 DEF FinalizeResults, InBatch
      <3> QED BY <1>1, <2>2, <3>1, <3>2, <3>3, <3>4, <3>5
              DEF Next, RunTick, RunChain, HandleRequest, BeginRequest,
                  BeginRequestThrows, CheckPayload, RejectRequest,
                  SendTransaction, ConfirmationTimeout, RefreshAfterFlush,
                  ExecuteTransaction, DropTransaction, Tick, RevokeKey,
                  CloseKey, vars
    <2> QED BY <2>1, <2>2
  <1>2. TypeOK /\ ClockInv /\ BatchInv /\ ChainInv /\ [Next]_vars
           => [\A a \in Auths :
                 holds[a].st # "finalizing" /\ holds'[a].st = "finalizing"
                    => /\ chain[a].st # "none"
                       /\ slot >= chain[a].at + RefundTimeout]_vars
    BY <1>1
  <1> QED BY <1>2, TypeCorrect, ClockCorrect, BatchCorrect, ChainCorrect, PTL
          DEF Spec, FinalizesAfterRefundTimeout

-----------------------------------------------------------------------------
(* The chain that is not lossy: what /settle reported last, and replays.   *)

(* A request that passed the checks carries an authorization that the      *)
(* chain still takes: the clock does not tick before tryHold answers.      *)
CheckedInv ==
    \A r \in Requests : req[r].pc = "checked" => slot < ExpiresAt[req[r].auth]

Going == {"settled", "submitting", "submitted", "finalizing"}

(* How a hold h, the outcome o of its transaction, its settlement c on     *)
(* chain and the last reported amount agree: nothing settles before flush()*)
(* submits the hold, and the hold is not forgotten before it is finalized. *)
Agree(h, o, c, last) ==
    /\ h.st \in Reserved => c.st = "none"
    /\ h.st = "submitting" /\ o # "ok" => c.st = "none"
    /\ h.st = "none" => c.st # "pending"
    /\ h.st = "finalizing" /\ o = "ok" => c.st = "finalized"
    /\ h.st \in Going => h.amt = last
    /\ c.st # "none" => c.amt = last

ReplayInv ==
    /\ \A a \in Auths : Agree(holds[a], sub[a], chain[a], receipts[a].last)
    /\ \A tx \in net :
          tx.cur /\ (tx.kind = "submit" => tx.amt = receipts[tx.auth].last)

(* A deadline in the future leaves Buffer slots of the authorization.      *)
LEMMA CheckedStep ==
    ASSUME TypeOK, ClockInv, KeyInv, CheckedInv, [Next]_vars
    PROVE  CheckedInv'
  <1> USE DEF clockVars, keyVars, tickVars, chainVars
  <1>1. ASSUME NEW r \in Requests, CheckPayload(r)
        PROVE  CheckedInv'
    <2> DEFINE a == req[r].auth
               s == EstimateCurrentSlot
               d == ComputeHoldDeadline(CachedSessionKey, ExpiresAt[a], s)
    <2>1. a \in Auths /\ req[r] \in Request /\ req[r].pc = "snapshot"
      BY <1>1 DEF CheckPayload, TypeOK, Request, IdleRequest
    <2>2. slot' = slot
      BY <1>1 DEF CheckPayload
    <2>3. CASE req' = [req EXCEPT ![r] = IdleRequest]
      BY <2>2, <2>3 DEF CheckedInv, TypeOK, IdleRequest
    <2>4. CASE /\ PayloadAcceptable(a, CachedSessionKey, s)
               /\ req' = [req EXCEPT ![r].pc = "checked", ![r].until = d]
      <3>1. d + Buffer <= ExpiresAt[a]
        BY <1>1, <2>1, <2>4, DeadlineSound
        DEF CheckPayload, PayloadAcceptable, DeadlineOK
      <3>2. s < d
        BY <2>4 DEF PayloadAcceptable
      <3>3. /\ slot <= s + 2 * Jitter
            /\ s \in Int /\ slot \in Nat /\ ExpiresAt[a] \in Nat
        BY <2>1, ParametersAreSlots, PayloadsAreNumeric
        DEF EstimateCurrentSlot, ClockInv, Near, TypeOK
      <3>4. d \in Int
        <4>1. CachedSessionKey \in CachedKey
          BY DEF CachedSessionKey, CachedKey, TypeOK, KeyRecord, NoKey
        <4> QED BY <3>3, <4>1, DeadlineType
      <3> HIDE DEF d, s
      <3>5. slot < ExpiresAt[a]
        BY <3>1, <3>2, <3>3, <3>4, BufferCovers, ParametersAreSlots
      <3>6. req'[r] = [[req[r] EXCEPT !.pc = "checked"] EXCEPT !.until = d]
        BY <2>4 DEF TypeOK
      <3>7. req'[r].auth = a
        BY <2>1, <3>6 DEF Request, IdleRequest
      <3>8. \A q \in Requests \ {r} : req'[q] = req[q]
        BY <2>4 DEF TypeOK
      <3> QED BY <2>2, <3>5, <3>7, <3>8 DEF CheckedInv
    <2> QED BY <1>1, <2>3, <2>4 DEF CheckPayload, Done
  <1>2. CASE Tick
    BY <1>2 DEF Tick, CheckedInv
  <1>3. ASSUME NEW r \in Requests,
               BeginRequest(r) \/ RejectRequest(r) \/ PlaceHold(r)
               \/ SettleHold(r)
        PROVE  CheckedInv'
    <2>1. slot' = slot /\ \A q \in Requests \ {r} : req'[q] = req[q]
      BY <1>3 DEF BeginRequest, RejectRequest, PlaceHold, SettleHold, Done,
                  TypeOK
    <2>2. req'[r].pc # "checked"
      BY <1>3 DEF BeginRequest, RejectRequest, PlaceHold, SettleHold, Done,
                  TypeOK, IdleRequest
    <2> QED BY <2>1, <2>2 DEF CheckedInv
  <1>4. CASE UNCHANGED <<slot, req>>
    BY <1>4 DEF CheckedInv
  <1>5. \/ UNCHANGED <<slot, req>> \/ Tick
        \/ \E r \in Requests : \/ BeginRequest(r) \/ RejectRequest(r)
                               \/ PlaceHold(r) \/ SettleHold(r)
                               \/ CheckPayload(r)
    BY DEF Next, HandleRequest, RunTick, RunChain, BeginRequestThrows,
           FlushStart, SendTransaction, ConfirmationTimeout, FlushResults,
           RefreshAfterFlush, FinalizeStart, FinalizeResults,
           ExecuteTransaction, DropTransaction, RevokeKey, CloseKey, vars
  <1> QED BY <1>1, <1>2, <1>3, <1>4, <1>5

(* Every request between its checks and its hold is in time.               *)
LEMMA CheckedCorrect == Spec => []CheckedInv
  <1>1. Init => CheckedInv
    BY DEF Init, CheckedInv, IdleRequest
  <1>2. TypeOK /\ ClockInv /\ KeyInv /\ CheckedInv /\ [Next]_vars
           => CheckedInv'
    BY CheckedStep
  <1> QED BY <1>1, <1>2, TypeCorrect, ClockCorrect, KeyCorrect, PTL DEF Spec

(* A new hold is placed only for an authorization that never settled: one  *)
(* that did is finalized, and finalized no earlier than it expires.        *)
LEMMA FreshHold ==
    ASSUME TypeOK, ChainInv, CheckedInv, ReplayInv, NEW r \in Requests,
           req[r].pc = "checked", holds[req[r].auth].st = "none"
    PROVE  chain[req[r].auth].st = "none"
  <1> DEFINE a == req[r].auth
  <1>1. a \in Auths
    BY DEF TypeOK, Request, IdleRequest
  <1>2. slot \in Nat /\ ExpiresAt[a] \in Nat /\ slot < ExpiresAt[a]
    BY <1>1, PayloadsAreNumeric DEF TypeOK, CheckedInv
  <1>3. chain[a].st # "finalized"
    BY <1>1, <1>2 DEF ChainInv
  <1>4. chain[a].st # "pending"
    BY <1>1 DEF ReplayInv, Agree
  <1> QED BY <1>1, <1>3, <1>4 DEF TypeOK, Settlement

(* No step makes the holds, the chain and the receipts disagree.           *)
LEMMA ReplayStep ==
    ASSUME ~Lossy, TypeOK, BatchInv, ChainInv, CheckedInv, ReplayInv,
           [Next]_vars
    PROVE  ReplayInv'
  <1> DEFINE Ok(a) == Agree(holds'[a], sub'[a], chain'[a], receipts'[a].last)
             TxOK(tx) == /\ tx.cur
                         /\ tx.kind = "submit"
                               => tx.amt = receipts'[tx.auth].last
  <1> USE DEF clockVars, keyVars, tickVars, chainVars
  <1>a. \A a \in Auths : Agree(holds[a], sub[a], chain[a], receipts[a].last)
    BY DEF ReplayInv
  <1>n. \A tx \in net :
           /\ tx.auth \in Auths /\ tx.cur /\ sub[tx.auth] = "wait"
           /\ tx.kind = "submit" => tx.amt = receipts[tx.auth].last
    BY DEF ReplayInv, BatchInv, TypeOK, Tx
  <1>h. \A a \in Auths : holds[a] \in Hold /\ chain[a] \in Settlement
    BY DEF TypeOK
  <1> SUFFICES (\A a \in Auths : Ok(a)) /\ \A tx \in net' : TxOK(tx)
    BY DEF ReplayInv
  <1>1. ASSUME NEW r \in Requests, PlaceHold(r) \/ SettleHold(r)
        PROVE  (\A a \in Auths : Ok(a)) /\ \A tx \in net' : TxOK(tx)
    <2> DEFINE a == req[r].auth
    <2>1. a \in Auths /\ req[r].pc = "checked"
      BY <1>1 DEF PlaceHold, SettleHold, TypeOK, Request, IdleRequest
    <2>2. UNCHANGED <<sub, net, chain>>
      BY <1>1 DEF PlaceHold, SettleHold
    <2>3. \A b \in Auths \ {a} : /\ holds'[b] = holds[b]
                                 /\ receipts'[b] = receipts[b]
      BY <1>1 DEF PlaceHold, SettleHold, TryHold, UpdateSettleAmount, TypeOK
    <2>4. holds[a].st \in Reserved \cup {"none"}
      BY <1>1 DEF PlaceHold, SettleHold, TryHold, UpdateSettleAmount
    <2>5. chain[a].st = "none"
      <3>1. holds[a].st \in Reserved => chain[a].st = "none"
        BY <1>a, <2>1 DEF Agree
      <3> QED BY <2>1, <2>4, <3>1, FreshHold
    <2>6. /\ holds'[a].st \in Reserved
          /\ holds'[a].st = "settled" => holds'[a].amt = receipts'[a].last
      <3>1. CASE PlaceHold(r)
        BY <2>1, <3>1 DEF PlaceHold, TryHold, NewHold, Reserved, TypeOK
      <3>2. CASE SettleHold(r)
        <4>1. receipts'[a].last = req[r].amt
          BY <2>1, <3>2 DEF SettleHold, TypeOK
        <4>2. CASE UpdateSettleAmount(a, req[r].amt)
          <5>1. holds'[a] = [[holds[a] EXCEPT !.st = "settled"]
                                EXCEPT !.amt = req[r].amt]
            BY <2>1, <4>2 DEF UpdateSettleAmount, TypeOK
          <5> QED BY <1>h, <2>1, <4>1, <5>1 DEF Hold, Reserved
        <4>3. CASE holds' = [holds EXCEPT ![a] =
                               NewHold("settled", req[r].amt, req[r].until)]
          BY <2>1, <4>1, <4>3 DEF TypeOK, NewHold, Reserved
        <4> QED BY <3>2, <4>2, <4>3 DEF SettleHold
      <3> QED BY <1>1, <3>1, <3>2
    <2>7. Ok(a)
      BY <2>1, <2>2, <2>5, <2>6 DEF Agree, Reserved, Going
    <2>8. sub[a] = "none"
      BY <2>1, <2>4 DEF BatchInv, Draining, Reserved
    <2>9. \A tx \in net : TxOK(tx)
      BY <1>n, <2>3, <2>8
    <2> QED BY <1>a, <2>1, <2>2, <2>3, <2>7, <2>9
  <1>2. ASSUME FlushStart \/ FlushResults \/ FinalizeStart
               \/ FinalizeResults
        PROVE  (\A a \in Auths : Ok(a)) /\ \A tx \in net' : TxOK(tx)
    <2>1. UNCHANGED <<net, chain, receipts>>
      BY <1>2 DEF FlushStart, FlushResults, FinalizeStart, FinalizeResults
    <2>2. ASSUME NEW a \in Auths
          PROVE  Ok(a)
      <3>1. /\ holds[a] \in Hold /\ chain[a] \in Settlement
            /\ Agree(holds[a], sub[a], chain[a], receipts[a].last)
        BY <1>a, <1>h
      <3>2. /\ sub[a] = "none" <=> holds[a].st \notin Draining
            /\ holds[a].st \in Draining => holds[a].st = tickPc
        BY DEF BatchInv
      <3>3. CASE FlushStart
        <4>1. /\ holds'[a] = SweepAndDrain(holds[a], EstimateCurrentSlot)
              /\ holds[a].st \notin Draining
              /\ sub'[a] # "ok"
          BY <3>2, <3>3 DEF FlushStart, Draining
        <4> QED BY <2>1, <3>1, <4>1
                DEF Agree, SweepAndDrain, NoHold, NewHold, Hold, Reserved,
                    Going, Draining
      <3>4. CASE FlushResults
        <4>1. CASE holds[a].st = "submitting"
          <5>1. holds'[a] = AfterSubmit(holds[a], sub[a]) /\ sub'[a] = "none"
            BY <3>4, <4>1 DEF FlushResults, InBatch
          <5>2. sub[a] # "ok" => chain[a].st = "none"
            BY <3>1, <4>1 DEF Agree
          <5>3. \/ /\ sub[a] = "ok" /\ holds'[a].st = "submitted"
                   /\ holds'[a].amt = holds[a].amt
                \/ sub[a] # "ok" /\ holds'[a] = NoHold
                \/ /\ sub[a] # "ok" /\ holds'[a].st = "settled"
                   /\ holds'[a].amt = holds[a].amt
            BY <3>1, <5>1 DEF AfterSubmit, Hold
          <5> QED BY <2>1, <3>1, <4>1, <5>1, <5>2, <5>3
                  DEF Agree, NoHold, NewHold, Reserved, Going
        <4>2. CASE holds[a].st # "submitting"
          BY <2>1, <3>1, <3>2, <3>4, <4>2
          DEF FlushResults, InBatch, Agree, Draining
        <4> QED BY <4>1, <4>2
      <3>5. CASE FinalizeStart
        <4>1. /\ holds'[a] = IF Finalizable(holds[a])
                               THEN [holds[a] EXCEPT !.st = "finalizing"]
                               ELSE holds[a]
              /\ holds[a].st \notin Draining /\ sub'[a] # "ok"
          BY <3>2, <3>5 DEF FinalizeStart, Draining
        <4>2. CASE Finalizable(holds[a])
          <5>1. /\ holds'[a].st = "finalizing" /\ holds[a].st = "submitted"
                /\ holds'[a].amt = holds[a].amt
            BY <3>1, <4>1, <4>2 DEF Finalizable, Hold
          <5> QED BY <2>1, <3>1, <4>1, <5>1 DEF Agree, Reserved, Going
        <4>3. CASE ~Finalizable(holds[a])
          BY <2>1, <3>1, <4>1, <4>3 DEF Agree, Draining
        <4> QED BY <4>2, <4>3
      <3>6. CASE FinalizeResults
        <4>1. CASE holds[a].st = "finalizing"
          <5>1. /\ holds'[a] = AfterFinalize(holds[a], sub[a])
                /\ sub'[a] = "none"
            BY <3>6, <4>1 DEF FinalizeResults, InBatch
          <5> QED BY <2>1, <3>1, <4>1, <5>1
                  DEF AfterFinalize, Agree, NoHold, NewHold, Hold, Reserved,
                      Going
        <4>2. CASE holds[a].st # "finalizing"
          BY <2>1, <3>1, <3>2, <3>6, <4>2
          DEF FinalizeResults, InBatch, Agree, Draining
        <4> QED BY <4>1, <4>2
      <3> QED BY <1>2, <3>3, <3>4, <3>5, <3>6
    <2> QED BY <1>n, <2>1, <2>2
  <1>3. ASSUME NEW b \in Auths, SendTransaction(b) \/ ConfirmationTimeout(b)
        PROVE  (\A a \in Auths : Ok(a)) /\ \A tx \in net' : TxOK(tx)
    <2>1. UNCHANGED <<holds, chain, receipts, tickPc>>
      BY <1>3 DEF SendTransaction, ConfirmationTimeout
    <2>2. /\ sub[b] # "ok" /\ sub'[b] # "ok"
          /\ \A a \in Auths \ {b} : sub'[a] = sub[a]
      BY <1>3 DEF SendTransaction, ConfirmationTimeout, Settle, TypeOK
    <2>3. \A a \in Auths : Ok(a)
      BY <1>a, <2>1, <2>2 DEF Agree
    <2>4. CASE ConfirmationTimeout(b)
      BY <1>n, <2>1, <2>3, <2>4 DEF ConfirmationTimeout
    <2>5. CASE SendTransaction(b)
      <3> DEFINE tx == [kind |-> IF tickPc = "submitting" THEN "submit"
                                                          ELSE "finalize",
                        auth |-> b, amt |-> holds[b].amt, cur |-> TRUE]
      <3>1. net' \subseteq net \cup {tx}
        BY <2>5 DEF SendTransaction
      <3>2. holds[b].st \in Draining
        BY <2>5 DEF SendTransaction, BatchInv
      <3>3. holds[b].amt = receipts'[b].last
        BY <1>a, <2>1, <3>2 DEF Agree, Draining, Going
      <3>4. TxOK(tx)
        BY <3>3
      <3> HIDE DEF tx
      <3> QED BY <1>n, <2>1, <2>3, <3>1, <3>4
    <2> QED BY <1>3, <2>4, <2>5
  <1>4. ASSUME NEW tx \in net, DropTransaction(tx)
        PROVE  (\A a \in Auths : Ok(a)) /\ \A t \in net' : TxOK(t)
    BY <1>4, <1>a, <1>n DEF DropTransaction
  <1>5. ASSUME NEW tx \in net, ExecuteTransaction(tx)
        PROVE  (\A a \in Auths : Ok(a)) /\ \A t \in net' : TxOK(t)
    <2> DEFINE b == tx.auth
    <2>1. UNCHANGED <<holds, receipts>> /\ net' \subseteq net
      BY <1>5 DEF ExecuteTransaction
    <2>2. /\ b \in Auths /\ tx.cur /\ sub[b] = "wait"
          /\ tx.kind = "submit" => tx.amt = receipts[b].last
      BY <1>n
    <2>3. /\ holds[b].st \in Draining /\ holds[b].st = tickPc
          /\ tx.kind = "submit" <=> tickPc = "submitting"
      BY <2>2 DEF BatchInv
    <2>4. \A a \in Auths \ {b} : sub'[a] = sub[a] /\ chain'[a] = chain[a]
      BY <1>5, <2>2 DEF ExecuteTransaction, ExecuteSubmit, ExecuteFinalize,
                        Report, TypeOK
    <2>5. Ok(b)
      <3>1. Agree(holds[b], sub[b], chain[b], receipts[b].last)
        BY <1>a, <2>2
      <3>2. CASE ExecuteSubmit(tx)
        <4>1. /\ holds[b].st = "submitting"
              /\ tx.amt = receipts[b].last
          BY <2>2, <2>3, <3>2 DEF ExecuteSubmit
        <4>2. \/ sub'[b] = "ok" /\ chain'[b].amt = tx.amt
              \/ sub'[b] # "ok" /\ chain' = chain
          BY <2>2, <3>2 DEF ExecuteSubmit, Report, TypeOK
        <4> QED BY <2>1, <2>2, <3>1, <4>1, <4>2
                DEF Agree, Reserved, Going
      <3>3. CASE ExecuteFinalize(tx)
        <4>1. holds[b].st = "finalizing"
          BY <2>3, <3>3 DEF ExecuteFinalize, Draining
        <4>2. \/ /\ sub'[b] = "ok" /\ chain[b].st = "pending"
                 /\ chain'[b].st = "finalized" /\ chain'[b].amt = chain[b].amt
              \/ sub'[b] # "ok" /\ chain' = chain
          <5>1. chain[b] \in Settlement /\ DOMAIN chain = Auths
                /\ DOMAIN sub = Auths
            BY <1>h, <2>2 DEF TypeOK
          <5>2. CASE /\ chain[b].st = "pending"
                     /\ chain' = [chain EXCEPT ![b].st = "finalized"]
                     /\ sub' = [sub EXCEPT ![b] = "ok"]
            BY <2>2, <5>1, <5>2 DEF Settlement
          <5>3. CASE sub' = [sub EXCEPT ![b] = "fail"] /\ UNCHANGED chain
            BY <2>2, <5>1, <5>3
          <5> QED BY <2>2, <3>3, <5>2, <5>3 DEF ExecuteFinalize, Report
        <4>3. holds'[b] = holds[b] /\ receipts'[b].last = receipts[b].last
          BY <2>1
        <4>4. CASE sub'[b] # "ok" /\ chain' = chain
          BY <3>1, <4>1, <4>3, <4>4 DEF Agree, Reserved, Going
        <4>5. CASE /\ sub'[b] = "ok" /\ chain[b].st = "pending"
                   /\ chain'[b].st = "finalized" /\ chain'[b].amt = chain[b].amt
          BY <3>1, <4>1, <4>3, <4>5 DEF Agree, Reserved, Going
        <4> QED BY <4>2, <4>4, <4>5
      <3> QED BY <1>5, <3>2, <3>3 DEF ExecuteTransaction
    <2> QED BY <1>a, <1>n, <2>1, <2>4, <2>5
  <1>6. CASE \/ Tick \/ RevokeKey \/ CloseKey \/ RefreshAfterFlush
             \/ UNCHANGED vars
             \/ \E r \in Requests : \/ BeginRequest(r)
                                    \/ BeginRequestThrows(r)
                                    \/ CheckPayload(r)
                                    \/ RejectRequest(r)
    <2>1. UNCHANGED <<holds, sub, net, chain, receipts>>
      BY <1>6 DEF Tick, RevokeKey, CloseKey, RefreshAfterFlush, BeginRequest,
                  BeginRequestThrows, CheckPayload, RejectRequest, vars
    <2> QED BY <1>a, <1>n, <2>1
  <1> QED BY <1>1, <1>2, <1>3, <1>4, <1>5, <1>6
          DEF Next, HandleRequest, RunTick, RunChain

(* Holds, settlements and receipts agree in every reachable state.         *)
LEMMA ReplayCorrect == ASSUME ~Lossy PROVE Spec => []ReplayInv
  <1>1. Init => ReplayInv
    BY DEF Init, ReplayInv, Agree, NoHold, NewHold, NoSettlement, Reserved,
           Going
  <1>2. TypeOK /\ BatchInv /\ ChainInv /\ CheckedInv /\ ReplayInv
        /\ [Next]_vars => ReplayInv'
    BY ReplayStep
  <1> QED BY <1>1, <1>2, TypeCorrect, BatchCorrect, ChainCorrect,
             CheckedCorrect, PTL DEF Spec

(* When no transaction lands after the handler gave up on it, what is on   *)
(* chain is what the last successful /settle of the authorization said.    *)
THEOREM ReceiptsMatchChain ==
    ASSUME ~Lossy
    PROVE  Spec => []LastReceiptMatchesChain
  <1>1. ReplayInv => LastReceiptMatchesChain
    BY DEF ReplayInv, Agree, LastReceiptMatchesChain
  <1> QED BY <1>1, ReplayCorrect, PTL

(* When no transaction lands after the handler gave up on it, neither      *)
(* /verify nor /settle accepts an authorization that is on chain: its hold *)
(* is kept until the settlement is finalized, and by then it has expired.  *)
THEOREM NothingIsReplayed ==
    ASSUME ~Lossy
    PROVE  Spec => NoReplay
  <1>1. ASSUME TypeOK, ChainInv, CheckedInv, ReplayInv, [Next]_vars,
               NEW a \in Auths, holds[a].st = "none", holds'[a].st # "none"
        PROVE  chain[a].st = "none"
    <2> USE DEF clockVars, keyVars, tickVars, chainVars
    <2>t. holds[a] \in Hold
      BY <1>1 DEF TypeOK
    <2>1. ASSUME NEW r \in Requests, PlaceHold(r) \/ SettleHold(r)
          PROVE  chain[a].st = "none"
      <3>1. /\ req[r].pc = "checked"
            /\ \A b \in Auths \ {req[r].auth} : holds'[b] = holds[b]
        BY <1>1, <2>1 DEF PlaceHold, SettleHold, TryHold, UpdateSettleAmount,
                          TypeOK
      <3>2. req[r].auth = a
        BY <1>1, <3>1
      <3> QED BY <1>1, <3>1, <3>2, FreshHold
    <2>2. CASE FlushStart \/ FlushResults \/ FinalizeStart \/ FinalizeResults
      BY <1>1, <2>t, <2>2
      DEF FlushStart, FlushResults, FinalizeStart, FinalizeResults,
          SweepAndDrain, InBatch, Finalizable, NoHold, NewHold, Reserved
    <2>3. \/ UNCHANGED holds
          \/ \E r \in Requests : PlaceHold(r) \/ SettleHold(r)
          \/ FlushStart \/ FlushResults \/ FinalizeStart \/ FinalizeResults
      BY <1>1 DEF Next, RunTick, RunChain, HandleRequest, BeginRequest,
             BeginRequestThrows, CheckPayload, RejectRequest,
             SendTransaction, ConfirmationTimeout, RefreshAfterFlush,
             ExecuteTransaction, DropTransaction, Tick, RevokeKey, CloseKey,
             vars
    <2> QED BY <1>1, <2>1, <2>2, <2>3
  <1>2. TypeOK /\ ChainInv /\ CheckedInv /\ ReplayInv /\ [Next]_vars
           => [\A a \in Auths :
                 holds[a].st = "none" /\ holds'[a].st # "none"
                    => chain[a].st = "none"]_vars
    BY <1>1
  <1> QED BY <1>2, TypeCorrect, ChainCorrect, CheckedCorrect, ReplayCorrect,
             PTL DEF Spec, NoReplay
=============================================================================
