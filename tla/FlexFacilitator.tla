-------------------------- MODULE FlexFacilitator --------------------------
(***************************************************************************)
(* The Flex facilitator (packages/payment-solana/src/flex/facilitator):    *)
(* clients sign authorizations "up to maxAmount"; /verify places a hold    *)
(* in memory, /settle fixes the amount of the hold, and a background tick  *)
(* submits settled holds to the Flex program on Solana and finalizes them  *)
(* once the escrow's refund timeout has passed.                            *)
(*                                                                         *)
(* One escrow, one mint and one session key; the hold manager              *)
(* (@faremeter/flex-solana) and the on-chain program are external and are  *)
(* modelled from the way the handler uses them.  Time is counted in units  *)
(* of MS_PER_SLOT (400 ms), so that wall-clock ages and slots share a      *)
(* unit.  Token balances are not modelled: tryHold may refuse any hold.    *)
(***************************************************************************)
EXTENDS Integers

CONSTANTS
    Auths,            \* authorization ids, one signed payload for each
    MaxAmount,        \* MaxAmount[a]: the maxAmount signed in payload a
    ExpiresAt,        \* ExpiresAt[a]: the expiresAtSlot signed in payload a
    SettleAmounts,    \* the amounts /settle may be asked for
    Requests,         \* concurrent /verify and /settle calls
    RefundTimeout,    \* escrow.refundTimeoutSlots
    Grace,            \* sessionKey.revocationGracePeriodSlots
    MinGrace,         \* minGracePeriodSlots
    KeyExpiresAt,     \* sessionKey.expiresAtSlot (null: beyond the horizon)
    Buffer,           \* confirmationBufferSlots
    SnapshotMaxAge,   \* snapshotMaxAgeMs
    KeyCacheMaxAge,   \* the 30 s of getCachedSessionKey
    ConfirmWindow,    \* maxSubmitRetries polls, submitRetryDelayMs apart
    MaxSubmitRetries,
    Jitter,           \* bound: how far a slot number strays from now
    MaxNow,           \* bound: the horizon of the clock
    Lossy             \* may a transaction land after the handler gave up?

ASSUME ParametersAreSlots ==
    /\ RefundTimeout \in Nat /\ Grace \in Nat /\ MinGrace \in Nat
    /\ KeyExpiresAt \in Nat /\ Buffer \in Nat
    /\ SnapshotMaxAge \in Nat /\ KeyCacheMaxAge \in Nat
    /\ ConfirmWindow \in Nat /\ MaxSubmitRetries \in Nat \ {0}
    /\ Jitter \in Nat /\ MaxNow \in Nat /\ Lossy \in BOOLEAN

(* What the confirmation buffer has to cover: the age a cached session key *)
(* may have, the time a batch may be polled for, and the error of the slot *)
(* estimate.  The defaults (all 75 slots, MinGrace 150) meet it exactly,   *)
(* with no room for jitter.                                                *)
ASSUME BufferCovers ==
    /\ KeyCacheMaxAge + 4 * Jitter <= Buffer + 1
    /\ ConfirmWindow + 4 * Jitter <= Buffer
    /\ MinGrace > 0

ASSUME PayloadsAreNumeric ==
    /\ MaxAmount \in [Auths -> Nat]
    /\ ExpiresAt \in [Auths -> Nat]
    /\ SettleAmounts \subseteq Nat

VARIABLES
    now,        \* wall clock
    slot,       \* the slot the chain is at
    skew,       \* lastKnownSlot - lastSlotFetchedAtMs
    key,        \* the session key account on chain
    keyCache,   \* sessionKeyCache
    snapshot,   \* escrowSnapshots: when it was fetched, or absent
    holds,      \* the hold manager
    req,        \* /verify and /settle calls in progress
    tickPc,     \* where the setInterval tick is
    flushSlot,  \* currentSlot of the running flush()
    flushAt,    \* wall clock at the start of the running flush()
    sub,        \* per hold of the batch: where submit/finalizeHold is
    net,        \* transactions broadcast and not yet executed or dropped
    chain,      \* pending settlement account of each authorization
    receipts    \* history: amounts that /settle reported as settled

clockVars == <<now, slot, skew>>
keyVars   == <<key, keyCache>>
tickVars  == <<tickPc, flushSlot, flushAt, sub>>
chainVars == <<net, chain>>
vars == <<clockVars, keyVars, snapshot, holds, req, tickVars, chainVars,
          receipts>>

Absent == -1

MinOf(x, y) == IF x < y THEN x ELSE y

-----------------------------------------------------------------------------
(* Types. *)

KeyRecord == [st : {"active", "revoked", "closed"}, at : Nat]

CachedKey == [st : {"none", "active", "revoked"}, at : Nat,
              fetchedAt : Nat, fetchedSlot : Int]

HoldStatus == {"none", "held", "settled", "submitting", "submitted",
               "finalizing"}

Hold == [st : HoldStatus, amt : Nat, until : Int, subAt : Int,
         retries : Nat]

NewHold(st, amt, until) == [st |-> st, amt |-> amt, until |-> until,
                            subAt |-> 0, retries |-> 0]

NoHold == NewHold("none", 0, 0)

IdleRequest == [pc |-> "idle"]

Request == {IdleRequest} \cup
           [pc : {"snapshot", "checked"}, kind : {"verify", "settle"},
            auth : Auths, amt : Nat, until : Int]

Tx == [kind : {"submit", "finalize"}, auth : Auths, amt : Nat,
       cur : BOOLEAN]

Settlement == [st : {"none", "pending", "finalized"}, amt : Nat, at : Nat]

NoSettlement == [st |-> "none", amt |-> 0, at |-> 0]

(* The facilitator's state, its callers' and the chain's are well typed.   *)
TypeOK ==
    /\ now \in Nat /\ slot \in Nat /\ skew \in Int
    /\ key \in KeyRecord /\ keyCache \in CachedKey
    /\ snapshot \in Nat \cup {Absent}
    /\ holds \in [Auths -> Hold]
    /\ req \in [Requests -> Request]
    /\ tickPc \in {"idle", "submitting", "refreshing", "finalize",
                   "finalizing"}
    /\ flushSlot \in Int /\ flushAt \in Nat
    /\ sub \in [Auths -> {"none", "send", "wait", "ok", "perm", "fail"}]
    /\ net \subseteq Tx
    /\ chain \in [Auths -> Settlement]
    /\ receipts \in [Auths -> [all : SUBSET Nat, last : Nat]]

-----------------------------------------------------------------------------
(* Clocks. *)

(* The slot estimate: lastKnownSlot plus the slots elapsed since.          *)
EstimateCurrentSlot == now + skew

Near(s, t) == s - t <= Jitter /\ t - s <= Jitter

(* No tick passes while a call is between its checks and tryHold (one      *)
(* signature check), and a batch is polled for at most ConfirmWindow.      *)
Tick ==
    /\ now < MaxNow
    /\ \A r \in Requests : req[r].pc # "checked"
    /\ tickPc = "submitting" => now < flushAt + ConfirmWindow
    /\ now' = now + 1
    /\ slot' \in {s \in slot..(slot + 1 + 2 * Jitter) : Near(s, now')}
    /\ UNCHANGED <<skew, keyVars, snapshot, holds, req, tickVars, chainVars,
                   receipts>>

RefreshSlot == skew' = slot - now

(* snapshotEscrow() succeeded: the snapshot is stored, the slot refreshed. *)
SnapshotEscrow ==
    /\ RefreshSlot
    /\ snapshot' = now

(* snapshotEscrow() threw: only the slot may have been refreshed, by the   *)
(* other branch of the Promise.all.                                        *)
SnapshotEscrowThrows ==
    /\ RefreshSlot \/ UNCHANGED skew
    /\ UNCHANGED snapshot

-----------------------------------------------------------------------------
(* The session key. *)

IsSessionKeyUsable(k, s) ==
    /\ \/ k.st = "active"
       \/ k.st = "revoked" /\ s < k.at + Grace
    /\ s < KeyExpiresAt

(* Mutant: the confirmation buffer is not taken off the deadline.          *)
ComputeHoldDeadlineNoBuffer(k, expires, s) ==
    LET validity == MinOf(expires, KeyExpiresAt)
    IN  IF k.st = "active"
          THEN IF Grace > 0 THEN MinOf(validity, s + Grace) ELSE validity
          ELSE MinOf(validity, k.at + Grace)

ComputeHoldDeadline(k, expires, s) ==
    LET validity == MinOf(expires, KeyExpiresAt)
        earliest == IF k.st = "active"
                      THEN IF Grace > 0 THEN MinOf(validity, s + Grace)
                                        ELSE validity
                      ELSE MinOf(validity, k.at + Grace)
    IN  earliest - Buffer

(* The owner of the escrow revokes the key; the program lets it be used    *)
(* for Grace more slots, then the account may be closed.                   *)
RevokeKey ==
    /\ key.st = "active"
    /\ key' = [st |-> "revoked", at |-> slot]
    /\ UNCHANGED <<clockVars, keyCache, snapshot, holds, req, tickVars,
                   chainVars, receipts>>

CloseKey ==
    /\ key.st = "revoked" /\ slot >= key.at + Grace
    /\ key' = [key EXCEPT !.st = "closed"]
    /\ UNCHANGED <<clockVars, keyCache, snapshot, holds, req, tickVars,
                   chainVars, receipts>>

NoKey == [st |-> "none", at |-> 0, fetchedAt |-> 0, fetchedSlot |-> 0]

KeyCacheFresh == keyCache.st # "none"
                 /\ now - keyCache.fetchedAt < KeyCacheMaxAge

(* What getCachedSessionKey() leaves in the cache and returns: the cached  *)
(* key while it is fresh, else the account, or no key when it is closed.   *)
CachedSessionKey ==
    IF KeyCacheFresh THEN keyCache
    ELSE IF key.st = "closed" THEN NoKey
    ELSE [st |-> key.st, at |-> key.at, fetchedAt |-> now,
          fetchedSlot |-> slot]

-----------------------------------------------------------------------------
(* The hold manager (external): holds are keyed by authorization; a hold   *)
(* is submittable once its settle amount has been set.                     *)

Reserved == {"held", "settled"}

InBatch(st) == {a \in Auths : holds[a].st = st}

(* tryHold refuses an authorization that already has a hold.               *)
TryHold(a, amt, until) ==
    /\ holds[a].st = "none"
    /\ holds' = [holds EXCEPT ![a] = NewHold("held", amt, until)]

UpdateSettleAmount(a, amt) ==
    /\ holds[a].st \in Reserved
    /\ holds' = [holds EXCEPT ![a].st = "settled", ![a].amt = amt]

(* sweepExpired() and drainSubmittable() at slot s, one after the other.   *)
SweepAndDrain(h, s) ==
    IF h.st \in Reserved /\ s >= h.until THEN NoHold
    ELSE IF h.st = "settled" THEN [h EXCEPT !.st = "submitting"]
    ELSE h

-----------------------------------------------------------------------------
(* /verify and /settle. *)

Done(r) == req' = [req EXCEPT ![r] = IdleRequest]

(* A call arrives and takes the first step of parseAndVerifyPayload: a     *)
(* snapshot of the escrow, from the cache while it is fresh.               *)
BeginRequest(r) ==
    /\ req[r].pc = "idle"
    /\ \E kind \in {"verify", "settle"}, a \in Auths :
          \E amt \in IF kind = "settle" THEN SettleAmounts
                                        ELSE {MaxAmount[a]} :
             req' = [req EXCEPT ![r] = [pc |-> "snapshot", kind |-> kind,
                                        auth |-> a, amt |-> amt,
                                        until |-> 0]]
    /\ IF snapshot # Absent /\ now - snapshot < SnapshotMaxAge
         THEN UNCHANGED <<skew, snapshot>>
         ELSE SnapshotEscrow
    /\ UNCHANGED <<now, slot, keyVars, holds, tickVars, chainVars, receipts>>

(* The snapshot cannot be fetched: the call throws.                        *)
BeginRequestThrows(r) ==
    /\ req[r].pc = "idle"
    /\ ~(snapshot # Absent /\ now - snapshot < SnapshotMaxAge)
    /\ SnapshotEscrowThrows
    /\ UNCHANGED <<now, slot, keyVars, holds, req, tickVars, chainVars,
                   receipts>>

(* The checks of parseAndVerifyPayload on the session key k at slot s.     *)
PayloadAcceptable(a, k, s) ==
    /\ k.st # "none"
    /\ IsSessionKeyUsable(k, s)
    /\ s < ExpiresAt[a]
    /\ ExpiresAt[a] >= s + Buffer
    /\ ExpiresAt[a] <= s + RefundTimeout
    /\ s < ComputeHoldDeadline(k, ExpiresAt[a], s)

(* getCachedSessionKey() returns and the checks run up to the deadline of  *)
(* the hold; an unusable key is dropped from the cache.                    *)
CheckPayload(r) ==
    LET a == req[r].auth
        k == CachedSessionKey
        s == EstimateCurrentSlot
    IN  /\ req[r].pc = "snapshot"
        /\ RefundTimeout > Buffer /\ Grace >= MinGrace
        /\ IF PayloadAcceptable(a, k, s)
             THEN req' = [req EXCEPT
                            ![r].pc = "checked",
                            ![r].until =
                               ComputeHoldDeadline(k, ExpiresAt[a], s)]
             ELSE Done(r)
        /\ keyCache' = IF k.st # "none" /\ ~IsSessionKeyUsable(k, s)
                         THEN NoKey ELSE k
        /\ UNCHANGED <<clockVars, key, snapshot, holds, tickVars, chainVars,
                       receipts>>

(* A malformed payload, an escrow of another facilitator, a bad signature, *)
(* a failed fetch, a refusal of tryHold for lack of funds: the call ends.  *)
RejectRequest(r) ==
    /\ req[r].pc # "idle"
    /\ Done(r)
    /\ UNCHANGED <<clockVars, keyVars, snapshot, holds, tickVars, chainVars,
                   receipts>>

(* handleVerify: a hold for the whole authorized amount.                   *)
PlaceHold(r) ==
    /\ req[r].pc = "checked" /\ req[r].kind = "verify"
    /\ TryHold(req[r].auth, MaxAmount[req[r].auth], req[r].until)
    /\ Done(r)
    /\ UNCHANGED <<clockVars, keyVars, snapshot, tickVars, chainVars,
                   receipts>>

(* Mutant: /settle reports success although updateSettleAmount() refused,  *)
(* the hold being submitted already.                                       *)
SettleHoldUnchecked(r) ==
    LET a == req[r].auth
        amt == req[r].amt
    IN  /\ req[r].pc = "checked" /\ req[r].kind = "settle"
        /\ amt <= MaxAmount[a]
        /\ \/ UpdateSettleAmount(a, amt)
           \/ holds[a].st \notin Reserved \cup {"none"} /\ UNCHANGED holds
           \/ /\ holds[a].st = "none"
              /\ holds' = [holds EXCEPT ![a] = NewHold("settled", amt,
                                                       req[r].until)]
        /\ receipts' = [receipts EXCEPT ![a].all = @ \cup {amt},
                                        ![a].last = amt]
        /\ Done(r)
        /\ UNCHANGED <<clockVars, keyVars, snapshot, tickVars, chainVars>>

(* handleSettle: set the amount of the hold, or place a settled one when   *)
(* there is no hold (tryHold, then updateSettleAmount).                    *)
SettleHold(r) ==
    LET a == req[r].auth
        amt == req[r].amt
    IN  /\ req[r].pc = "checked" /\ req[r].kind = "settle"
        /\ amt <= MaxAmount[a]
        /\ \/ UpdateSettleAmount(a, amt)
           \/ /\ holds[a].st = "none"
              /\ holds' = [holds EXCEPT ![a] = NewHold("settled", amt,
                                                       req[r].until)]
        /\ receipts' = [receipts EXCEPT ![a].all = @ \cup {amt},
                                        ![a].last = amt]
        /\ Done(r)
        /\ UNCHANGED <<clockVars, keyVars, snapshot, tickVars, chainVars>>

-----------------------------------------------------------------------------
(* The tick: flush(), then finalizeReady(). *)

(* flush() starts: expired holds are swept, settled ones become the batch. *)
FlushStart ==
    LET s == EstimateCurrentSlot
        swept == [a \in Auths |-> SweepAndDrain(holds[a], s)]
        batch == {a \in Auths : swept[a].st = "submitting"}
    IN  /\ tickPc = "idle"
        /\ holds' = swept
        /\ IF batch = {}
             THEN /\ tickPc' = "finalize"
                  /\ UNCHANGED <<flushSlot, flushAt, sub>>
             ELSE /\ tickPc' = "submitting"
                  /\ flushSlot' = s
                  /\ flushAt' = now
                  /\ sub' = [a \in Auths |-> IF a \in batch THEN "send"
                                                            ELSE "none"]
        /\ UNCHANGED <<clockVars, keyVars, snapshot, req, chainVars,
                       receipts>>

Orphan(tx) == [tx EXCEPT !.cur = FALSE]

Settle(a, outcome) == sub' = [sub EXCEPT ![a] = outcome]

(* Mutant: the whole authorized amount is submitted, not what was settled. *)
SendTransactionMaximum(a) ==
    LET tx == [kind |-> IF tickPc = "submitting" THEN "submit" ELSE "finalize",
               auth |-> a, amt |-> MaxAmount[a], cur |-> TRUE]
    IN  /\ tickPc \in {"submitting", "finalizing"}
        /\ sub[a] = "send"
        /\ \/ Settle(a, "wait") /\ net' = net \cup {tx}
           \/ Settle(a, "fail") /\ UNCHANGED net
           \/ Lossy /\ Settle(a, "fail") /\ net' = net \cup {Orphan(tx)}
        /\ UNCHANGED <<clockVars, keyVars, snapshot, holds, req, tickPc,
                       flushSlot, flushAt, chain, receipts>>

(* submitHold() and finalizeHold() up to sendTransaction: it is broadcast, *)
(* or the RPC throws - after the broadcast too, when the chain is lossy.   *)
SendTransaction(a) ==
    LET tx == [kind |-> IF tickPc = "submitting" THEN "submit" ELSE "finalize",
               auth |-> a, amt |-> holds[a].amt, cur |-> TRUE]
    IN  /\ tickPc \in {"submitting", "finalizing"}
        /\ sub[a] = "send"
        /\ \/ Settle(a, "wait") /\ net' = net \cup {tx}
           \/ Settle(a, "fail") /\ UNCHANGED net
           \/ Lossy /\ Settle(a, "fail") /\ net' = net \cup {Orphan(tx)}
        /\ UNCHANGED <<clockVars, keyVars, snapshot, holds, req, tickPc,
                       flushSlot, flushAt, chain, receipts>>

Current(a) == {tx \in net : tx.auth = a /\ tx.cur}

(* "Transaction confirmation timeout": polling ends without a status.      *)
ConfirmationTimeout(a) ==
    /\ sub[a] = "wait"
    /\ Lossy \/ Current(a) = {}
    /\ Settle(a, "fail")
    /\ net' = (net \ Current(a)) \cup {Orphan(tx) : tx \in Current(a)}
    /\ UNCHANGED <<clockVars, keyVars, snapshot, holds, req, tickPc,
                   flushSlot, flushAt, chain, receipts>>

(* Mutant: a submitted hold is forgotten at once.                          *)
AfterSubmitForgets(h, outcome) ==
    IF outcome # "fail" \/ h.retries + 1 >= MaxSubmitRetries THEN NoHold
    ELSE [h EXCEPT !.st = "settled", !.retries = h.retries + 1]

(* Mutant: failed submissions are not counted.                             *)
AfterSubmitUncounted(h, outcome) ==
    IF outcome = "ok" THEN [h EXCEPT !.st = "submitted", !.subAt = flushSlot]
    ELSE IF outcome = "perm" THEN NoHold
    ELSE [h EXCEPT !.st = "settled"]

(* Mutant: the retries are counted down, from a count that was never set.  *)
AfterSubmitCountsDown(h, outcome) ==
    IF outcome = "ok" THEN [h EXCEPT !.st = "submitted", !.subAt = flushSlot]
    ELSE IF outcome = "perm" THEN NoHold
    ELSE [h EXCEPT !.st = "settled", !.retries = h.retries - 1]

(* What the result loop of flush() does to a hold of the batch.            *)
AfterSubmit(h, outcome) ==
    IF outcome = "ok" THEN [h EXCEPT !.st = "submitted", !.subAt = flushSlot]
    ELSE IF outcome = "perm" \/ h.retries + 1 >= MaxSubmitRetries THEN NoHold
    ELSE [h EXCEPT !.st = "settled", !.retries = h.retries + 1]

Outcomes == {"ok", "perm", "fail"}

Settled(batch) == \A a \in batch : sub[a] \in Outcomes

(* The result loop of flush(): one failure drops the escrow's snapshot,    *)
(* one success has it fetched again.                                       *)
FlushResults ==
    LET batch == InBatch("submitting")
    IN  /\ tickPc = "submitting" /\ Settled(batch)
        /\ holds' = [a \in Auths |-> IF a \in batch
                                       THEN AfterSubmit(holds[a], sub[a])
                                       ELSE holds[a]]
        /\ snapshot' = IF \E a \in batch : sub[a] # "ok" THEN Absent
                                                         ELSE snapshot
        /\ tickPc' = IF \E a \in batch : sub[a] = "ok" THEN "refreshing"
                                                       ELSE "finalize"
        /\ flushSlot' = 0 /\ flushAt' = 0
        /\ sub' = [a \in Auths |-> "none"]
        /\ UNCHANGED <<clockVars, keyVars, req, chainVars, receipts>>

(* The last await of flush(); when it throws, the tick ends there.         *)
RefreshAfterFlush ==
    /\ tickPc = "refreshing"
    /\ \/ SnapshotEscrow /\ tickPc' = "finalize"
       \/ SnapshotEscrowThrows /\ tickPc' = "idle"
    /\ UNCHANGED <<now, slot, keyVars, holds, req, flushSlot, flushAt, sub,
                   chainVars, receipts>>

(* Mutant: the timeout of the escrow, without the buffer.                  *)
GetRefundTimeoutNoBuffer == IF snapshot = Absent THEN Absent
                                                 ELSE RefundTimeout

(* getRefundTimeout(): unknown without a snapshot of the escrow.           *)
GetRefundTimeout == IF snapshot = Absent THEN Absent
                                         ELSE RefundTimeout + Buffer

Finalizable(h) ==
    /\ h.st = "submitted"
    /\ GetRefundTimeout # Absent
    /\ EstimateCurrentSlot >= h.subAt + GetRefundTimeout

(* finalizeReady() starts: drainFinalizable().                             *)
FinalizeStart ==
    LET batch == {a \in Auths : Finalizable(holds[a])}
    IN  /\ tickPc = "finalize"
        /\ tickPc' = IF batch = {} THEN "idle" ELSE "finalizing"
        /\ holds' = [a \in Auths |->
                        IF a \in batch
                          THEN [holds[a] EXCEPT !.st = "finalizing"]
                          ELSE holds[a]]
        /\ sub' = [a \in Auths |-> IF a \in batch THEN "send" ELSE "none"]
        /\ UNCHANGED <<clockVars, keyVars, snapshot, req, flushSlot, flushAt,
                       chainVars, receipts>>

(* markFinalized() forgets the hold, resetToSubmitted() has it tried again.*)
AfterFinalize(h, outcome) ==
    IF outcome = "ok" THEN NoHold ELSE [h EXCEPT !.st = "submitted"]

FinalizeResults ==
    LET batch == InBatch("finalizing")
    IN  /\ tickPc = "finalizing" /\ Settled(batch)
        /\ holds' = [a \in Auths |-> IF a \in batch
                                       THEN AfterFinalize(holds[a], sub[a])
                                       ELSE holds[a]]
        /\ tickPc' = "idle"
        /\ sub' = [a \in Auths |-> "none"]
        /\ UNCHANGED <<clockVars, keyVars, snapshot, req, flushSlot, flushAt,
                       chainVars, receipts>>

-----------------------------------------------------------------------------
(* The Flex program (external): the errors it can raise are the ones the   *)
(* handler tells apart.                                                    *)

(* AuthorizationExpired, SessionKeyExpired, SessionKeyRevoked,             *)
(* SettleExceedsMax, SettleAmountZero and ExpiryTooFar: permanent.         *)
ProgramAccepts(a, amt) ==
    /\ slot < ExpiresAt[a]
    /\ IsSessionKeyUsable(key, slot)
    /\ amt \in 1..MaxAmount[a]
    /\ ExpiresAt[a] <= slot + RefundTimeout

Report(tx, outcome) ==
    sub' = IF tx.cur THEN [sub EXCEPT ![tx.auth] = outcome] ELSE sub

ExecuteSubmit(tx) ==
    LET a == tx.auth
    IN  /\ tx.kind = "submit"
        /\ \/ /\ ProgramAccepts(a, tx.amt) /\ chain[a].st # "pending"
              /\ chain' = [chain EXCEPT ![a] = [st |-> "pending",
                                                amt |-> tx.amt, at |-> slot]]
              /\ Report(tx, "ok")
           \/ /\ ProgramAccepts(a, tx.amt)  \* the account exists, no funds
              /\ Report(tx, "fail") /\ UNCHANGED chain
           \/ /\ ~ProgramAccepts(a, tx.amt)
              /\ Report(tx, "perm") /\ UNCHANGED chain

ExecuteFinalize(tx) ==
    LET a == tx.auth
        due == chain[a].st = "pending" /\ slot >= chain[a].at + RefundTimeout
    IN  /\ tx.kind = "finalize"
        /\ \/ /\ due
              /\ chain' = [chain EXCEPT ![a].st = "finalized"]
              /\ Report(tx, "ok")
           \/ ~due /\ Report(tx, "fail") /\ UNCHANGED chain

ExecuteTransaction(tx) ==
    /\ tx \in net
    /\ net' = net \ {tx}
    /\ ExecuteSubmit(tx) \/ ExecuteFinalize(tx)
    /\ UNCHANGED <<clockVars, keyVars, snapshot, holds, req, tickPc,
                   flushSlot, flushAt, receipts>>

(* The blockhash expires before the transaction is included.               *)
DropTransaction(tx) ==
    /\ tx \in net
    /\ net' = net \ {tx}
    /\ UNCHANGED <<clockVars, keyVars, snapshot, holds, req, tickVars, chain,
                   receipts>>

-----------------------------------------------------------------------------
Init ==
    /\ now = 0 /\ slot = 0 /\ skew = 0
    /\ key = [st |-> "active", at |-> 0]
    /\ keyCache = NoKey
    /\ snapshot = Absent
    /\ holds = [a \in Auths |-> NoHold]
    /\ req = [r \in Requests |-> IdleRequest]
    /\ tickPc = "idle" /\ flushSlot = 0 /\ flushAt = 0
    /\ sub = [a \in Auths |-> "none"]
    /\ net = {}
    /\ chain = [a \in Auths |-> NoSettlement]
    /\ receipts = [a \in Auths |-> [all |-> {}, last |-> 0]]

HandleRequest(r) ==
    \/ CheckPayload(r)
    \/ RejectRequest(r)
    \/ PlaceHold(r)
    \/ SettleHold(r)

RunTick ==
    \/ FlushStart
    \/ \E a \in Auths : SendTransaction(a) \/ ConfirmationTimeout(a)
    \/ FlushResults
    \/ RefreshAfterFlush
    \/ FinalizeStart
    \/ FinalizeResults

RunChain == \E tx \in net : ExecuteTransaction(tx) \/ DropTransaction(tx)

Next ==
    \/ Tick
    \/ RevokeKey
    \/ CloseKey
    \/ \E r \in Requests : BeginRequest(r) \/ BeginRequestThrows(r)
    \/ \E r \in Requests : HandleRequest(r)
    \/ RunTick
    \/ RunChain

Spec == Init /\ [][Next]_vars

-----------------------------------------------------------------------------
(* Properties. *)

(* What settles on chain is an amount that a successful /settle reported,  *)
(* never the larger amount /verify reserved (flush() submits settled holds *)
(* only), whatever transactions are lost or land late.                     *)
SettlesOnlyReportedAmounts ==
    \A a \in Auths : chain[a].st # "none" => chain[a].amt \in receipts[a].all

(* When no transaction lands after the handler gave up on it, the amount   *)
(* on chain is the one of the last successful /settle: handleSettle cannot *)
(* change the amount of a hold that flush() is submitting.                 *)
LastReceiptMatchesChain ==
    \A a \in Auths : chain[a].st # "none" => chain[a].amt = receipts[a].last

(* "Create hold [...] to prevent replay" (handleVerify): an authorization  *)
(* whose settlement is on chain is not accepted again, by /verify or by    *)
(* the fallback of /settle, although its hold has been forgotten.          *)
NoReplay ==
    [][\A a \in Auths :
          holds[a].st = "none" /\ holds'[a].st # "none"
             => chain[a].st = "none"]_vars

(* computeHoldDeadline(): when flush() starts to submit a hold, the chain  *)
(* would still take it - the authorization and the key expire more than    *)
(* Buffer slots on, but for what the estimate strays, and a key revoked    *)
(* meanwhile, even before the cached copy that was checked, is still in    *)
(* its grace period.                                                       *)
SubmitsInTime ==
    [][\A a \in Auths :
          holds[a].st # "submitting" /\ holds'[a].st = "submitting"
             => /\ slot + Buffer < ExpiresAt[a] + 2 * Jitter
                /\ slot + Buffer < KeyExpiresAt + 2 * Jitter
                /\ IsSessionKeyUsable(key, slot)]_vars

(* finalizeReady(): a hold is finalized only when its settlement is on     *)
(* chain and the refund timeout, counted from the slot it landed in (later *)
(* than the currentSlot flush() recorded for it), has passed.              *)
FinalizesAfterRefundTimeout ==
    [][\A a \in Auths :
          holds[a].st # "finalizing" /\ holds'[a].st = "finalizing"
             => /\ chain[a].st # "none"
                /\ slot >= chain[a].at + RefundTimeout]_vars

(* "Starts a background interval that periodically flushes settled holds   *)
(* and finalizes confirmed transactions": every hold that is due is taken  *)
(* by the finalizeReady() of the running tick.                             *)
DueHoldsAreFinalized ==
    [][tickPc = "finalize" /\ tickPc' # "finalize"
          => \A a \in Auths :
                /\ holds[a].st = "submitted"
                /\ EstimateCurrentSlot
                     >= holds[a].subAt + RefundTimeout + Buffer
                => holds'[a].st = "finalizing"]_vars

(* A hold that /settle reported is not stuck in the manager: the tick      *)
(* submits it or gives it up.                                              *)
SettledHoldsMoveOn ==
    \A a \in Auths :
       holds[a].st = "settled" ~> holds[a].st \notin {"settled", "submitting"}

(* The interval keeps firing and each of its awaits ends; the network      *)
(* executes or drops every transaction.                                    *)
FairSpec == Spec /\ WF_vars(RunTick) /\ WF_vars(RunChain)
=============================================================================
