-------------------------- MODULE ExactFacilitator --------------------------
(***************************************************************************)
(* Settlement of the x402 "exact" scheme on Solana                         *)
(* (packages/payment-solana/src/exact/facilitator.ts).  A payment is a     *)
(* transaction the client has signed, which the facilitator signs as fee   *)
(* payer and broadcasts, or a settlement account the client has funded,    *)
(* which the facilitator empties and closes with a transaction of its own. *)
(* handleVerify changes no state.                                          *)
(*                                                                         *)
(* enableDuplicateCheck has handleSettle remember the transactions it has  *)
(* broadcast (TransactionStore in cache.ts) until they are maxAge blocks   *)
(* older than the newest one.  The chain is external.                      *)
(***************************************************************************)
EXTENDS Integers

CONSTANTS
    Txs,             \* transactions clients have signed
    Valid,           \* those that isValidTransaction() accepts
    Accounts,        \* settlement accounts
    Calls,           \* concurrent handleSettle() calls
    Born, Expires,   \* the first and the last block Txs may land in
    Height,          \* the blockHeight processTransaction() computes for Txs
    MaxAge,          \* maxTransactionAge
    MaxRetries,      \* maxRetries
    DuplicateCheck,  \* enableDuplicateCheck
    MaxBlock,        \* bound: the horizon of the chain
    MaxBuilt         \* bound: transactions built for one settlement account

(* The transactions that may go to the chain: the clients' and the ones    *)
(* built for settlement accounts.                                          *)
Built == Accounts \X (1..MaxBuilt)
Transactions == Txs \cup Built

ASSUME ExactConstants ==
    /\ Valid \subseteq Txs
    /\ Born \in [Txs -> Nat] /\ Expires \in [Txs -> Nat]
    /\ Height \in [Txs -> Nat]
    /\ MaxAge \in Nat /\ MaxRetries \in Nat \ {0} /\ MaxBlock \in Nat
    /\ MaxBuilt \in Nat
    /\ DuplicateCheck \in BOOLEAN
    /\ Txs \cap Built = {} /\ Txs \cap Accounts = {}

(* Of two transactions more than MaxAge blocks apart the older one has     *)
(* expired before the newer one can be made.  It holds when Height is the  *)
(* block of the transaction's blockhash and MaxAge is at least the 150     *)
(* blocks a blockhash is good for, and when Height is the same for all.    *)
ASSUME HeightsAreSound ==
    \A t, u \in Txs : Height[u] > Height[t] + MaxAge => Born[u] > Expires[t]

VARIABLES
    block,    \* the block the chain is at
    seen,     \* sigToBlock of the TransactionStore: the signatures in it
    highest,  \* highestBlock of the TransactionStore
    calls,    \* the handleSettle() calls in progress, and their answers
    chain,    \* the status of each transaction
    receipts  \* history: successful answers given for each transaction

vars == <<block, seen, highest, calls, chain, receipts>>

NoCall == [pc |-> "idle"]

(* A call: the payment it verifies, the transaction it sends, its answer.  *)
Call == {NoCall}
        \cup [pc : {"signing"}, pay : Valid \cup Accounts]
        \cup [pc : {"simulating", "sending", "polling"},
              tx : Transactions, tries : 0..(MaxRetries - 1)]
        \cup [pc : {"answered"}, res : {"ok", "error", "throw"}]

(* The facilitator's and the chain's state are well typed.                 *)
TypeOK ==
    /\ block \in Nat /\ highest \in Nat
    /\ seen \subseteq Txs
    /\ calls \in [Calls -> Call]
    /\ chain \in [Transactions -> {"new", "none", "sent", "confirmed",
                                   "failed"}]
    /\ receipts \in [Transactions -> Nat]

-----------------------------------------------------------------------------
(* The chain (external). *)

(* A settlement account is emptied and closed by the first transaction.    *)
Open(a) == \A n \in 1..MaxBuilt : chain[<<a, n>>] # "confirmed"

Usable(tx) ==
    \/ tx \in Txs /\ Born[tx] <= block /\ block <= Expires[tx]
    \/ tx \in Built /\ Open(tx[1])

Tick ==
    /\ block < MaxBlock
    /\ block' = block + 1
    /\ UNCHANGED <<seen, highest, calls, chain, receipts>>

(* A transaction that was broadcast is executed, fails or is dropped.      *)
Land(tx) ==
    /\ chain[tx] = "sent"
    /\ \/ Usable(tx) /\ chain' = [chain EXCEPT ![tx] = "confirmed"]
       \/ chain' = [chain EXCEPT ![tx] = "failed"]
       \/ chain' = [chain EXCEPT ![tx] = "none"]
    /\ UNCHANGED <<block, seen, highest, calls, receipts>>

-----------------------------------------------------------------------------
(* TransactionStore. *)

(* Mutant: entries exactly maxAge old are dropped too.                     *)
PruneEarly(s, top) == {t \in s : Height[t] > top - MaxAge}

(* prune(): what is more than maxAge older than the newest is dropped.     *)
Prune(s, top) == {t \in s : Height[t] >= top - MaxAge}

(* add(): a new highest block prunes the store.                            *)
Add(tx) ==
    /\ highest' = IF Height[tx] > highest THEN Height[tx] ELSE highest
    /\ seen' = (IF Height[tx] > highest THEN Prune(seen, Height[tx])
                                        ELSE seen) \cup {tx}

-----------------------------------------------------------------------------
(* handleSettle(). *)

Answer(c, res) ==
    calls' = [calls EXCEPT ![c] = [pc |-> "answered", res |-> res]]

Send(c, tx) ==
    calls' = [calls EXCEPT ![c] = [pc |-> "simulating", tx |-> tx,
                                   tries |-> 0]]

(* isValidTransaction(), or the balance of a settlement account.           *)
Verified(pay) == pay \in Valid \/ (pay \in Accounts /\ Open(pay))

(* determinePaymentPayload(): a client's transaction is checked against    *)
(* the requirements, a settlement account's balance is read; both may be   *)
(* refused, and the RPC may throw.                                         *)
ProcessPayment(c, pay) ==
    /\ calls[c].pc = "idle"
    /\ \/ /\ Verified(pay)
          /\ calls' = [calls EXCEPT ![c] = [pc |-> "signing", pay |-> pay]]
       \/ /\ ~Verified(pay)
          /\ Answer(c, "error")
       \/ Answer(c, "throw")
    /\ UNCHANGED <<block, seen, highest, chain, receipts>>

(* settle() of a client's transaction: it is signed, and a duplicate is    *)
(* refused.                                                                *)
SettleTransaction(c) ==
    LET tx == calls[c].pay
    IN  /\ calls[c].pc = "signing" /\ tx \in Txs
        /\ \/ /\ DuplicateCheck /\ tx \in seen
              /\ Answer(c, "error") /\ UNCHANGED <<seen, highest>>
           \/ /\ DuplicateCheck /\ tx \notin seen
              /\ Add(tx) /\ Send(c, tx)
           \/ /\ ~DuplicateCheck
              /\ Send(c, tx) /\ UNCHANGED <<seen, highest>>
        /\ UNCHANGED <<block, chain, receipts>>

(* settle() of a settlement account builds a transaction with a memo of    *)
(* its own, that no other has; duplicates are not looked for.              *)
SettleAccount(c) ==
    LET a == calls[c].pay
    IN  /\ calls[c].pc = "signing" /\ a \in Accounts
        /\ \E n \in 1..MaxBuilt :
              /\ chain[<<a, n>>] = "new"
              /\ Send(c, <<a, n>>)
              /\ chain' = [chain EXCEPT ![<<a, n>>] = "none"]
        /\ UNCHANGED <<block, seen, highest, receipts>>

(* sendTransaction(): the simulation refuses a transaction that has been   *)
(* executed or has expired, and may refuse any other.                      *)
Simulate(c) ==
    LET tx == calls[c].tx
    IN  /\ calls[c].pc = "simulating"
        /\ \/ /\ Usable(tx) /\ chain[tx] \in {"none", "sent"}
              /\ calls' = [calls EXCEPT ![c].pc = "sending"]
           \/ Answer(c, "error")
        /\ UNCHANGED <<block, seen, highest, chain, receipts>>

(* The broadcast; the RPC may throw although it was made.                  *)
SendTransaction(c) ==
    LET tx == calls[c].tx
    IN  /\ calls[c].pc = "sending"
        /\ chain' = [chain EXCEPT ![tx] = IF @ = "none" THEN "sent" ELSE @]
        /\ \/ calls' = [calls EXCEPT ![c].pc = "polling"]
           \/ Answer(c, "throw")
        /\ UNCHANGED <<block, seen, highest, receipts>>

(* Mutant: any status that is not an error is taken for a confirmation.    *)
PollStatusHasty(c) ==
    LET tx == calls[c].tx
    IN  /\ calls[c].pc = "polling"
        /\ \/ /\ chain[tx] # "failed"
              /\ Answer(c, "ok")
              /\ receipts' = [receipts EXCEPT ![tx] = @ + 1]
           \/ /\ chain[tx] = "failed"
              /\ Answer(c, "error") /\ UNCHANGED receipts
        /\ UNCHANGED <<block, seen, highest, chain>>

(* Mutant: one poll too many.                                              *)
PollStatusOnceMore(c) ==
    /\ calls[c].pc = "polling"
    /\ IF calls[c].tries < MaxRetries
         THEN calls' = [calls EXCEPT ![c].tries = @ + 1]
         ELSE Answer(c, "error")
    /\ UNCHANGED <<block, seen, highest, chain, receipts>>

(* One poll of the signature's status; after MaxRetries of them the call   *)
(* gives up, with the transaction possibly still on its way.               *)
PollStatus(c) ==
    LET tx == calls[c].tx
    IN  /\ calls[c].pc = "polling"
        /\ \/ /\ chain[tx] = "confirmed"
              /\ Answer(c, "ok")
              /\ receipts' = [receipts EXCEPT ![tx] = @ + 1]
           \/ /\ chain[tx] = "failed"
              /\ Answer(c, "error") /\ UNCHANGED receipts
           \/ /\ chain[tx] \in {"none", "sent"}
              /\ IF calls[c].tries + 1 < MaxRetries
                   THEN calls' = [calls EXCEPT ![c].tries = @ + 1]
                   ELSE Answer(c, "error")
              /\ UNCHANGED receipts
        /\ UNCHANGED <<block, seen, highest, chain>>

(* Signing or an RPC call throws.                                          *)
Throws(c) ==
    /\ calls[c].pc \notin {"idle", "answered"}
    /\ Answer(c, "throw")
    /\ UNCHANGED <<block, seen, highest, chain, receipts>>

(* The caller has the answer.                                              *)
Return(c) ==
    /\ calls[c].pc = "answered"
    /\ calls' = [calls EXCEPT ![c] = NoCall]
    /\ UNCHANGED <<block, seen, highest, chain, receipts>>

-----------------------------------------------------------------------------
Init ==
    /\ block = 0
    /\ seen = {} /\ highest = 0
    /\ calls = [c \in Calls |-> NoCall]
    /\ chain = [tx \in Transactions |-> IF tx \in Txs THEN "none" ELSE "new"]
    /\ receipts = [tx \in Transactions |-> 0]

Step(c) ==
    \/ SettleTransaction(c)
    \/ SettleAccount(c)
    \/ Simulate(c)
    \/ SendTransaction(c)
    \/ PollStatus(c)
    \/ Throws(c)

Chain == Tick \/ \E tx \in Transactions : Land(tx)

(* A client's transaction is presented once its blockhash exists.          *)
Presentable == {tx \in Txs : Born[tx] <= block} \cup Accounts

Next ==
    \/ Chain
    \/ \E c \in Calls :
          \/ \E pay \in Presentable : ProcessPayment(c, pay)
          \/ Step(c)
          \/ Return(c)

Spec == Init /\ [][Next]_vars

-----------------------------------------------------------------------------
(* Properties. *)

(* With enableDuplicateCheck a payment earns one successful answer: its    *)
(* transaction is not settled twice, concurrently or after the store has   *)
(* dropped it, and of the transactions built for a settlement account one  *)
(* succeeds at most.                                                       *)
OneReceiptPerPayment ==
    /\ DuplicateCheck => \A tx \in Txs : receipts[tx] <= 1
    /\ \A tx \in Built : receipts[tx] <= 1
    /\ \A t, u \in Built :
          t[1] = u[1] /\ receipts[t] > 0 /\ receipts[u] > 0 => t = u

(* A success is answered only for a confirmed transaction, and the         *)
(* facilitator broadcasts, and pays the fee of, only transactions that     *)
(* isValidTransaction() accepted or that it has built itself.              *)
SettlesOnlyPayments ==
    \A tx \in Transactions :
       /\ receipts[tx] > 0 => chain[tx] = "confirmed"
       /\ chain[tx] \in {"sent", "confirmed"} => tx \in Valid \cup Built
=============================================================================
