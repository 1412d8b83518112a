----------------------- MODULE ExactFacilitator_proofs -----------------------
(***************************************************************************)
(* Proofs about ExactFacilitator, for any transactions, settlement         *)
(* accounts, number of concurrent calls and block heights that             *)
(* HeightsAreSound admits.                                                 *)
(***************************************************************************)
EXTENDS ExactFacilitator, TLAPS

Active == {"simulating", "sending", "polling"}

-----------------------------------------------------------------------------
(* The inductive invariant, in parts. *)

(* What handleSettle() signs, simulates and broadcasts was verified, or    *)
(* built by itself; a client's transaction exists by then.                 *)
VerifiedInv ==
    \A c \in Calls :
       /\ calls[c].pc \in Active => calls[c].tx \in Valid \cup Built
       /\ calls[c].pc = "signing" /\ calls[c].pay \in Txs
             => Born[calls[c].pay] <= block

(* A transaction that passed the duplicate check is in the store until it  *)
(* has expired.                                                            *)
SeenInv ==
    DuplicateCheck => \A t \in Txs :
       (receipts[t] > 0 \/ \E c \in Calls : calls[c].pc \in Active
                                            /\ calls[c].tx = t)
          => t \in seen \/ Expires[t] < block

(* A transaction not built yet is nobody's.                                *)
NewInv ==
    \A t \in Built : chain[t] = "new" =>
       /\ receipts[t] = 0
       /\ \A c \in Calls : calls[c].pc \in Active => calls[c].tx # t

(* The calls that may still succeed: a call that has yet to simulate an    *)
(* expired transaction never will.                                         *)
Entitled(k, b) ==
    \/ k.pc \in {"sending", "polling"}
    \/ k.pc = "simulating" /\ (k.tx \in Txs => b <= Expires[k.tx])

Guarded(t) == t \in Built \/ DuplicateCheck

(* Of the calls for one transaction one may succeed, and only if none has. *)
UniqueInv ==
    /\ \A c \in Calls : Entitled(calls[c], block) /\ Guarded(calls[c].tx) =>
          /\ receipts[calls[c].tx] = 0
          /\ \A d \in Calls : Entitled(calls[d], block) /\ d # c
                                 => calls[d].tx # calls[c].tx
    /\ \A t \in Transactions : Guarded(t) => receipts[t] <= 1

(* A settlement account is emptied once.                                   *)
AccountInv ==
    \A t, u \in Built :
       t[1] = u[1] /\ chain[t] = "confirmed" /\ chain[u] = "confirmed"
          => t = u

ExactInv ==
    /\ TypeOK /\ VerifiedInv /\ SeenInv /\ NewInv /\ UniqueInv
    /\ AccountInv /\ SettlesOnlyPayments

-----------------------------------------------------------------------------
(* Types. *)

Running == [pc : Active, tx : Transactions, tries : 0..(MaxRetries - 1)]
Signing == [pc : {"signing"}, pay : Valid \cup Accounts]
Answered == [pc : {"answered"}, res : {"ok", "error", "throw"}]

(* A call is idle, being signed, running or answered.                      *)
LEMMA CallParts == Call = {NoCall} \cup Signing \cup Running \cup Answered
    BY DEF Call, Signing, Running, Answered, Active

(* A call past the duplicate check has a transaction, one before it a      *)
(* payment.                                                                *)
LEMMA CallType ==
    ASSUME TypeOK, NEW c \in Calls
    PROVE  /\ calls[c].pc \in Active =>
                 /\ calls[c] \in Running /\ calls[c].tx \in Transactions
                 /\ calls[c].tries \in 0..(MaxRetries - 1)
           /\ calls[c].pc = "signing" => calls[c].pay \in Valid \cup Accounts
<1>1. calls[c] \in {NoCall} \cup Signing \cup Running \cup Answered
    BY CallParts DEF TypeOK
<1>2. CASE calls[c] = NoCall
    BY <1>2 DEF NoCall, Active
<1>3. CASE calls[c] \in Signing
    BY <1>3 DEF Signing, Active
<1>4. CASE calls[c] \in Running
    BY <1>4 DEF Running, Active
<1>5. CASE calls[c] \in Answered
    BY <1>5 DEF Answered, Active
<1> QED BY <1>1, <1>2, <1>3, <1>4, <1>5

(* A step of a call changes that call only.                                *)
Becomes(c, k) == calls' = [calls EXCEPT ![c] = k]

(* A step that turns call c into k leaves the other calls alone.           *)
LEMMA BecomesType ==
    ASSUME TypeOK, NEW c \in Calls, NEW k \in Call, Becomes(c, k)
    PROVE  /\ calls' \in [Calls -> Call]
           /\ calls'[c] = k
           /\ \A d \in Calls : d # c => calls'[d] = calls[d]
    BY DEF TypeOK, Becomes

Res == {"ok", "error", "throw"}

(* An answer turns a call into an answered one.                            *)
LEMMA AnswerBecomes ==
    ASSUME NEW c \in Calls, NEW res \in Res, Answer(c, res)
    PROVE  \E k \in Answered : Becomes(c, k) /\ k \in Call
<1>1. [pc |-> "answered", res |-> res] \in Answered
    BY DEF Answered, Res
<1> QED BY <1>1, CallParts DEF Answer, Becomes

(* Handing on a transaction turns a call into one that simulates it.       *)
LEMMA SendBecomes ==
    ASSUME NEW c \in Calls, NEW t \in Transactions, Send(c, t)
    PROVE  \E k \in Running : /\ Becomes(c, k) /\ k \in Call
                              /\ k.pc = "simulating" /\ k.tx = t
<1>1. [pc |-> "simulating", tx |-> t, tries |-> 0] \in Running
    BY ExactConstants DEF Running, Active
<1> QED BY <1>1, CallParts DEF Send, Becomes

(* A running call goes on to its next stage.                               *)
LEMMA GoesOn ==
    ASSUME TypeOK, NEW c \in Calls, calls[c].pc \in Active,
           NEW pc \in Active, calls' = [calls EXCEPT ![c].pc = pc]
    PROVE  \E k \in Running : /\ Becomes(c, k) /\ k \in Call
                              /\ k.pc = pc /\ k.tx = calls[c].tx
<1> DEFINE k == [calls[c] EXCEPT !.pc = pc]
<1>1. calls' = [calls EXCEPT ![c] = k]
    BY DEF TypeOK
<1>2. calls[c] \in Running
    BY CallType
<1>3. k \in Running /\ k.pc = pc /\ k.tx = calls[c].tx
    BY <1>2 DEF Running
<1> QED BY <1>1, <1>3, CallParts DEF Becomes

(* A poll without a verdict leaves the call where it is.                   *)
LEMMA PollsAgain ==
    ASSUME TypeOK, NEW c \in Calls, calls[c].pc \in Active,
           calls[c].tries + 1 < MaxRetries,
           calls' = [calls EXCEPT ![c].tries = calls[c].tries + 1]
    PROVE  \E k \in Running : /\ Becomes(c, k) /\ k \in Call
                              /\ k.pc = calls[c].pc /\ k.tx = calls[c].tx
<1> DEFINE k == [calls[c] EXCEPT !.tries = calls[c].tries + 1]
<1>1. calls' = [calls EXCEPT ![c] = k]
    BY DEF TypeOK
<1>2. calls[c] \in Running /\ calls[c].tries + 1 \in 0..(MaxRetries - 1)
    BY CallType, ExactConstants
<1>3. k \in Running /\ k.pc = calls[c].pc /\ k.tx = calls[c].tx
    BY <1>2 DEF Running
<1> QED BY <1>1, <1>3, CallParts DEF Becomes

-----------------------------------------------------------------------------
(* Steps of a call. *)

(* A call that goes on with its transaction, no more entitled than before, *)
(* or that ends.                                                           *)
Yields(c, k) ==
    \/ k.pc \notin Active /\ k.pc # "signing"
    \/ /\ calls[c].pc \in Active /\ k.pc \in Active /\ k.tx = calls[c].tx
       /\ Entitled(k, block) => Entitled(calls[c], block)

(* Only a running call may still succeed.                                  *)
LEMMA EntitledIsActive ==
    ASSUME NEW k, NEW b, Entitled(k, b) PROVE k.pc \in Active
    BY DEF Entitled, Active

(* A call that gives up or goes on with the transaction it has takes no    *)
(* right to succeed from any other.                                        *)
LEMMA YieldsStep ==
    ASSUME ExactInv, NEW c \in Calls, NEW k \in Call, Becomes(c, k),
           Yields(c, k), UNCHANGED <<block, receipts, seen>>
    PROVE  /\ VerifiedInv' /\ SeenInv' /\ UniqueInv'
           /\ \A d \in Calls : calls'[d].pc \in Active =>
                 calls[d].pc \in Active /\ calls'[d].tx = calls[d].tx
<1>1. /\ calls'[c] = k
      /\ \A d \in Calls : d # c => calls'[d] = calls[d]
    BY BecomesType DEF ExactInv
<1>2. \A d \in Calls : calls'[d].pc \in Active =>
         calls[d].pc \in Active /\ calls'[d].tx = calls[d].tx
    BY <1>1 DEF Yields
<1>3. \A d \in Calls : calls'[d].pc = "signing" => calls'[d] = calls[d]
    BY <1>1 DEF Yields, Active
<1>4. \A d \in Calls : Entitled(calls'[d], block) =>
         Entitled(calls[d], block) /\ calls'[d].tx = calls[d].tx
  <2> SUFFICES ASSUME NEW d \in Calls, Entitled(calls'[d], block)
               PROVE  Entitled(calls[d], block) /\ calls'[d].tx = calls[d].tx
      OBVIOUS
  <2>1. CASE d = c
    <3>1. k.pc \in Active
        BY <1>1, <2>1, EntitledIsActive
    <3> QED BY <1>1, <2>1, <3>1 DEF Yields
  <2> QED BY <1>1, <2>1
<1>5. VerifiedInv'
    BY <1>2, <1>3 DEF ExactInv, VerifiedInv
<1>6. SeenInv'
    BY <1>2 DEF ExactInv, SeenInv
<1>7. UniqueInv'
  <2>1. UniqueInv
      BY DEF ExactInv
  <2>2. ASSUME NEW d \in Calls, Entitled(calls'[d], block),
               Guarded(calls'[d].tx)
        PROVE  /\ receipts[calls'[d].tx] = 0
               /\ \A e \in Calls : Entitled(calls'[e], block) /\ e # d
                                      => calls'[e].tx # calls'[d].tx
      BY <1>4, <2>1, <2>2 DEF UniqueInv
  <2> QED BY <2>1, <2>2 DEF UniqueInv, Guarded, Entitled
<1> QED BY <1>2, <1>5, <1>6, <1>7

(* A call that ends leaves everything else alone.                          *)
LEMMA EndStep ==
    ASSUME ExactInv, NEW c \in Calls, NEW k \in Call, Becomes(c, k),
           Yields(c, k),
           UNCHANGED <<block, receipts, seen, highest, chain>>
    PROVE  ExactInv'
<1>1. TypeOK'
    BY BecomesType DEF ExactInv, TypeOK
<1>2. NewInv'
    BY YieldsStep DEF ExactInv, NewInv
<1>3. AccountInv' /\ SettlesOnlyPayments'
    BY DEF ExactInv, AccountInv, SettlesOnlyPayments
<1> QED BY <1>1, <1>2, <1>3, YieldsStep DEF ExactInv

(* An answer that is no success keeps the invariant.                       *)
LEMMA AnswerStep ==
    ASSUME ExactInv, NEW c \in Calls, NEW res \in Res, Answer(c, res),
           UNCHANGED <<block, receipts, seen, highest, chain>>
    PROVE  ExactInv'
<1>1. PICK k \in Answered : Becomes(c, k) /\ k \in Call
    BY AnswerBecomes
<1>2. Yields(c, k)
    BY <1>1 DEF Answered, Yields, Active
<1> QED BY <1>1, <1>2, EndStep

(* A call that returns makes room for another and keeps the invariant.     *)
LEMMA ReturnStep ==
    ASSUME ExactInv, NEW c \in Calls, Return(c) PROVE ExactInv'
<1>1. Becomes(c, NoCall) /\ NoCall \in Call
    BY CallParts DEF Return, Becomes
<1>2. Yields(c, NoCall)
    BY DEF NoCall, Yields, Active
<1> QED BY <1>1, <1>2, EndStep DEF Return

(* A verified payment waits to be signed.                                  *)
LEMMA ProcessStep ==
    ASSUME ExactInv, NEW c \in Calls, NEW pay \in Presentable,
           ProcessPayment(c, pay)
    PROVE  ExactInv'
<1> USE DEF ProcessPayment
<1>1. CASE Answer(c, "error") \/ Answer(c, "throw")
    BY <1>1, AnswerStep DEF Res
<1>2. CASE Verified(pay)
           /\ calls' = [calls EXCEPT ![c] = [pc |-> "signing", pay |-> pay]]
  <2> DEFINE k == [pc |-> "signing", pay |-> pay]
  <2>1. k \in Call /\ Becomes(c, k)
      BY <1>2, CallParts DEF Signing, Verified, Becomes
  <2>2. /\ calls' \in [Calls -> Call]
        /\ calls'[c] = k
        /\ \A d \in Calls : d # c => calls'[d] = calls[d]
      BY <2>1, BecomesType DEF ExactInv
  <2>3. \A d \in Calls : calls'[d].pc \in Active => calls'[d] = calls[d]
      BY <2>2 DEF Active
  <2>4. \A d \in Calls : Entitled(calls'[d], block) =>
           Entitled(calls[d], block) /\ calls'[d].tx = calls[d].tx
      BY <2>3, EntitledIsActive
  <2>5. TypeOK'
      BY <2>2 DEF ExactInv, TypeOK
  <2>6. VerifiedInv'
    <3>1. pay \in Txs => Born[pay] <= block
        BY ExactConstants DEF Presentable
    <3>2. ASSUME NEW d \in Calls, calls'[d].pc = "signing",
                 calls'[d].pay \in Txs
          PROVE  Born[calls'[d].pay] <= block
        BY <2>2, <3>1, <3>2 DEF ExactInv, VerifiedInv
    <3> QED BY <2>3, <3>2 DEF ExactInv, VerifiedInv
  <2>7. SeenInv'
      BY <2>3 DEF ExactInv, SeenInv
  <2>8. NewInv'
      BY <2>3 DEF ExactInv, NewInv
  <2>9. UniqueInv'
      BY <2>4 DEF ExactInv, UniqueInv, Guarded, Entitled
  <2>10. AccountInv' /\ SettlesOnlyPayments'
      BY DEF ExactInv, AccountInv, SettlesOnlyPayments
  <2> QED BY <2>5, <2>6, <2>7, <2>8, <2>9, <2>10 DEF ExactInv
<1> QED BY <1>1, <1>2

(* A call begins to run with t: what has to hold for it to be alone.       *)
LEMMA StartStep ==
    ASSUME ExactInv, NEW c \in Calls, NEW t \in Valid \cup Built,
           t \in Transactions, Send(c, t), UNCHANGED <<block, receipts>>,
           Guarded(t) /\ (t \in Txs => block <= Expires[t]) =>
              /\ receipts[t] = 0
              /\ \A d \in Calls : calls[d].pc \in Active => calls[d].tx # t
    PROVE  /\ calls' \in [Calls -> Call] /\ VerifiedInv' /\ UniqueInv'
           /\ \A d \in Calls : calls'[d].pc \in Active =>
                 \/ calls[d].pc \in Active /\ calls'[d].tx = calls[d].tx
                 \/ calls'[d].tx = t
<1>1. PICK k \in Running : /\ Becomes(c, k) /\ k \in Call
                           /\ k.pc = "simulating" /\ k.tx = t
    BY SendBecomes
<1>2. /\ calls' \in [Calls -> Call]
      /\ calls'[c] = k
      /\ \A d \in Calls : d # c => calls'[d] = calls[d]
    BY <1>1, BecomesType DEF ExactInv
<1>3. VerifiedInv'
    BY <1>1, <1>2 DEF ExactInv, VerifiedInv, Active
<1>4. UniqueInv'
  <2>1. UniqueInv
      BY DEF ExactInv
  <2>2. ASSUME NEW d \in Calls, NEW e \in Calls, Entitled(calls'[d], block),
               Guarded(calls'[d].tx), Entitled(calls'[e], block), e # d
        PROVE  calls'[e].tx # calls'[d].tx
    <3>1. CASE d # c /\ e # c
        BY <1>2, <2>1, <2>2, <3>1 DEF UniqueInv
    <3>2. CASE d = c
      <4>1. Guarded(t) /\ (t \in Txs => block <= Expires[t])
          BY <1>1, <1>2, <2>2, <3>2 DEF Entitled
      <4>2. calls[e].pc \in Active /\ calls'[e] = calls[e]
          BY <1>2, <2>2, <3>2, EntitledIsActive
      <4> QED BY <1>1, <1>2, <3>2, <4>1, <4>2
    <3>3. CASE e = c
      <4>1. t \in Txs => block <= Expires[t]
          BY <1>1, <1>2, <2>2, <3>3 DEF Entitled
      <4>2. calls[d].pc \in Active /\ calls'[d] = calls[d]
          BY <1>2, <2>2, <3>3, EntitledIsActive
      <4>3. calls'[e].tx = t
          BY <1>1, <1>2, <3>3
      <4>4. calls'[d].tx = t => Guarded(t)
          BY <2>2
      <4> QED BY <4>1, <4>2, <4>3, <4>4
    <3> QED BY <3>1, <3>2, <3>3
  <2>3. ASSUME NEW d \in Calls, Entitled(calls'[d], block),
               Guarded(calls'[d].tx)
        PROVE  receipts[calls'[d].tx] = 0
    <3>1. CASE d = c
        BY <1>1, <1>2, <2>3, <3>1 DEF Entitled
    <3> QED BY <1>2, <2>1, <2>3, <3>1 DEF UniqueInv
  <2> QED BY <2>1, <2>2, <2>3 DEF UniqueInv, Guarded, Entitled
<1> QED BY <1>1, <1>2, <1>3, <1>4

(* prune() drops a transaction only once a newer one shows it expired.     *)
LEMMA AddStep ==
    ASSUME TypeOK, NEW t \in Txs, Born[t] <= block, Add(t)
    PROVE  /\ highest' \in Nat /\ seen' \subseteq Txs /\ t \in seen'
           /\ \A u \in seen : u \in seen' \/ Expires[u] < block
<1>1. /\ Height[t] \in Nat /\ seen \subseteq Txs /\ highest \in Nat
      /\ block \in Nat /\ Born[t] \in Nat /\ MaxAge \in Nat
    BY ExactConstants DEF TypeOK
<1>2. highest' \in Nat /\ seen' \subseteq Txs /\ t \in seen'
    BY <1>1 DEF Add, Prune
<1>3. ASSUME NEW u \in seen, u \notin seen' PROVE Expires[u] < block
  <2>1. u \in Txs /\ Height[u] \in Nat /\ Expires[u] \in Nat
      BY <1>1, ExactConstants
  <2>2. ~(Height[u] >= Height[t] - MaxAge)
      BY <1>3 DEF Add, Prune
  <2>3. Height[t] > Height[u] + MaxAge
      BY <1>1, <2>1, <2>2
  <2>4. Born[t] > Expires[u]
      BY <2>1, <2>3, HeightsAreSound
  <2> QED BY <1>1, <2>1, <2>4
<1> QED BY <1>2, <1>3

(* The duplicate check keeps the invariant: what passes it is new, or has  *)
(* expired.                                                                *)
LEMMA SettleTransactionStep ==
    ASSUME ExactInv, NEW c \in Calls, SettleTransaction(c)
    PROVE  ExactInv'
<1> DEFINE t == calls[c].pay
<1>1. /\ calls[c].pc = "signing" /\ t \in Txs
      /\ UNCHANGED <<block, chain, receipts>>
    BY DEF SettleTransaction
<1>2. t \in Valid /\ Born[t] <= block /\ t \notin Built
      /\ t \in Transactions
    BY <1>1, CallType, ExactConstants
    DEF ExactInv, VerifiedInv, Transactions
<1>3. CASE Answer(c, "error") /\ UNCHANGED <<seen, highest>>
    BY <1>1, <1>3, AnswerStep DEF Res
<1>4. CASE DuplicateCheck /\ t \notin seen /\ Add(t) /\ Send(c, t)
  <2>1. block <= Expires[t] =>
           /\ receipts[t] = 0
           /\ \A d \in Calls : calls[d].pc \in Active => calls[d].tx # t
    <3>1. receipts[t] \in Nat /\ Expires[t] \in Nat /\ block \in Nat
        BY <1>1, <1>2, ExactConstants DEF ExactInv, TypeOK
    <3> QED BY <1>1, <1>4, <3>1 DEF ExactInv, SeenInv
  <2>2. /\ calls' \in [Calls -> Call] /\ VerifiedInv' /\ UniqueInv'
        /\ \A d \in Calls : calls'[d].pc \in Active =>
              \/ calls[d].pc \in Active /\ calls'[d].tx = calls[d].tx
              \/ calls'[d].tx = t
      BY <1>1, <1>2, <1>4, <2>1, StartStep
  <2>3. /\ highest' \in Nat /\ seen' \subseteq Txs /\ t \in seen'
        /\ \A u \in seen : u \in seen' \/ Expires[u] < block
      BY <1>1, <1>2, <1>4, AddStep DEF ExactInv
  <2>4. TypeOK'
      BY <1>1, <2>2, <2>3 DEF ExactInv, TypeOK
  <2>5. SeenInv'
      BY <1>1, <2>2, <2>3 DEF ExactInv, SeenInv
  <2>6. NewInv'
      BY <1>1, <1>2, <2>2 DEF ExactInv, NewInv
  <2>7. AccountInv' /\ SettlesOnlyPayments'
      BY <1>1 DEF ExactInv, AccountInv, SettlesOnlyPayments
  <2> QED BY <2>2, <2>4, <2>5, <2>6, <2>7 DEF ExactInv
<1>5. CASE ~DuplicateCheck /\ Send(c, t) /\ UNCHANGED <<seen, highest>>
  <2>1. ~Guarded(t)
      BY <1>2, <1>5 DEF Guarded
  <2>2. /\ calls' \in [Calls -> Call] /\ VerifiedInv' /\ UniqueInv'
        /\ \A d \in Calls : calls'[d].pc \in Active =>
              \/ calls[d].pc \in Active /\ calls'[d].tx = calls[d].tx
              \/ calls'[d].tx = t
      BY <1>1, <1>2, <1>5, <2>1, StartStep
  <2>3. TypeOK'
      BY <1>1, <1>5, <2>2 DEF ExactInv, TypeOK
  <2>4. SeenInv'
      BY <1>5 DEF SeenInv
  <2>5. NewInv'
      BY <1>1, <1>2, <2>2 DEF ExactInv, NewInv
  <2>6. AccountInv' /\ SettlesOnlyPayments'
      BY <1>1 DEF ExactInv, AccountInv, SettlesOnlyPayments
  <2> QED BY <2>2, <2>3, <2>4, <2>5, <2>6 DEF ExactInv
<1> QED BY <1>3, <1>4, <1>5 DEF SettleTransaction

(* Only a confirmation, and only for a verified transaction, is news for   *)
(* the chain's side of the invariant.                                      *)
LEMMA ChainStep ==
    ASSUME ExactInv, NEW t \in Transactions,
           NEW st \in {"none", "sent", "failed"},
           st = "sent" => t \in Valid \cup Built,
           chain[t] # "confirmed",
           chain' = [chain EXCEPT ![t] = st], UNCHANGED receipts
    PROVE  /\ chain' \in [Transactions -> {"new", "none", "sent", "confirmed",
                                           "failed"}]
           /\ AccountInv' /\ SettlesOnlyPayments'
           /\ \A u \in Transactions : chain'[u] = "new" => chain[u] = "new"
<1>1. chain \in [Transactions -> {"new", "none", "sent", "confirmed",
                                  "failed"}]
    BY DEF ExactInv, TypeOK
<1>2. /\ chain'[t] = st
      /\ \A u \in Transactions : u # t => chain'[u] = chain[u]
    BY <1>1
<1>3. receipts[t] \in Nat /\ ~(receipts[t] > 0)
    BY DEF ExactInv, TypeOK, SettlesOnlyPayments
<1>4. AccountInv'
  <2>1. \A u \in Built : chain'[u] = "confirmed" => chain[u] = "confirmed"
      BY <1>2 DEF Transactions
  <2> QED BY <2>1 DEF ExactInv, AccountInv
<1>5. SettlesOnlyPayments'
    BY <1>2, <1>3 DEF ExactInv, SettlesOnlyPayments
<1> QED BY <1>1, <1>2, <1>4, <1>5

(* A settlement account gets a transaction that no other call has.         *)
LEMMA SettleAccountStep ==
    ASSUME ExactInv, NEW c \in Calls, SettleAccount(c)
    PROVE  ExactInv'
<1> DEFINE a == calls[c].pay
<1>1. /\ a \in Accounts /\ UNCHANGED <<block, seen, highest, receipts>>
    BY DEF SettleAccount
<1>2. PICK n \in 1..MaxBuilt :
         /\ chain[<<a, n>>] = "new" /\ Send(c, <<a, n>>)
         /\ chain' = [chain EXCEPT ![<<a, n>>] = "none"]
    BY DEF SettleAccount
<1> DEFINE t == <<a, n>>
<1>3. t \in Built /\ t \in Transactions /\ t \notin Txs
    BY <1>1, ExactConstants DEF Built, Transactions
<1> HIDE DEF t
<1>4. /\ chain[t] = "new" /\ Send(c, t)
      /\ chain' = [chain EXCEPT ![t] = "none"]
    BY <1>2 DEF t
<1>5. /\ receipts[t] = 0
      /\ \A d \in Calls : calls[d].pc \in Active => calls[d].tx # t
    BY <1>3, <1>4 DEF ExactInv, NewInv
<1>6. /\ calls' \in [Calls -> Call] /\ VerifiedInv' /\ UniqueInv'
      /\ \A d \in Calls : calls'[d].pc \in Active =>
            \/ calls[d].pc \in Active /\ calls'[d].tx = calls[d].tx
            \/ calls'[d].tx = t
    BY <1>1, <1>3, <1>4, <1>5, StartStep
<1>7. /\ chain' \in [Transactions -> {"new", "none", "sent", "confirmed",
                                      "failed"}]
      /\ AccountInv' /\ SettlesOnlyPayments'
      /\ \A u \in Transactions : chain'[u] = "new" => chain[u] = "new"
    BY <1>1, <1>3, <1>4, <1>5, ChainStep
<1>8. TypeOK'
    BY <1>1, <1>6, <1>7 DEF ExactInv, TypeOK
<1>9. SeenInv'
    BY <1>1, <1>3, <1>6 DEF ExactInv, SeenInv
<1>10. NewInv'
  <2>1. chain'[t] # "new"
      BY <1>3, <1>4 DEF ExactInv, TypeOK
  <2> QED BY <1>1, <1>6, <1>7, <2>1 DEF ExactInv, NewInv, Transactions
<1> QED BY <1>6, <1>7, <1>8, <1>9, <1>10 DEF ExactInv

(* A simulation ends the call or sends it on.                              *)
LEMMA SimulateStep ==
    ASSUME ExactInv, NEW c \in Calls, Simulate(c) PROVE ExactInv'
<1>1. /\ calls[c].pc = "simulating"
      /\ UNCHANGED <<block, seen, highest, chain, receipts>>
    BY DEF Simulate
<1>2. CASE Answer(c, "error")
    BY <1>1, <1>2, AnswerStep DEF Res
<1>3. CASE /\ Usable(calls[c].tx)
           /\ calls' = [calls EXCEPT ![c].pc = "sending"]
  <2>1. PICK k \in Running : /\ Becomes(c, k) /\ k \in Call
                             /\ k.pc = "sending" /\ k.tx = calls[c].tx
      BY <1>1, <1>3, GoesOn DEF Active, ExactInv
  <2>2. Entitled(calls[c], block)
      BY <1>1, <1>3, ExactConstants DEF Usable, Entitled
  <2>3. Yields(c, k)
      BY <1>1, <2>1, <2>2 DEF Yields, Active
  <2> QED BY <1>1, <2>1, <2>3, EndStep
<1> QED BY <1>2, <1>3 DEF Simulate

(* A broadcast adds a verified or built transaction to the chain.          *)
LEMMA SendTransactionStep ==
    ASSUME ExactInv, NEW c \in Calls, SendTransaction(c) PROVE ExactInv'
<1> DEFINE t == calls[c].tx
<1>1. /\ calls[c].pc = "sending" /\ calls[c].pc \in Active
      /\ UNCHANGED <<block, seen, highest, receipts>>
      /\ chain' = [chain EXCEPT ![t] = IF chain[t] = "none" THEN "sent"
                                                            ELSE chain[t]]
    BY DEF SendTransaction, Active
<1>2. t \in Transactions /\ t \in Valid \cup Built
    BY <1>1, CallType DEF ExactInv, VerifiedInv
<1>3. PICK k \in Call : Becomes(c, k) /\ Yields(c, k)
  <2>1. CASE calls' = [calls EXCEPT ![c].pc = "polling"]
    <3>1. PICK k \in Running : /\ Becomes(c, k) /\ k \in Call
                               /\ k.pc = "polling" /\ k.tx = calls[c].tx
        BY <1>1, <2>1, GoesOn DEF Active, ExactInv
    <3>2. Yields(c, k)
        BY <1>1, <3>1 DEF Yields, Active, Entitled
    <3> QED BY <3>1, <3>2
  <2>2. CASE Answer(c, "throw")
    <3>1. PICK k \in Answered : Becomes(c, k) /\ k \in Call
        BY <2>2, AnswerBecomes DEF Res
    <3>2. Yields(c, k)
        BY <3>1 DEF Answered, Yields, Active
    <3> QED BY <3>1, <3>2
  <2> QED BY <2>1, <2>2 DEF SendTransaction
<1>4. CASE chain[t] # "none"
  <2>1. chain' = chain
      BY <1>1, <1>2, <1>4 DEF ExactInv, TypeOK
  <2> QED BY <1>1, <1>3, <2>1, EndStep
<1>5. CASE chain[t] = "none"
  <2>1. chain' = [chain EXCEPT ![t] = "sent"]
      BY <1>1, <1>5
  <2>2. /\ chain' \in [Transactions -> {"new", "none", "sent", "confirmed",
                                        "failed"}]
        /\ AccountInv' /\ SettlesOnlyPayments'
        /\ \A u \in Transactions : chain'[u] = "new" => chain[u] = "new"
      BY <1>1, <1>2, <1>5, <2>1, ChainStep
  <2>3. /\ VerifiedInv' /\ SeenInv' /\ UniqueInv'
        /\ \A d \in Calls : calls'[d].pc \in Active =>
              calls[d].pc \in Active /\ calls'[d].tx = calls[d].tx
      BY <1>1, <1>3, YieldsStep
  <2>4. TypeOK'
      BY <1>1, <1>3, <2>2, BecomesType DEF ExactInv, TypeOK
  <2>5. NewInv'
      BY <1>1, <2>2, <2>3 DEF ExactInv, NewInv, Transactions
  <2> QED BY <2>2, <2>3, <2>4, <2>5 DEF ExactInv
<1> QED BY <1>4, <1>5

(* The one step that gives a success: the call was the only one that may   *)
(* have one, and it ends.                                                  *)
LEMMA SuccessStep ==
    ASSUME ExactInv, NEW c \in Calls, calls[c].pc = "polling",
           chain[calls[c].tx] = "confirmed", Answer(c, "ok"),
           receipts' = [receipts EXCEPT ![calls[c].tx] =
                                           receipts[calls[c].tx] + 1],
           UNCHANGED <<block, seen, highest, chain>>
    PROVE  ExactInv'
<1> DEFINE t == calls[c].tx
<1>1. t \in Transactions /\ calls[c].pc \in Active
    BY CallType DEF Active, ExactInv
<1>2. PICK k \in Answered : Becomes(c, k) /\ k \in Call
    BY AnswerBecomes DEF Res
<1>3. /\ calls' \in [Calls -> Call] /\ calls'[c].pc = "answered"
      /\ \A d \in Calls : d # c => calls'[d] = calls[d]
    BY <1>2, BecomesType DEF ExactInv, Answered
<1>4. /\ receipts \in [Transactions -> Nat] /\ receipts[t] \in Nat
      /\ receipts' \in [Transactions -> Nat]
      /\ receipts'[t] = receipts[t] + 1
      /\ \A u \in Transactions : u # t => receipts'[u] = receipts[u]
    BY <1>1 DEF ExactInv, TypeOK
<1>5. \A d \in Calls : calls'[d].pc \in Active \cup {"signing"}
                           => d # c /\ calls'[d] = calls[d]
    BY <1>3 DEF Active
<1>6. TypeOK'
    BY <1>3, <1>4 DEF ExactInv, TypeOK
<1>7. VerifiedInv'
    BY <1>5 DEF ExactInv, VerifiedInv
<1>8. SeenInv'
  <2> SUFFICES ASSUME DuplicateCheck, NEW u \in Txs,
                      receipts'[u] > 0 \/ \E d \in Calls :
                         calls'[d].pc \in Active /\ calls'[d].tx = u
               PROVE  u \in seen \/ Expires[u] < block
      BY DEF SeenInv
  <2>1. receipts[u] > 0 \/ \E d \in Calls :
           calls[d].pc \in Active /\ calls[d].tx = u
    <3>1. u \in Transactions
        BY DEF Transactions
    <3> QED BY <1>1, <1>4, <1>5, <3>1
  <2> QED BY <2>1 DEF ExactInv, SeenInv
<1>9. NewInv'
  <2>1. ASSUME NEW u \in Built, chain[u] = "new"
        PROVE  u # t /\ u \in Transactions
      BY <2>1 DEF Transactions
  <2> QED BY <1>4, <1>5, <2>1 DEF ExactInv, NewInv
<1>10. UniqueInv'
  <2>1. UniqueInv
      BY DEF ExactInv
  <2>2. Entitled(calls[c], block)
      BY DEF Entitled
  <2>3. Guarded(t) => receipts[t] = 0
      BY <2>1, <2>2 DEF UniqueInv
  <2>4. ASSUME NEW d \in Calls, Entitled(calls'[d], block),
               Guarded(calls'[d].tx)
        PROVE  /\ receipts'[calls'[d].tx] = 0
               /\ \A e \in Calls : Entitled(calls'[e], block) /\ e # d
                                      => calls'[e].tx # calls'[d].tx
    <3>1. d # c /\ calls'[d] = calls[d] /\ calls[d].pc \in Active
        BY <1>5, <2>4, EntitledIsActive
    <3>2. calls[d].tx # t
        BY <2>1, <2>2, <2>4, <3>1 DEF UniqueInv
    <3>3. calls[d].tx \in Transactions
        BY <3>1, CallType DEF ExactInv
    <3>4. \A e \in Calls : Entitled(calls'[e], block)
                               => calls'[e] = calls[e]
        BY <1>5, EntitledIsActive
    <3> QED BY <1>4, <2>1, <2>4, <3>1, <3>2, <3>3, <3>4 DEF UniqueInv
  <2>5. ASSUME NEW u \in Transactions, Guarded(u) PROVE receipts'[u] <= 1
    <3>1. CASE u = t
        BY <1>4, <2>3, <2>5, <3>1
    <3> QED BY <1>4, <2>1, <2>5, <3>1 DEF UniqueInv
  <2> QED BY <2>4, <2>5 DEF UniqueInv, Guarded, Entitled
<1>11. AccountInv'
    BY DEF ExactInv, AccountInv
<1>12. SettlesOnlyPayments'
    BY <1>4 DEF ExactInv, SettlesOnlyPayments
<1> QED BY <1>6, <1>7, <1>8, <1>9, <1>10, <1>11, <1>12 DEF ExactInv

(* A poll ends the call, with a receipt when the chain confirmed.          *)
LEMMA PollStatusStep ==
    ASSUME ExactInv, NEW c \in Calls, PollStatus(c) PROVE ExactInv'
<1>1. /\ calls[c].pc = "polling" /\ calls[c].pc \in Active
      /\ UNCHANGED <<block, seen, highest, chain>>
    BY DEF PollStatus, Active
<1>2. CASE /\ chain[calls[c].tx] = "confirmed" /\ Answer(c, "ok")
           /\ receipts' = [receipts EXCEPT ![calls[c].tx] =
                                              receipts[calls[c].tx] + 1]
    BY <1>1, <1>2, SuccessStep
<1>3. CASE Answer(c, "error") /\ UNCHANGED receipts
    BY <1>1, <1>3, AnswerStep DEF Res
<1>4. CASE /\ calls[c].tries + 1 < MaxRetries /\ UNCHANGED receipts
           /\ calls' = [calls EXCEPT ![c].tries = calls[c].tries + 1]
  <2>1. PICK k \in Running : /\ Becomes(c, k) /\ k \in Call
                             /\ k.pc = calls[c].pc /\ k.tx = calls[c].tx
      BY <1>1, <1>4, PollsAgain DEF ExactInv
  <2>2. Yields(c, k)
      BY <1>1, <2>1 DEF Yields, Entitled
  <2> QED BY <1>1, <1>4, <2>1, <2>2, EndStep
<1> QED BY <1>2, <1>3, <1>4 DEF PollStatus

(* What a step of a call does to the call: it keeps its payment, and ends   *)
(* with a success only where a receipt is given, the payment's first.      *)
LEMMA CallStep ==
    ASSUME ExactInv, NEW c \in Calls, Step(c)
    PROVE  /\ block' = block /\ calls[c].pc \notin {"idle", "answered"}
           /\ \A d \in Calls : d # c => calls'[d] = calls[d]
           /\ calls'[c].pc \in Active \cup {"answered"}
           /\ calls'[c].pc \in Active =>
                 \/ calls[c].pc \in Active /\ calls'[c].tx = calls[c].tx
                 \/ /\ calls[c].pc = "signing"
                    /\ calls[c].pay \in Txs => calls'[c].tx = calls[c].pay
           /\ \/ /\ UNCHANGED receipts
                 /\ calls'[c].pc = "answered" => calls'[c].res # "ok"
              \/ /\ calls[c].pc = "polling" /\ calls[c].tx \in Transactions
                 /\ receipts' = [receipts EXCEPT ![calls[c].tx] =
                                                    receipts[calls[c].tx] + 1]
                 /\ Guarded(calls[c].tx) => receipts[calls[c].tx] = 0
<1> USE DEF Active
<1>1. calls \in [Calls -> Call]
    BY DEF ExactInv, TypeOK
<1>2. CASE SettleTransaction(c)
    BY <1>1, <1>2 DEF SettleTransaction, Answer, Send
<1>3. CASE SettleAccount(c)
    BY <1>1, <1>3, ExactConstants DEF SettleAccount, Send
<1>4. CASE Simulate(c) \/ SendTransaction(c)
  <2>1. calls[c].pc \in Active
      BY <1>4 DEF Simulate, SendTransaction
  <2>2. CASE \E res \in {"error", "throw"} : Answer(c, res)
      BY <1>1, <1>4, <2>1, <2>2 DEF Simulate, SendTransaction, Answer
  <2>3. CASE \E pc \in Active : calls' = [calls EXCEPT ![c].pc = pc]
    <3>1. PICK pc \in Active : calls' = [calls EXCEPT ![c].pc = pc]
        BY <2>3
    <3>2. PICK k \in Running : /\ Becomes(c, k) /\ k \in Call
                               /\ k.pc = pc /\ k.tx = calls[c].tx
        BY <2>1, <3>1, GoesOn DEF ExactInv
    <3> QED BY <1>1, <1>4, <2>1, <3>2 DEF Becomes, Simulate, SendTransaction
  <2> QED BY <1>4, <2>2, <2>3 DEF Simulate, SendTransaction
<1>5. CASE PollStatus(c)
  <2>1. /\ calls[c].pc = "polling" /\ calls[c].tx \in Transactions
        /\ UNCHANGED <<block, seen, highest, chain>>
      BY <1>5, CallType DEF PollStatus, ExactInv
  <2>2. CASE /\ Answer(c, "ok")
             /\ receipts' = [receipts EXCEPT ![calls[c].tx] =
                                                receipts[calls[c].tx] + 1]
    <3>1. Guarded(calls[c].tx) => receipts[calls[c].tx] = 0
        BY <2>1 DEF ExactInv, UniqueInv, Entitled
    <3> QED BY <1>1, <2>1, <2>2, <3>1 DEF Answer
  <2>3. CASE Answer(c, "error") /\ UNCHANGED receipts
      BY <1>1, <2>1, <2>3 DEF Answer
  <2>4. CASE /\ calls[c].tries + 1 < MaxRetries /\ UNCHANGED receipts
             /\ calls' = [calls EXCEPT ![c].tries = calls[c].tries + 1]
    <3>1. PICK k \in Running : /\ Becomes(c, k) /\ k \in Call
                               /\ k.pc = calls[c].pc /\ k.tx = calls[c].tx
        BY <2>1, <2>4, PollsAgain DEF ExactInv
    <3> QED BY <1>1, <2>1, <2>4, <3>1 DEF Becomes
  <2> QED BY <1>5, <2>2, <2>3, <2>4 DEF PollStatus
<1>6. CASE Throws(c)
    BY <1>1, <1>6 DEF Throws, Answer
<1> QED BY <1>2, <1>3, <1>4, <1>5, <1>6 DEF Step

-----------------------------------------------------------------------------
(* Steps of the chain. *)

(* Time only expires transactions.                                         *)
LEMMA TickStep == ASSUME ExactInv, Tick PROVE ExactInv'
<1>1. /\ block \in Nat /\ block' = block + 1
      /\ UNCHANGED <<seen, highest, calls, chain, receipts>>
    BY DEF Tick, ExactInv, TypeOK
<1>2. TypeOK' /\ NewInv' /\ AccountInv' /\ SettlesOnlyPayments'
    BY <1>1 DEF ExactInv, TypeOK, NewInv, AccountInv, SettlesOnlyPayments
<1>3. VerifiedInv'
  <2>1. \A t \in Txs : Born[t] <= block => Born[t] <= block'
      BY <1>1, ExactConstants
  <2> QED BY <1>1, <2>1 DEF ExactInv, VerifiedInv
<1>4. SeenInv'
  <2>1. \A t \in Txs : Expires[t] < block => Expires[t] < block'
      BY <1>1, ExactConstants
  <2> QED BY <1>1, <2>1 DEF ExactInv, SeenInv
<1>5. UniqueInv'
  <2>1. \A t \in Txs : block' <= Expires[t] => block <= Expires[t]
      BY <1>1, ExactConstants
  <2>2. \A c \in Calls : Entitled(calls[c], block')
                             => Entitled(calls[c], block)
      BY <2>1 DEF Entitled
  <2>3. UniqueInv
      BY DEF ExactInv
  <2>4. ASSUME NEW c \in Calls, Entitled(calls[c], block'),
               Guarded(calls[c].tx)
        PROVE  /\ receipts[calls[c].tx] = 0
               /\ \A d \in Calls : Entitled(calls[d], block') /\ d # c
                                      => calls[d].tx # calls[c].tx
      BY <2>2, <2>3, <2>4 DEF UniqueInv
  <2> QED BY <1>1, <2>3, <2>4 DEF UniqueInv, Guarded, Entitled
<1> QED BY <1>2, <1>3, <1>4, <1>5 DEF ExactInv

(* The chain confirms one transaction of an account at most.               *)
LEMMA LandStep ==
    ASSUME ExactInv, NEW t \in Transactions, Land(t) PROVE ExactInv'
<1>1. /\ chain[t] = "sent"
      /\ UNCHANGED <<block, seen, highest, calls, receipts>>
    BY DEF Land
<1>2. chain \in [Transactions -> {"new", "none", "sent", "confirmed",
                                  "failed"}]
    BY DEF ExactInv, TypeOK
<1>3. /\ chain' \in [Transactions -> {"new", "none", "sent", "confirmed",
                                      "failed"}]
      /\ AccountInv' /\ SettlesOnlyPayments'
      /\ \A u \in Transactions : chain'[u] = "new" => chain[u] = "new"
  <2>1. CASE chain' = [chain EXCEPT ![t] = "failed"]
      BY <1>1, <2>1, ChainStep
  <2>2. CASE chain' = [chain EXCEPT ![t] = "none"]
      BY <1>1, <2>2, ChainStep
  <2>3. CASE Usable(t) /\ chain' = [chain EXCEPT ![t] = "confirmed"]
    <3>1. /\ chain'[t] = "confirmed"
          /\ \A u \in Transactions : u # t => chain'[u] = chain[u]
        BY <1>2, <2>3
    <3>2. SettlesOnlyPayments'
        BY <1>1, <3>1 DEF ExactInv, SettlesOnlyPayments
    <3>3. ASSUME t \in Built, NEW u \in Built, u[1] = t[1]
          PROVE  chain[u] # "confirmed"
      <4>1. Open(t[1])
          BY <2>3, <3>3, ExactConstants DEF Usable
      <4>2. PICK a \in Accounts, n \in 1..MaxBuilt : u = <<a, n>>
          BY <3>3 DEF Built
      <4> QED BY <3>3, <4>1, <4>2 DEF Open
    <3>4. AccountInv'
      <4> SUFFICES ASSUME NEW u \in Built, NEW v \in Built, u[1] = v[1],
                          chain'[u] = "confirmed", chain'[v] = "confirmed"
                   PROVE  u = v
          BY DEF AccountInv
      <4>1. u \in Transactions /\ v \in Transactions
          BY DEF Transactions
      <4>2. CASE u # t /\ v # t
          BY <3>1, <4>1, <4>2 DEF ExactInv, AccountInv
      <4>3. CASE u = t /\ v # t
          BY <3>1, <3>3, <4>1, <4>3
      <4>4. CASE u # t /\ v = t
          BY <3>1, <3>3, <4>1, <4>4
      <4> QED BY <4>2, <4>3, <4>4
    <3> QED BY <1>2, <2>3, <3>1, <3>2, <3>4
  <2> QED BY <2>1, <2>2, <2>3 DEF Land
<1>4. TypeOK'
    BY <1>1, <1>3 DEF ExactInv, TypeOK
<1>5. VerifiedInv' /\ SeenInv'
    BY <1>1 DEF ExactInv, VerifiedInv, SeenInv
<1>6. UniqueInv'
    BY <1>1 DEF ExactInv, UniqueInv, Entitled, Guarded
<1>7. NewInv'
    BY <1>1, <1>3 DEF ExactInv, NewInv, Transactions
<1> QED BY <1>3, <1>4, <1>5, <1>6, <1>7 DEF ExactInv

-----------------------------------------------------------------------------
(* The invariant holds when the facilitator starts.                        *)
LEMMA ExactStart == Init => ExactInv
<1> SUFFICES ASSUME Init PROVE ExactInv
    OBVIOUS
<1>1. TypeOK
    BY CallParts DEF Init, TypeOK
<1>2. \A c \in Calls : calls[c].pc = "idle"
    BY DEF Init, NoCall
<1>3. \A t \in Transactions : receipts[t] = 0 /\ chain[t] \in {"new", "none"}
    BY DEF Init
<1>4. \A c \in Calls : calls[c].pc \notin Active /\ ~Entitled(calls[c], block)
    BY <1>2 DEF Active, Entitled
<1>5. VerifiedInv
    BY <1>2, <1>4 DEF VerifiedInv
<1>6. SeenInv /\ NewInv
    BY <1>3, <1>4 DEF SeenInv, NewInv, Transactions
<1>7. UniqueInv
    BY <1>3, <1>4 DEF UniqueInv
<1>8. AccountInv /\ SettlesOnlyPayments
    BY <1>3 DEF AccountInv, SettlesOnlyPayments, Transactions
<1> QED BY <1>1, <1>5, <1>6, <1>7, <1>8 DEF ExactInv

(* Every step keeps the invariant: one case for each action.               *)
LEMMA ExactStep == ExactInv /\ [Next]_vars => ExactInv'
<1> SUFFICES ASSUME ExactInv, [Next]_vars PROVE ExactInv'
    OBVIOUS
<1>1. CASE Chain
    BY <1>1, TickStep, LandStep DEF Chain
<1>2. ASSUME NEW c \in Calls, NEW pay \in Presentable,
             ProcessPayment(c, pay)
      PROVE  ExactInv'
    BY <1>2, ProcessStep
<1>3. ASSUME NEW c \in Calls, Throws(c) PROVE ExactInv'
    BY <1>3, AnswerStep DEF Throws, Res
<1>4. ASSUME NEW c \in Calls, Step(c) PROVE ExactInv'
    BY <1>3, <1>4, SettleTransactionStep, SettleAccountStep, SimulateStep,
       SendTransactionStep, PollStatusStep DEF Step
<1>5. ASSUME NEW c \in Calls, Return(c) PROVE ExactInv'
    BY <1>5, ReturnStep
<1>6. CASE UNCHANGED vars
  <2>1. TypeOK' /\ VerifiedInv' /\ SeenInv' /\ NewInv'
      BY <1>6 DEF vars, ExactInv, TypeOK, VerifiedInv, SeenInv, NewInv
  <2>2. UniqueInv' /\ AccountInv' /\ SettlesOnlyPayments'
      BY <1>6 DEF vars, ExactInv, UniqueInv, Entitled, Guarded, AccountInv,
                  SettlesOnlyPayments
  <2> QED BY <2>1, <2>2 DEF ExactInv
<1> QED BY <1>1, <1>2, <1>4, <1>5, <1>6 DEF Next

(* The facilitator and the chain keep their types, the polls their bound.  *)
THEOREM ExactTypeCorrect == Spec => []TypeOK
<1>1. ExactInv => TypeOK
    BY DEF ExactInv
<1> QED BY <1>1, ExactStart, ExactStep, PTL DEF Spec

(* handleSettle() answers a success once for each payment, whatever runs   *)
(* concurrently and however the store is pruned.                           *)
THEOREM PaymentsSettleOnce == Spec => []OneReceiptPerPayment
<1>1. ExactInv => OneReceiptPerPayment
  <2> SUFFICES ASSUME ExactInv PROVE OneReceiptPerPayment
      OBVIOUS
  <2>1. \A t \in Transactions : Guarded(t) => receipts[t] <= 1
      BY DEF ExactInv, UniqueInv
  <2>2. \A t \in Built : receipts[t] > 0 => chain[t] = "confirmed"
      BY DEF ExactInv, SettlesOnlyPayments, Transactions
  <2>3. \A t, u \in Built :
           t[1] = u[1] /\ receipts[t] > 0 /\ receipts[u] > 0 => t = u
      BY <2>2 DEF ExactInv, AccountInv
  <2> QED BY <2>1, <2>3 DEF OneReceiptPerPayment, Guarded, Transactions
<1> QED BY <1>1, ExactStart, ExactStep, PTL DEF Spec

(* A success is for a confirmed transaction, and only verified or built    *)
(* transactions are broadcast.                                             *)
THEOREM SettlesPayments == Spec => []SettlesOnlyPayments
<1>1. ExactInv => SettlesOnlyPayments
    BY DEF ExactInv
<1> QED BY <1>1, ExactStart, ExactStep, PTL DEF Spec
=============================================================================
