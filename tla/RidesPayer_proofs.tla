-------------------------- MODULE RidesPayer_proofs --------------------------
(***************************************************************************)
(* Proofs about EvmExact and RidesPayer, for any number of wallets, calls  *)
(* and concurrent fetches, any assets and any clock.                       *)
(***************************************************************************)
EXTENDS RidesPayer, FiniteSetTheorems, SequenceTheorems, TLAPS

(* The transactions of the facilitator's account that were mined.          *)
Height == Cardinality(DOMAIN mined)

Verdicts == {"none", "valid", "success", "error", "null", "throw"}

Call == [pc : {"checking", "preparing", "sending", "waiting", "done"},
         kind : {"verify", "settle"}, req : Requirements, auth : signed,
         nonce : Nat, fee : Nat, verdict : Verdicts]

WellSigned(a) == a.from \in Wallets /\ a.value \in Nat /\ a.validBefore \in Nat

-----------------------------------------------------------------------------
(* The inductive invariant of the chain and the facilitator. *)

(* Signatures and the facilitator's calls are well typed.                  *)
EvmTypes ==
    /\ time \in Nat
    /\ \A a \in signed : WellSigned(a)
    /\ calls \in [Calls -> Call \cup {NoCall}]
    /\ balances \in [Wallets -> Nat]
    /\ \A w \in Wallets : balances[w] <= Balance[w]

(* The account's nonces are used in order, and the pool holds one          *)
(* transaction for each of those to come.                                  *)
Nonces ==
    /\ Height \in Nat /\ DOMAIN mined = 1..Height
    /\ IsFiniteSet(pool)
    /\ \A tx \in pool : tx.auth \in signed /\ tx.nonce \in Nat
                        /\ tx.nonce > Height
    /\ \A p, q \in pool : p.nonce = q.nonce => p = q

(* The contract executes an authorization once.                            *)
ExecutedOnce ==
    \A m, n \in DOMAIN mined :
       mined[m].ok /\ mined[n].ok /\ mined[m].tx.auth = mined[n].tx.auth
          => m = n

(* A call that goes on has an authorization for what the requirements ask; *)
(* one that has succeeded has the receipt of a successful transaction.     *)
CallOK(k) ==
    /\ k.pc # "done" \/ k.verdict = "success"
          => k.auth.to = k.req.payTo /\ k.auth.value = k.req.amount
    /\ k.pc = "done" /\ k.verdict = "success"
          => k.nonce \in DOMAIN mined /\ mined[k.nonce].ok

EvmInv ==
    /\ EvmTypes /\ Nonces /\ ExecutedOnce
    /\ \A c \in Calls : calls[c].pc # "idle" => CallOK(calls[c])

(* The invariant of the EVM handlers holds at the start.                   *)
LEMMA EvmStart == EvmInit => EvmInv
<1> SUFFICES ASSUME EvmInit PROVE EvmInv
    OBVIOUS
<1>1. EvmTypes
    BY EvmConstants DEF EvmInit, EvmTypes
<1>2. DOMAIN mined = {} /\ Height = 0 /\ {} = 1..0
    BY FS_EmptySet DEF EvmInit, Height
<1>3. Nonces /\ ExecutedOnce
    BY <1>2, FS_EmptySet DEF EvmInit, Nonces, ExecutedOnce
<1>4. \A c \in Calls : calls[c].pc = "idle"
    BY DEF EvmInit, NoCall
<1> QED BY <1>1, <1>3, <1>4 DEF EvmInv

(* A call that is not idle is a record of a call.                          *)
LEMMA CallType ==
    ASSUME EvmInv, NEW c \in Calls, calls[c].pc # "idle"
    PROVE  calls[c] \in Call /\ CallOK(calls[c])
    BY DEF EvmInv, EvmTypes, NoCall

(* What a step of a call leaves alone: all but the calls and the pool.     *)
Rest == UNCHANGED <<time, signed, mined, balances>> /\ Nonces'

(* A step that leaves signatures and chain alone keeps what the invariant  *)
(* says of them.                                                           *)
LEMMA RestSame ==
    ASSUME EvmInv, UNCHANGED <<asset, time, signed, chainVars>> PROVE Rest
    BY DEF EvmInv, Rest, Nonces, Height, chainVars

(* A step of one call.                                                     *)
LEMMA CallStep ==
    ASSUME EvmInv, NEW c \in Calls, NEW k \in Call, CallOK(k),
           calls' = [calls EXCEPT ![c] = k], Rest
    PROVE  EvmInv'
<1>1. UNCHANGED <<time, signed, mined, balances>>
    BY DEF Rest
<1>2. Call' = Call
    BY <1>1 DEF Call
<1>3. calls' \in [Calls -> Call \cup {NoCall}]
    BY DEF EvmInv, EvmTypes
<1>4. EvmTypes'
    BY <1>1, <1>2, <1>3 DEF EvmInv, EvmTypes
<1>5. Nonces' /\ ExecutedOnce'
    BY <1>1 DEF EvmInv, Rest, ExecutedOnce
<1>6. \A d \in Calls : calls'[d].pc # "idle" => CallOK(calls[d])'
    BY <1>1 DEF EvmInv, EvmTypes, CallOK
<1> QED BY <1>4, <1>5, <1>6 DEF EvmInv

(* An answer, a success only with a receipt.                               *)
LEMMA AnswerStep ==
    ASSUME EvmInv, NEW c \in Calls, NEW verdict \in Verdicts,
           calls[c].pc \notin {"idle", "done"}, AnswerWith(c, verdict),
           verdict = "success" => /\ calls[c].nonce \in DOMAIN mined
                                  /\ mined[calls[c].nonce].ok,
           Rest
    PROVE  EvmInv'
<1>1. calls[c] \in Call /\ CallOK(calls[c])
    BY CallType
<1> DEFINE k == [calls[c] EXCEPT !.pc = "done", !.verdict = verdict]
<1>2. k \in Call /\ CallOK(k)
    BY <1>1 DEF Call, CallOK, Verdicts
<1>3. calls' = [calls EXCEPT ![c] = k]
    BY DEF AnswerWith, EvmInv, EvmTypes
<1> HIDE DEF k
<1> QED BY <1>2, <1>3, CallStep

(* A call that goes on with its own authorization keeps the invariant.     *)
LEMMA GotoStep ==
    ASSUME EvmInv, NEW c \in Calls,
           NEW pc \in {"preparing", "sending", "waiting"},
           NEW nonce \in Nat, NEW fee \in Nat,
           calls[c].pc \notin {"idle", "done"},
           calls' = [calls EXCEPT ![c] =
                       [calls[c] EXCEPT !.pc = pc, !.nonce = nonce,
                                        !.fee = fee]],
           Rest
    PROVE  EvmInv'
<1>1. calls[c] \in Call /\ CallOK(calls[c])
    BY CallType
<1> DEFINE k == [calls[c] EXCEPT !.pc = pc, !.nonce = nonce, !.fee = fee]
<1>2. k \in Call /\ CallOK(k)
    BY <1>1 DEF Call, CallOK
<1> HIDE DEF k
<1> QED BY <1>2, CallStep DEF k

(* The facilitator's steps that only change its call.                      *)
LEMMA FacilitatorStep ==
    ASSUME EvmInv, NEW c \in Calls,
           \/ \E kind \in {"verify", "settle"}, req \in Requirements,
                 auth \in signed : Begin(c, kind, req, auth)
           \/ CheckNonce(c) \/ PrepareTransaction(c)
           \/ WaitForReceipt(c) \/ Throws(c)
    PROVE  EvmInv'
<1>1. ASSUME NEW kind \in {"verify", "settle"}, NEW req \in Requirements,
             NEW auth \in signed, Begin(c, kind, req, auth)
      PROVE  EvmInv'
  <2> DEFINE New(pc, verdict) ==
               [pc |-> pc, kind |-> kind, req |-> req, auth |-> auth,
                nonce |-> 0, fee |-> 0, verdict |-> verdict]
  <2>1. /\ New("done", "null") \in Call /\ CallOK(New("done", "null"))
        /\ New("done", "error") \in Call /\ CallOK(New("done", "error"))
        /\ New("checking", "none") \in Call
        /\ Authorizes(auth, req) => CallOK(New("checking", "none"))
      BY DEF Call, CallOK, Verdicts, Authorizes
  <2>2. PICK k \in {New("done", "null"), New("done", "error"),
                    New("checking", "none")} :
             /\ calls' = [calls EXCEPT ![c] = k]
             /\ k = New("checking", "none") => Authorizes(auth, req)
             /\ UNCHANGED <<asset, time, signed, chainVars>>
      BY <1>1 DEF Begin
  <2> HIDE DEF New
  <2>3. k \in Call /\ CallOK(k)
      BY <2>1, <2>2
  <2> QED BY <2>2, <2>3, CallStep, RestSame
<1>2. CASE CheckNonce(c)
  <2>1. calls[c] \in Call
      BY <1>2, CallType DEF CheckNonce
  <2>2. CASE Goto(c, "preparing")
    <3>1. calls' = [calls EXCEPT ![c] =
                      [calls[c] EXCEPT !.pc = "preparing",
                                       !.nonce = calls[c].nonce,
                                       !.fee = calls[c].fee]]
        BY <2>1, <2>2 DEF Goto, EvmInv, EvmTypes, Call
    <3>2. calls[c].nonce \in Nat /\ calls[c].fee \in Nat
        BY <2>1 DEF Call
    <3> QED BY <1>2, <3>1, <3>2, GotoStep, RestSame DEF CheckNonce
  <2>3. CASE AnswerWith(c, "error") \/ AnswerWith(c, "valid")
      BY <1>2, <2>3, AnswerStep, RestSame DEF CheckNonce, Verdicts
  <2> QED BY <1>2, <2>2, <2>3 DEF CheckNonce
<1>3. CASE PrepareTransaction(c)
  <2>1. calls[c] \in Call
      BY <1>3, CallType DEF PrepareTransaction
  <2>2. PendingNonce \in Nat
      BY FS_CardinalityType DEF PendingNonce, EvmInv, Nonces, Height
  <2>3. PICK fee \in 1..MaxFee :
             calls' = [calls EXCEPT ![c].pc = "sending", ![c].fee = fee,
                                    ![c].nonce = PendingNonce]
      BY <1>3 DEF PrepareTransaction
  <2>4. calls' = [calls EXCEPT ![c] =
                    [calls[c] EXCEPT !.pc = "sending",
                                     !.nonce = PendingNonce, !.fee = fee]]
      BY <2>1, <2>3 DEF EvmInv, EvmTypes, Call
  <2>5. fee \in Nat
      BY EvmConstants
  <2> QED BY <1>3, <2>2, <2>4, <2>5, GotoStep, RestSame DEF PrepareTransaction
<1>4. CASE WaitForReceipt(c)
    BY <1>4, AnswerStep, RestSame DEF WaitForReceipt, Verdicts
<1>5. CASE Throws(c)
    BY <1>5, AnswerStep, RestSame DEF Throws, Verdicts
<1> QED BY <1>1, <1>2, <1>3, <1>4, <1>5

(* sendRawTransaction(): one transaction of each nonce stays in the pool.  *)
LEMMA SendStep ==
    ASSUME EvmInv, NEW c \in Calls, SendTransaction(c) PROVE EvmInv'
<1>1. calls[c] \in Call
    BY CallType DEF SendTransaction
<1>2. Nonces'
  <2> DEFINE rivals == {p \in pool : p.nonce = Tx(c).nonce}
  <2>1. /\ Tx(c).nonce > Height /\ pool' = (pool \ rivals) \cup {Tx(c)}
        /\ UNCHANGED <<mined, signed>>
      BY DEF SendTransaction, Height
  <2>2. Height' = Height
      BY <2>1 DEF Height
  <2>3. Tx(c).auth \in signed /\ Tx(c).nonce \in Nat
      BY <1>1 DEF Tx, Call
  <2>4. IsFiniteSet(pool')
    <3>1. IsFiniteSet(pool \ rivals)
        BY FS_Subset DEF EvmInv, Nonces
    <3> QED BY <2>1, <3>1, FS_AddElement
  <2>5. \A tx \in pool' : tx.auth \in signed /\ tx.nonce \in Nat
                          /\ tx.nonce > Height
      BY <2>1, <2>3 DEF EvmInv, Nonces
  <2>6. \A p, q \in pool' : p.nonce = q.nonce => p = q
      BY <2>1 DEF EvmInv, Nonces
  <2> QED BY <2>1, <2>2, <2>4, <2>5, <2>6 DEF EvmInv, Nonces
<1>3. Rest
    BY <1>2 DEF SendTransaction, Rest
<1>4. CASE Goto(c, "waiting")
  <2>1. calls' = [calls EXCEPT ![c] =
                    [calls[c] EXCEPT !.pc = "waiting",
                                     !.nonce = calls[c].nonce,
                                     !.fee = calls[c].fee]]
      BY <1>1, <1>4 DEF Goto, EvmInv, EvmTypes, Call
  <2>2. calls[c].nonce \in Nat /\ calls[c].fee \in Nat
      BY <1>1 DEF Call
  <2> QED BY <1>3, <2>1, <2>2, GotoStep DEF SendTransaction
<1>5. CASE AnswerWith(c, "throw")
    BY <1>3, <1>5, AnswerStep DEF SendTransaction, Verdicts
<1> QED BY <1>4, <1>5 DEF SendTransaction

(* What is mined takes the next nonce; earlier transactions stay.          *)
LEMMA MinedGrows ==
    ASSUME EvmInv, NEW tx, Mine(tx)
    PROVE  /\ Height' = Height + 1 /\ DOMAIN mined' = 1..(Height + 1)
           /\ mined'[Height + 1] = [tx |-> tx, ok |-> Executes(tx.auth)]
           /\ \A n \in DOMAIN mined : n \in DOMAIN mined' /\ n # Height + 1
                                    /\ mined'[n] = mined[n]
<1>1. /\ Height \in Nat /\ DOMAIN mined = 1..Height
      /\ mined' = [m \in 1..(Height + 1) |->
                      IF m = Height + 1
                        THEN [tx |-> tx, ok |-> Executes(tx.auth)]
                        ELSE mined[m]]
    BY DEF EvmInv, Nonces, Mine, Height
<1>2. DOMAIN mined' = 1..(Height + 1)
    BY <1>1
<1>3. Cardinality(1..(Height + 1)) = Height + 1
    BY <1>1, FS_Interval
<1>4. Height' = Height + 1
    BY <1>2, <1>3 DEF Height
<1> QED BY <1>1, <1>2, <1>4

(* The chain executes the account's next transaction.                      *)
LEMMA MineStep ==
    ASSUME EvmInv, NEW tx \in pool, Mine(tx) PROVE EvmInv'
<1>1. /\ Height \in Nat /\ DOMAIN mined = 1..Height
      /\ tx.nonce = Height + 1 /\ pool' = pool \ {tx}
      /\ tx.auth \in signed /\ WellSigned(tx.auth)
      /\ UNCHANGED <<time, signed, calls>>
    BY DEF EvmInv, EvmTypes, Nonces, Mine, Height
<1>2. /\ Height' = Height + 1 /\ DOMAIN mined' = 1..(Height + 1)
      /\ mined'[Height + 1] = [tx |-> tx, ok |-> Executes(tx.auth)]
      /\ \A n \in DOMAIN mined : n \in DOMAIN mined' /\ n # Height + 1
                               /\ mined'[n] = mined[n]
    BY MinedGrows
<1>3. EvmTypes'
  <2>1. CASE Executes(tx.auth)
    <3>1. balances' = [balances EXCEPT ![tx.auth.from] =
                         balances[tx.auth.from] - tx.auth.value]
        BY <2>1 DEF Mine, EvmInv, EvmTypes
    <3>2. balances[tx.auth.from] >= tx.auth.value
        BY <2>1 DEF Executes
    <3>3. balances' \in [Wallets -> Nat]
        BY <1>1, <3>1, <3>2 DEF EvmInv, EvmTypes, WellSigned
    <3>4. \A w \in Wallets : balances'[w] <= balances[w]
        BY <1>1, <3>1, <3>2 DEF EvmInv, EvmTypes, WellSigned
    <3>5. \A w \in Wallets : balances'[w] <= Balance[w]
      <4> SUFFICES ASSUME NEW w \in Wallets PROVE balances'[w] <= Balance[w]
          OBVIOUS
      <4>1. balances'[w] \in Nat /\ balances[w] \in Nat /\ Balance[w] \in Nat
          BY <3>3, EvmConstants DEF EvmInv, EvmTypes
      <4>2. balances'[w] <= balances[w] /\ balances[w] <= Balance[w]
          BY <3>4 DEF EvmInv, EvmTypes
      <4> QED BY <4>1, <4>2
    <3> QED BY <1>1, <3>3, <3>5 DEF EvmInv, EvmTypes, Call
  <2>2. CASE ~Executes(tx.auth)
    <3>1. balances' = balances
        BY <1>1, <2>2 DEF Mine, EvmInv, EvmTypes, WellSigned
    <3> QED BY <1>1, <3>1 DEF EvmInv, EvmTypes, Call
  <2> QED BY <2>1, <2>2
<1>4. Nonces'
  <2>1. IsFiniteSet(pool')
      BY <1>1, FS_RemoveElement DEF EvmInv, Nonces
  <2>2. \A t \in pool' : t.auth \in signed /\ t.nonce \in Nat
                         /\ t.nonce > Height + 1
    <3> SUFFICES ASSUME NEW t \in pool'
                 PROVE  /\ t.auth \in signed /\ t.nonce \in Nat
                        /\ t.nonce > Height + 1
        OBVIOUS
    <3>1. t \in pool /\ t # tx
        BY <1>1
    <3>2. /\ t.auth \in signed /\ t.nonce \in Nat /\ t.nonce > Height
          /\ t.nonce # tx.nonce
        BY <3>1 DEF EvmInv, Nonces
    <3> QED BY <1>1, <3>2
  <2> QED BY <1>1, <1>2, <2>1, <2>2 DEF EvmInv, Nonces
<1>5. ExecutedOnce'
  <2>1. ASSUME NEW n \in DOMAIN mined, mined[n].ok, Executes(tx.auth)
        PROVE  mined[n].tx.auth # tx.auth
    <3>1. mined[n].tx.auth \in Used(CalledContract)
        BY <2>1 DEF Used
    <3> QED BY <2>1, <3>1 DEF Executes
  <2>2. \A n \in DOMAIN mined' : n \in DOMAIN mined \/ n = Height + 1
      BY <1>1, <1>2
  <2> SUFFICES ASSUME NEW m \in DOMAIN mined', NEW n \in DOMAIN mined',
                      mined'[m].ok, mined'[n].ok,
                      mined'[m].tx.auth = mined'[n].tx.auth
               PROVE  m = n
      BY DEF ExecutedOnce
  <2>3. CASE m \in DOMAIN mined /\ n \in DOMAIN mined
      BY <1>2, <2>3 DEF EvmInv, ExecutedOnce
  <2>4. CASE m = Height + 1 /\ n \in DOMAIN mined
      BY <1>2, <2>1, <2>4
  <2>5. CASE n = Height + 1 /\ m \in DOMAIN mined
      BY <1>2, <2>1, <2>5
  <2> QED BY <2>2, <2>3, <2>4, <2>5
<1>6. \A c \in Calls : calls'[c].pc # "idle" => CallOK(calls[c])'
    BY <1>1, <1>2 DEF EvmInv, CallOK
<1> QED BY <1>3, <1>4, <1>5, <1>6 DEF EvmInv

(* Time passing keeps the invariant.                                       *)
LEMMA TickStep == ASSUME EvmInv, Tick PROVE EvmInv'
<1>1. time' \in Nat /\ UNCHANGED <<signed, calls, pool, mined, balances>>
    BY DEF EvmInv, EvmTypes, Tick, chainVars
<1>2. EvmTypes'
    BY <1>1 DEF EvmInv, EvmTypes, Call
<1> QED BY <1>1, <1>2 DEF EvmInv, Nonces, ExecutedOnce, CallOK, Height

(* exec() of the client signs one more authorization.                      *)
LEMMA HandlePaymentStep ==
    ASSUME EvmInv, NEW w \in Wallets, NEW req \in Requirements,
           HandlePayment(w, req)
    PROVE  EvmInv'
<1>1. PICK extra \in {Extra, BareExtra} :
           signed' = signed \cup {Authorization(w, req, extra)}
    BY DEF HandlePayment
<1>2. WellSigned(Authorization(w, req, extra))
    BY EvmConstants DEF EvmInv, EvmTypes, WellSigned, Authorization
<1>3. UNCHANGED <<time, calls, pool, mined, balances>>
    BY DEF HandlePayment, chainVars
<1>4. calls' \in [Calls -> Call' \cup {NoCall}]
  <2>1. Call \subseteq Call'
      BY <1>1 DEF Call
  <2> QED BY <1>3, <2>1 DEF EvmInv, EvmTypes
<1>5. EvmTypes'
    BY <1>1, <1>2, <1>3, <1>4 DEF EvmInv, EvmTypes
<1>6. Nonces'
    BY <1>1, <1>3 DEF EvmInv, Nonces, Height
<1> QED BY <1>3, <1>5, <1>6 DEF EvmInv, ExecutedOnce, CallOK

(* What the payer, the facilitator and the chain may do to their shared    *)
(* state.                                                                  *)
EvmStep ==
    \/ Chain
    \/ \E c \in Calls : Facilitator(c)
    \/ \E w \in Wallets, req \in Requirements : HandlePayment(w, req)
    \/ UNCHANGED evmVars

(* Every step of the facilitator, the chain and the signers keeps the EVM  *)
(* invariant.                                                              *)
LEMMA EvmInvStep == EvmInv /\ EvmStep => EvmInv'
<1> SUFFICES ASSUME EvmInv, EvmStep PROVE EvmInv'
    OBVIOUS
<1>1. CASE UNCHANGED evmVars
    BY <1>1 DEF evmVars, EvmInv, EvmTypes, Call, Nonces, Height,
                ExecutedOnce, CallOK
<1>2. CASE Chain
    BY <1>2, TickStep, MineStep DEF Chain
<1>3. CASE \E c \in Calls : Facilitator(c)
    BY <1>3, FacilitatorStep, SendStep DEF Facilitator
<1> QED BY <1>1, <1>2, <1>3, HandlePaymentStep DEF EvmStep

-----------------------------------------------------------------------------
(* The inductive invariant of the payer. *)

(* The wallets of paymentHandlers.                                         *)
Handlers == ToSet(registered)

Fetch == [pc : {"idle", "choosing", "paid", "threw"},
          options : SUBSET Option, viable : Seq(Option)]

PayerTypes ==
    /\ registered \in Seq(Wallets)
    /\ lookup \in [{w.id : w \in Wallets} -> Wallets \cup {NoWallet}]
    /\ fetches \in [Fetches -> Fetch]
    /\ covered \in [Fetches -> SUBSET Option]

(* The balance looked up for the id of a handler's wallet is that of a     *)
(* handler's wallet with this id.                                          *)
LookupOK ==
    \A w \in Handlers : lookup[w.id] \in Handlers /\ lookup[w.id].id = w.id

(* An option is a handler's, for the id of its wallet.                     *)
Offered(o) == o.wallet \in Handlers /\ o.wallet.id = o.req.id

(* The wallet of an option has the funds, or another one has its id.       *)
Covered(f, o) ==
    o \in covered[f] \/ \E w \in Handlers \ {o.wallet} : w.id = o.req.id

FetchOK(f) ==
    /\ \A o \in fetches[f].options : Offered(o)
    /\ \A i \in DOMAIN fetches[f].viable :
          Offered(fetches[f].viable[i]) /\ Covered(f, fetches[f].viable[i])
    /\ fetches[f].pc = "paid" => fetches[f].viable # <<>>

PayerInv == PayerTypes /\ LookupOK /\ \A f \in Fetches : FetchOK(f)

(* The invariant of the payer holds before a wallet is added.              *)
LEMMA PayerStart == Init => PayerInv
<1> SUFFICES ASSUME Init PROVE PayerInv
    OBVIOUS
<1>1. PayerTypes
    BY DEF Init, PayerTypes, Fetch
<1>2. Handlers = {}
    BY DEF Init, Handlers, ToSet
<1>3. \A f \in Fetches : FetchOK(f)
    BY DEF Init, FetchOK
<1> QED BY <1>1, <1>2, <1>3 DEF PayerInv, LookupOK

(* A step of one fetch().                                                  *)
LEMMA FetchStep ==
    ASSUME PayerInv, NEW f \in Fetches, PayerTypes', FetchOK(f)',
           \A g \in Fetches \ {f} : fetches'[g] = fetches[g]
                                  /\ covered'[g] = covered[g],
           UNCHANGED <<registered, lookup>>
    PROVE  PayerInv'
<1>1. Handlers' = Handlers /\ LookupOK'
    BY DEF Handlers, PayerInv, LookupOK
<1>2. ASSUME NEW g \in Fetches \ {f} PROVE FetchOK(g)'
    BY <1>1 DEF PayerInv, FetchOK, Offered, Covered
<1> QED BY <1>1, <1>2 DEF PayerInv

(* addLocalWallet(): what was looked up stays a handler's, or becomes one  *)
(* of the new wallets.                                                     *)
LEMMA AddStep ==
    ASSUME PayerInv, NEW key \in Keys, AddLocalWallet(key) PROVE PayerInv'
<1> DEFINE new == ToSet(WalletsOf(key))
<1>1. WalletsOf(key) \in Seq(Wallets) /\ registered \in Seq(Wallets)
    BY PayerConstants DEF PayerInv, PayerTypes
<1>2. /\ registered' = registered \o WalletsOf(key)
      /\ lookup' = [id \in DOMAIN lookup |->
                      IF \E w \in new : w.id = id
                        THEN CHOOSE w \in new : w.id = id
                        ELSE lookup[id]]
      /\ UNCHANGED <<fetches, covered>>
    BY DEF AddLocalWallet
<1>3. registered' \in Seq(Wallets)
    BY <1>1, <1>2
<1>4. Handlers' = Handlers \cup new /\ new \subseteq Wallets
  <2>1. registered' \in Seq(Wallets)
        /\ Len(registered') = Len(registered) + Len(WalletsOf(key))
        /\ \A i \in 1..Len(registered') :
              registered'[i] = IF i <= Len(registered)
                                 THEN registered[i]
                                 ELSE WalletsOf(key)[i - Len(registered)]
      BY <1>1, <1>2, ConcatProperties
  <2>2. Handlers' \subseteq Handlers \cup new
    <3> SUFFICES ASSUME NEW i \in DOMAIN registered'
                 PROVE  registered'[i] \in Handlers \cup new
        BY DEF Handlers, ToSet
    <3>1. i \in DOMAIN registered \/ i - Len(registered) \in DOMAIN WalletsOf(key)
        BY <1>1, <2>1
    <3> QED BY <1>1, <2>1, <3>1 DEF Handlers, ToSet
  <2>3. ASSUME NEW i \in DOMAIN registered PROVE registered[i] \in Handlers'
    <3>1. i \in DOMAIN registered' /\ registered'[i] = registered[i]
        BY <1>1, <2>1
    <3> QED BY <3>1 DEF Handlers, ToSet
  <2>4. ASSUME NEW i \in DOMAIN WalletsOf(key)
        PROVE  WalletsOf(key)[i] \in Handlers' /\ WalletsOf(key)[i] \in Wallets
    <3>1. /\ Len(registered) + i \in DOMAIN registered'
          /\ registered'[Len(registered) + i] = WalletsOf(key)[i]
        BY <1>1, <2>1
    <3> QED BY <1>1, <3>1 DEF Handlers, ToSet
  <2> QED BY <2>2, <2>3, <2>4 DEF Handlers, ToSet
<1> HIDE DEF new
<1>5. ASSUME NEW id \in {w.id : w \in Wallets}, \E w \in new : w.id = id
      PROVE  lookup'[id] \in new /\ lookup'[id].id = id
  <2>1. lookup'[id] = CHOOSE w \in new : w.id = id
      BY <1>2, <1>5 DEF PayerInv, PayerTypes
  <2> QED BY <1>5, <2>1
<1>6. ASSUME NEW id \in {w.id : w \in Wallets}, ~\E w \in new : w.id = id
      PROVE  lookup'[id] = lookup[id]
    BY <1>2, <1>6 DEF PayerInv, PayerTypes
<1>7. lookup' \in [{w.id : w \in Wallets} -> Wallets \cup {NoWallet}]
  <2>1. DOMAIN lookup' = {w.id : w \in Wallets}
        /\ lookup' = [id \in DOMAIN lookup' |-> lookup'[id]]
      BY <1>2 DEF PayerInv, PayerTypes
  <2>2. ASSUME NEW id \in {w.id : w \in Wallets}
        PROVE  lookup'[id] \in Wallets \cup {NoWallet}
      BY <1>4, <1>5, <1>6 DEF PayerInv, PayerTypes
  <2> QED BY <2>1, <2>2
<1>8. PayerTypes'
    BY <1>2, <1>3, <1>7 DEF PayerInv, PayerTypes, Fetch
<1>9. Handlers \subseteq Wallets
    BY <1>1 DEF Handlers, ToSet
<1>10. LookupOK'
  <2> SUFFICES ASSUME NEW w \in Handlers'
               PROVE  lookup'[w.id] \in Handlers' /\ lookup'[w.id].id = w.id
      BY DEF LookupOK
  <2>1. w.id \in {v.id : v \in Wallets}
      BY <1>4, <1>9
  <2>2. CASE \E v \in new : v.id = w.id
      BY <1>4, <1>5, <2>1, <2>2
  <2>3. CASE ~\E v \in new : v.id = w.id
    <3>1. w \in Handlers
        BY <1>4, <2>3
    <3> QED BY <1>4, <1>6, <2>1, <2>3, <3>1 DEF PayerInv, LookupOK
  <2> QED BY <2>2, <2>3
<1>11. ASSUME NEW f \in Fetches PROVE FetchOK(f)'
    BY <1>2, <1>4 DEF PayerInv, FetchOK, Offered, Covered
<1> QED BY <1>8, <1>10, <1>11 DEF PayerInv

(* processPaymentRequiredResponse(): every offer is of a handler's wallet. *)
LEMMA OffersOfHandlers ==
    ASSUME PayerInv, NEW accepts \in Accepts, NEW o \in PossiblePayers(accepts)
    PROVE  o \in Option /\ Offered(o)
<1>1. registered \in Seq(Wallets) /\ accepts \in Seq(Requirements)
    BY PayerConstants DEF PayerInv, PayerTypes
<1>2. PICK n \in DOMAIN registered, i \in DOMAIN accepts :
           /\ o = [at |-> <<n, i>>, wallet |-> registered[n],
                   req |-> accepts[i]]
           /\ accepts[i].id = registered[n].id
    BY DEF PossiblePayers, OptionsOf
<1>3. /\ n \in Nat /\ i \in Nat /\ registered[n] \in Wallets
      /\ accepts[i] \in Requirements
    BY <1>1
<1>4. registered[n] \in Handlers
    BY DEF Handlers, ToSet
<1> QED BY <1>2, <1>3, <1>4 DEF Option, Offered

(* A 402 starts the look for a wallet with what its requirements offer.    *)
LEMMA RequiredStep ==
    ASSUME PayerInv, NEW f \in Fetches, NEW accepts \in Accepts,
           PaymentRequired(f, accepts)
    PROVE  PayerInv'
<1> DEFINE new == [pc |-> "choosing", options |-> PossiblePayers(accepts),
                   viable |-> <<>>]
<1>1. new \in Fetch
  <2>1. PossiblePayers(accepts) \subseteq Option
      BY OffersOfHandlers
  <2>2. <<>> \in Seq(Option)
      OBVIOUS
  <2> QED BY <2>1, <2>2 DEF Fetch
<1>2. /\ fetches' = [fetches EXCEPT ![f] = new]
      /\ UNCHANGED <<registered, lookup, covered>>
    BY DEF PaymentRequired
<1>3. PayerTypes' /\ fetches'[f] = new
    BY <1>1, <1>2 DEF PayerInv, PayerTypes, Fetch
<1>4. FetchOK(f)'
    BY <1>2, <1>3, OffersOfHandlers DEF FetchOK, Offered, Handlers
<1>5. \A g \in Fetches \ {f} : fetches'[g] = fetches[g]
                              /\ covered'[g] = covered[g]
    BY <1>2 DEF PayerInv, PayerTypes
<1> QED BY <1>2, <1>3, <1>4, <1>5, FetchStep

(* The loop of payerChooser: what becomes viable was looked up with the    *)
(* option's own wallet or with another one of its id.                      *)
LEMMA CheckBalanceStep ==
    ASSUME PayerInv, NEW f \in Fetches, NEW o \in fetches[f].options,
           CheckBalance(f, o)
    PROVE  PayerInv'
<1>1. fetches[f] \in Fetch /\ o \in Option /\ Offered(o) /\ FetchOK(f)
    BY DEF PayerInv, PayerTypes, Fetch, FetchOK
<1>2. PICK viable \in BOOLEAN :
           /\ fetches' = [fetches EXCEPT
                   ![f].options = @ \ {o},
                   ![f].viable = IF viable THEN Append(@, o) ELSE @]
           /\ covered' = [covered EXCEPT ![f] =
                   IF viable /\ lookup[o.req.id] = o.wallet
                     THEN @ \cup {o} ELSE @]
           /\ UNCHANGED <<registered, lookup>>
    BY DEF CheckBalance
<1>0. PICK before : before = fetches[f].viable
    OBVIOUS
<1> DEFINE after == IF viable THEN Append(before, o) ELSE before
           k == [fetches[f] EXCEPT !.options = @ \ {o}, !.viable = after]
<1>3. before \in Seq(Option) /\ after \in Seq(Option)
    BY <1>0, <1>1 DEF Fetch
<1>4. k \in Fetch /\ k.options = fetches[f].options \ {o} /\ k.viable = after
      /\ k.pc = fetches[f].pc
    BY <1>1, <1>3 DEF Fetch
<1>5. fetches' = [fetches EXCEPT ![f] = k]
    BY <1>0, <1>1, <1>2 DEF PayerInv, PayerTypes, Fetch
<1> HIDE DEF k
<1>6. fetches'[f] = k /\ fetches' \in [Fetches -> Fetch]
    BY <1>4, <1>5 DEF PayerInv, PayerTypes
<1>7. /\ covered' \in [Fetches -> SUBSET Option]
      /\ covered[f] \subseteq covered'[f]
      /\ viable /\ lookup[o.req.id] = o.wallet => o \in covered'[f]
    BY <1>1, <1>2 DEF PayerInv, PayerTypes
<1>8. PayerTypes'
    BY <1>2, <1>6, <1>7 DEF PayerInv, PayerTypes, Fetch
<1>9. Handlers' = Handlers
    BY <1>2 DEF Handlers
<1>10. viable => Covered(f, o)'
  <2> SUFFICES ASSUME viable, lookup[o.req.id] # o.wallet
               PROVE  \E w \in Handlers \ {o.wallet} : w.id = o.req.id
      BY <1>7, <1>9 DEF Covered
  <2> QED BY <1>1 DEF PayerInv, LookupOK, Offered
<1>11. ASSUME NEW i \in DOMAIN after
       PROVE  Offered(after[i])' /\ Covered(f, after[i])'
  <2>1. CASE i \in DOMAIN before /\ after[i] = before[i]
      BY <1>0, <1>1, <1>7, <1>9, <2>1 DEF FetchOK, Offered, Covered
  <2>2. CASE viable /\ after[i] = o
      BY <1>1, <1>9, <1>10, <2>2 DEF Offered, Covered
  <2>3. \/ i \in DOMAIN before /\ after[i] = before[i]
        \/ viable /\ after[i] = o
      BY <1>3
  <2> QED BY <2>1, <2>2, <2>3
<1>12. fetches[f].pc # "paid"
    BY DEF CheckBalance
<1>13. FetchOK(f)'
    BY <1>1, <1>4, <1>6, <1>9, <1>11, <1>12 DEF FetchOK, Offered
<1>14. \A g \in Fetches \ {f} : fetches'[g] = fetches[g]
                               /\ covered'[g] = covered[g]
    BY <1>2, <1>5 DEF PayerInv, PayerTypes
<1> QED BY <1>2, <1>8, <1>13, <1>14, FetchStep

(* Paying takes the first option that was found covered.                   *)
LEMMA PayStep ==
    ASSUME PayerInv, NEW f \in Fetches, ChooseAndPay(f) PROVE PayerInv'
<1>1. fetches[f] \in Fetch /\ FetchOK(f)
    BY DEF PayerInv, PayerTypes
<1>2. UNCHANGED <<registered, lookup, Handlers>>
    BY DEF ChooseAndPay, Handlers
<1>3. CASE /\ fetches' = [fetches EXCEPT ![f].pc = "threw"]
           /\ UNCHANGED covered
  <2>1. /\ fetches' \in [Fetches -> Fetch]
        /\ fetches'[f] = [fetches[f] EXCEPT !.pc = "threw"]
      BY <1>1, <1>3 DEF PayerInv, PayerTypes, Fetch
  <2>2. fetches'[f].pc = "threw" /\ fetches'[f].viable = fetches[f].viable
        /\ fetches'[f].options = fetches[f].options
      BY <1>1, <2>1 DEF Fetch
  <2>3. FetchOK(f)'
      BY <1>1, <1>2, <1>3, <2>1, <2>2
      DEF FetchOK, Offered, Covered, Fetch
  <2>4. PayerTypes'
      BY <1>2, <1>3, <2>1 DEF PayerInv, PayerTypes
  <2>5. /\ UNCHANGED <<registered, lookup>>
        /\ \A g \in Fetches \ {f} : fetches'[g] = fetches[g]
                                   /\ covered'[g] = covered[g]
      BY <1>2, <1>3 DEF PayerInv, PayerTypes
  <2> QED BY <2>3, <2>4, <2>5, FetchStep
<1>4. CASE fetches[f].viable # <<>>
           /\ fetches' = [fetches EXCEPT ![f].pc = "paid",
                               ![f].viable = <<Head(fetches[f].viable)>>]
           /\ covered' = [covered EXCEPT ![f] = @ \cap {Head(fetches[f].viable)}]
  <2>0. PICK o : o = Head(fetches[f].viable)
      OBVIOUS
  <2>1. /\ 1 \in DOMAIN fetches[f].viable /\ o = fetches[f].viable[1]
        /\ o \in Option
      BY <1>1, <1>4, <2>0 DEF Fetch
  <2>2. Offered(o) /\ Covered(f, o)
      BY <1>1, <2>1 DEF FetchOK
  <2>3. <<o>> \in Seq(Option) /\ DOMAIN <<o>> = {1} /\ <<o>>[1] = o
      BY <2>1
  <2>4. /\ fetches' \in [Fetches -> Fetch]
        /\ fetches'[f] = [fetches[f] EXCEPT !.pc = "paid", !.viable = <<o>>]
      BY <1>1, <1>4, <2>0, <2>3 DEF PayerInv, PayerTypes, Fetch
  <2>5. fetches'[f].viable = <<o>> /\ fetches'[f].options = fetches[f].options
      BY <1>1, <2>3, <2>4 DEF Fetch
  <2>6. /\ covered' \in [Fetches -> SUBSET Option]
        /\ o \in covered[f] => o \in covered'[f]
      BY <1>4, <2>0 DEF PayerInv, PayerTypes
  <2>7. PayerTypes'
      BY <1>2, <2>4, <2>6 DEF PayerInv, PayerTypes, Fetch
  <2>8. Covered(f, o)' /\ Offered(o)'
      BY <1>2, <2>2, <2>6 DEF Covered, Offered
  <2>9. FetchOK(f)'
      BY <1>1, <1>2, <2>3, <2>5, <2>8 DEF FetchOK, Offered, Covered
  <2> QED BY <1>2, <1>4, <2>7, <2>9, FetchStep DEF PayerInv, PayerTypes
<1> QED BY <1>3, <1>4 DEF ChooseAndPay

(* Every step keeps the payer's invariant, and does to the EVM side what   *)
(* EvmStep allows.                                                         *)
LEMMA PayerInvStep == PayerInv /\ [Next]_vars => PayerInv' /\ EvmStep
<1> SUFFICES ASSUME PayerInv, [Next]_vars PROVE PayerInv' /\ EvmStep
    OBVIOUS
<1>1. ASSUME UNCHANGED payerVars PROVE PayerInv'
  <2>1. Handlers' = Handlers
      BY <1>1 DEF payerVars, Handlers
  <2>2. \A f \in Fetches : FetchOK(f)'
      BY <1>1, <2>1 DEF payerVars, PayerInv, FetchOK, Offered, Covered
  <2> QED BY <1>1, <2>1, <2>2
          DEF payerVars, PayerInv, PayerTypes, Fetch, LookupOK
<1>2. ASSUME NEW key \in Keys, AddLocalWallet(key) PROVE PayerInv' /\ EvmStep
    BY <1>2, AddStep DEF AddLocalWallet, EvmStep
<1>3. ASSUME NEW f \in Fetches, Payer(f) PROVE PayerInv' /\ EvmStep
  <2>1. CASE \E accepts \in Accepts : PaymentRequired(f, accepts)
      BY <2>1, RequiredStep DEF PaymentRequired, EvmStep
  <2>2. CASE \E o \in fetches[f].options : CheckBalance(f, o)
      BY <2>2, CheckBalanceStep DEF CheckBalance, EvmStep
  <2>3. CASE ChooseAndPay(f)
    <3>1. EvmStep
      <4>1. fetches[f].viable # <<>> => Head(fetches[f].viable) \in Option
          BY DEF PayerInv, PayerTypes, Fetch
      <4> QED BY <2>3, <4>1 DEF ChooseAndPay, EvmStep, Option
    <3> QED BY <2>3, <3>1, PayStep
  <2> QED BY <1>3, <2>1, <2>2, <2>3 DEF Payer
<1> QED BY <1>1, <1>2, <1>3 DEF Next, vars, EvmStep, payerVars

(* Both invariants hold at the start.                                      *)
LEMMA InvStart == Init => EvmInv /\ PayerInv
    BY EvmStart, PayerStart DEF Init

(* Every step keeps both invariants.                                       *)
LEMMA InvStep == EvmInv /\ PayerInv /\ [Next]_vars => EvmInv' /\ PayerInv'
    BY EvmInvStep, PayerInvStep

-----------------------------------------------------------------------------
(* The theorems. *)

(* rides and the facilitator keep their state well typed: only wallets of  *)
(* registered keys are handlers, no transfer overdraws a wallet, and no    *)
(* transaction in the pool has a nonce that was mined.                     *)
THEOREM PayerTypeCorrect == Spec => []TypeOK
<1>1. EvmInv /\ PayerInv => TypeOK
  <2> SUFFICES ASSUME EvmInv, PayerInv PROVE TypeOK
      OBVIOUS
  <2>1. \A w \in Wallets : balances[w] \in 0..Balance[w]
      BY EvmConstants DEF EvmInv, EvmTypes
  <2> QED BY <2>1
      DEF EvmInv, EvmTypes, Nonces, WellSigned, Height, PayerInv, PayerTypes,
          Fetch, TypeOK
<1> QED BY <1>1, InvStart, InvStep, PTL DEF Spec

(* handleSettle() answers success only with the receipt of a transaction   *)
(* that succeeded; if it is the one it sent, the payee of the requirements *)
(* has got their amount.                                                   *)
THEOREM SuccessIsTransferred == Spec => []SettledIsTransferred
<1>1. EvmInv => SettledIsTransferred
  <2> SUFFICES ASSUME EvmInv, NEW c \in Calls, Succeeded(c)
               PROVE  /\ mined[calls[c].nonce].ok
                      /\ ~Displaced(c) =>
                           /\ mined[calls[c].nonce].tx.auth.to = calls[c].req.payTo
                           /\ mined[calls[c].nonce].tx.auth.value
                                 = calls[c].req.amount
      BY DEF SettledIsTransferred
  <2>1. CallOK(calls[c])
      BY CallType DEF Succeeded
  <2>2. Tx(c).auth = calls[c].auth
      BY DEF Tx
  <2> QED BY <2>1, <2>2 DEF CallOK, Succeeded, Displaced
<1> QED BY <1>1, InvStart, InvStep, PTL DEF Spec

(* However many calls of handleSettle() present an authorization at the    *)
(* same time or again: all that succeed without being displaced have sent  *)
(* the same transaction, as the contract executes an authorization once.   *)
THEOREM AuthorizationsSettleOnce == Spec => []OneSuccessPerAuthorization
<1>1. EvmInv => OneSuccessPerAuthorization
  <2> SUFFICES ASSUME EvmInv, NEW c \in Calls, NEW d \in Calls,
                      Succeeded(c), Succeeded(d),
                      calls[c].auth = calls[d].auth,
                      ~Displaced(c), ~Displaced(d)
               PROVE  Tx(c) = Tx(d)
      BY DEF OneSuccessPerAuthorization
  <2>1. CallOK(calls[c]) /\ CallOK(calls[d])
      BY CallType DEF Succeeded
  <2>2. Tx(c).auth = Tx(d).auth
      BY DEF Tx
  <2>3. calls[c].nonce = calls[d].nonce
      BY <2>1, <2>2 DEF CallOK, Succeeded, Displaced, EvmInv, ExecutedOnce
  <2> QED BY <2>3 DEF Displaced
<1> QED BY <1>1, InvStart, InvStep, PTL DEF Spec

(* The payer of rides pays with an option whose own wallet was seen to     *)
(* have the amount, or there is a second wallet for the same id: lookups   *)
(* never stray to a wallet of another id.                                  *)
THEOREM PaysCovered == Spec => []PaysWithCoveredWallet
<1>1. PayerInv => PaysWithCoveredWallet
  <2> SUFFICES ASSUME PayerInv, NEW f \in Fetches, fetches[f].pc = "paid"
               PROVE  Covered(f, Head(fetches[f].viable))
      BY DEF PaysWithCoveredWallet, Covered, Handlers
  <2>1. fetches[f].viable \in Seq(Option) /\ fetches[f].viable # <<>>
      BY DEF PayerInv, PayerTypes, Fetch, FetchOK
  <2>2. /\ 1 \in DOMAIN fetches[f].viable
        /\ Head(fetches[f].viable) = fetches[f].viable[1]
      BY <2>1
  <2> QED BY <2>2 DEF PayerInv, FetchOK
<1> QED BY <1>1, InvStart, InvStep, PTL DEF Spec

-----------------------------------------------------------------------------
(* The verdicts. *)

(* Calls that the chain, the client or the payer leave alone keep their    *)
(* place.                                                                  *)
LEMMA JudgedByCheck ==
    ASSUME EvmInv, EvmStep, NEW c \in Calls, NEW verdict \in {"valid", "error"},
           Judged(c, verdict)
    PROVE  CheckNonce(c)
<1>1. calls' # calls /\ calls[c].pc = "checking" /\ calls'[c].pc = "done"
      /\ calls'[c].verdict = verdict /\ calls \in [Calls -> Call \cup {NoCall}]
    BY DEF Judged, EvmInv, EvmTypes
<1>2. PICK d \in Calls : Facilitator(d)
    BY <1>1 DEF EvmStep, Chain, Tick, Mine, HandlePayment, evmVars
<1>3. d = c
  <2> SUFFICES ASSUME d # c PROVE calls'[c] = calls[c]
      BY <1>1
  <2> QED BY <1>1, <1>2
      DEF Facilitator, Begin, CheckNonce, PrepareTransaction, SendTransaction,
          WaitForReceipt, Throws, AnswerWith, Goto
<1>4. ~Throws(c)
  <2>1. AnswerWith(c, "throw") => calls'[c].verdict = "throw"
      BY <1>1, CallType DEF AnswerWith, Call
  <2> QED BY <1>1, <2>1 DEF Throws
<1> QED BY <1>1, <1>2, <1>3, <1>4
    DEF Facilitator, Begin, PrepareTransaction, SendTransaction,
        WaitForReceipt

(* verifyTransaction(): what it calls valid is unused and signed for where *)
(* it will be executed, when a forwarder has a name; what was signed with  *)
(* the domain clients are told is refused only because it was used, or the *)
(* token's version is not "2".                                             *)
THEOREM VerdictsAreRight == Spec => VerdictIsRight
<1> DEFINE Valid(c) == /\ calls[c].auth \notin Used(CalledContract)
                       /\ calls[c].auth.domain = Domain
           Refused(c) == \/ calls[c].auth \in Used(CheckedContract)
                         \/ ~UseForwarder(asset) /\ asset.version # "2"
           Right == \A c \in Calls :
              /\ Judged(c, "valid") /\ asset.forwarder = asset.forwarderName
                    => Valid(c)
              /\ Judged(c, "error") /\ calls[c].auth.domain = Extra
                    => Refused(c)
<1>1. ASSUME EvmInv, EvmStep PROVE Right
  <2>1. ASSUME NEW c \in Calls, NEW verdict \in {"valid", "error"},
               Judged(c, verdict)
        PROVE  /\ CheckNonce(c) /\ ~Goto(c, "preparing")
               /\ \A v \in {"valid", "error"} : AnswerWith(c, v) => v = verdict
    <3>1. CheckNonce(c)
        BY <1>1, <2>1, JudgedByCheck
    <3>2. /\ calls[c] \in Call /\ calls'[c].verdict = verdict
          /\ calls'[c].pc = "done"
        BY <1>1, <2>1, CallType DEF Judged
    <3>3. \A v \in {"valid", "error"} :
             AnswerWith(c, v) => calls'[c].verdict = v
        BY <1>1, <3>2 DEF AnswerWith, EvmInv, EvmTypes, Call
    <3>4. ~Goto(c, "preparing")
        BY <1>1, <3>2 DEF Goto, EvmInv, EvmTypes, Call
    <3> QED BY <3>1, <3>2, <3>3, <3>4
  <2>2. ASSUME NEW c \in Calls, Judged(c, "valid"),
               asset.forwarder = asset.forwarderName
        PROVE  Valid(c)
    <3>1. /\ calls[c].auth \notin Used(CheckedContract)
          /\ calls[c].auth.domain = Domain
        BY <2>1, <2>2 DEF CheckNonce
    <3> QED BY <2>2, <3>1 DEF CheckedContract, CalledContract, UseForwarder
  <2>3. ASSUME NEW c \in Calls, Judged(c, "error"),
               calls[c].auth.domain = Extra
        PROVE  Refused(c)
    <3>1. \/ calls[c].auth \in Used(CheckedContract)
          \/ calls[c].auth.domain # Domain
        BY <2>1, <2>3 DEF CheckNonce
    <3>2. UseForwarder(asset) \/ asset.version = "2" => Extra = Domain
        BY DEF Extra, Domain, GenerateDomain
    <3> QED BY <2>3, <3>1, <3>2
  <2> QED BY <2>2, <2>3
<1>2. Right => \A c \in Calls :
          /\ Judged(c, "valid") /\ asset.forwarder = asset.forwarderName
                => /\ calls[c].auth \notin Used(CalledContract)
                   /\ calls[c].auth.domain = Domain
          /\ Judged(c, "error") /\ calls[c].auth.domain = Extra
                => \/ calls[c].auth \in Used(CheckedContract)
                   \/ ~UseForwarder(asset) /\ asset.version # "2"
    OBVIOUS
<1> HIDE DEF Right
<1> QED BY <1>1, <1>2, InvStart, InvStep, PayerInvStep, PTL
    DEF Spec, VerdictIsRight
=============================================================================
