------------------------------ MODULE EvmExact ------------------------------
(***************************************************************************)
(* The exact scheme on EVM chains, packages/payment-evm/src/exact: a client*)
(* signs an EIP-3009 authorization for what the requirements ask, and the  *)
(* facilitator verifies it and has transferWithAuthorization() executed by *)
(* the token, or by a forwarder in front of it.                            *)
(*                                                                         *)
(* The facilitator keeps no state: what was used is on chain.  Its         *)
(* transactions go out from one account, whose nonce each call reads by    *)
(* itself.  Chain, contracts and the client library (viem) are external.   *)
(***************************************************************************)
EXTENDS Integers, FiniteSets

CONSTANTS
    Wallets,       \* those who pay
    Requirements,  \* [id, payTo, amount]; id: scheme, network and asset
    OurId,         \* the id this facilitator matches
    Calls,         \* the calls of handleVerify() and handleSettle()
    Assets,        \* the assets the facilitator may be configured with
    Balance,       \* Balance[w]: what w owns at first
    Skew,          \* seconds an authorization is valid in advance
    MaxTimeout,    \* maxTimeoutSeconds
    MaxTime,       \* bound: the horizon of the clock
    MaxSigned,     \* bound: how many authorizations are signed
    MaxFee         \* bound: how high the gas price rises

(* ContractInfo: which of the optional fields the asset has; and the       *)
(* version the token contract reports.                                     *)
AssetInfo == [forwarder : BOOLEAN, forwarderName : BOOLEAN,
              forwarderVersion : BOOLEAN, version : {"1", "2"}]

ASSUME EvmConstants ==
    /\ Skew \in Nat /\ MaxTimeout \in Nat /\ MaxTime \in Nat
    /\ MaxSigned \in Nat /\ MaxFee \in Nat
    /\ Balance \in [Wallets -> Nat]
    /\ \A req \in Requirements : req.amount \in Nat
    /\ Assets \subseteq AssetInfo

UseForwarder(a) == a.forwarder /\ a.forwarderName

(* createFacilitatorHandler() throws when the version is missing.          *)
Usable(a) == UseForwarder(a) => a.forwarderVersion

VARIABLES
    asset,     \* the assetInfo of the facilitator, fixed when it is made
    time,      \* seconds
    signed,    \* the authorizations clients have signed
    calls,     \* where each call is, and its answer in the end
    pool,      \* transactions of the facilitator that wait to be mined
    mined,     \* those that were, in the order of their nonces
    balances   \* what each wallet owns

evmVars == <<asset, time, signed, calls, pool, mined, balances>>

chainVars == <<pool, mined, balances>>

-----------------------------------------------------------------------------
(* Domains, and what the contracts accept (external). *)

(* generateDomain(): read from the token's contract.                       *)
GenerateDomain == [name |-> "token", version |-> asset.version,
                   contract |-> "token"]

GenerateForwarderDomain == [name |-> "forwarder", version |-> "1",
                            contract |-> "forwarder"]

(* The domain a signature is verified against.                             *)
Domain == IF UseForwarder(asset) THEN GenerateForwarderDomain
                                 ELSE GenerateDomain

(* getRequirements(): the domain parameters that clients are given.  For a *)
(* token the version is always "2".                                        *)
Extra == IF UseForwarder(asset)
           THEN GenerateForwarderDomain
           ELSE [name |-> "token", version |-> "2", contract |-> "token"]

(* Where transferWithAuthorization() is called, and the contract that      *)
(* authorizationState() is read from.                                      *)
CalledContract == IF UseForwarder(asset) THEN "forwarder" ELSE "token"
CheckedContract == IF asset.forwarder THEN "forwarder" ELSE "token"

(* The nonces each contract has marked as used.                            *)
Used(contract) ==
    {tx.auth : tx \in {mined[n].tx : n \in {m \in DOMAIN mined :
                          mined[m].ok /\ contract = CalledContract}}}

(* transferWithAuthorization() does not revert.  Unlike the facilitator,   *)
(* the contract does not accept the first and the last second.             *)
Executes(auth) ==
    /\ auth \notin Used(CalledContract)
    /\ auth.validAfter < time /\ time < auth.validBefore
    /\ auth.domain = Domain
    /\ balances[auth.from] >= auth.value

-----------------------------------------------------------------------------
(* createPaymentHandler() in client.ts. *)

(* generateMatcher().                                                      *)
IsMatchingRequirement(req) == req.id = OurId

(* exec(): each authorization has a random nonce.  The domain is the one   *)
(* of the requirements' extra, or what the client knows of the token when  *)
(* the requirements have none.                                             *)
Authorization(w, req, extra) ==
    [from |-> w, to |-> req.payTo, value |-> req.amount,
     validAfter |-> time - Skew, validBefore |-> time + MaxTimeout,
     nonce |-> Cardinality(signed) + 1, domain |-> extra]

BareExtra == [name |-> "token", version |-> "2", contract |-> "token"]

HandlePayment(w, req) ==
    /\ IsMatchingRequirement(req)
    /\ Cardinality(signed) < MaxSigned
    /\ \E extra \in {Extra, BareExtra} :
          signed' = signed \cup {Authorization(w, req, extra)}
    /\ UNCHANGED <<asset, time, calls, chainVars>>

-----------------------------------------------------------------------------
(* The facilitator. *)

(* The states of a call.  Its verdict is "valid", "success", "error",      *)
(* "null" (the requirements are another handler's) or "throw".             *)
NoCall == [pc |-> "idle"]

Goto(c, pc) == calls' = [calls EXCEPT ![c].pc = pc]

AnswerWith(c, verdict) ==
    calls' = [calls EXCEPT ![c].pc = "done", ![c].verdict = verdict]

(* Mutant: the payee and the amount are left to the signature.             *)
AuthorizesAny(auth, req) ==
    auth.validAfter <= time /\ time <= auth.validBefore

(* verifyTransaction(), up to its first await.                             *)
Authorizes(auth, req) ==
    /\ auth.to = req.payTo /\ auth.value = req.amount
    /\ auth.validAfter <= time /\ time <= auth.validBefore

(* handleVerify() or handleSettle() is called with some requirements and   *)
(* any authorization that exists.  It returns null, or at once with an     *)
(* error (a malformed payload among them), or turns to the chain.          *)
Begin(c, kind, req, auth) ==
    LET New(pc, verdict) ==
            [pc |-> pc, kind |-> kind, req |-> req, auth |-> auth,
             nonce |-> 0, fee |-> 0, verdict |-> verdict]
    IN  /\ calls[c].pc = "idle"
        /\ calls' = [calls EXCEPT ![c] =
                       IF ~IsMatchingRequirement(req) THEN New("done", "null")
                       ELSE IF ~Authorizes(auth, req) THEN New("done", "error")
                       ELSE New("checking", "none")]
        /\ UNCHANGED <<asset, time, signed, chainVars>>

(* Mutant: the nonce is not looked up.                                     *)
CheckSignatureOnly(c) ==
    LET call == calls[c]
    IN  /\ call.pc = "checking"
        /\ \/ /\ call.auth.domain = Domain
              /\ \/ call.kind = "verify" /\ AnswerWith(c, "valid")
                 \/ /\ call.kind = "settle" /\ Goto(c, "preparing")
           \/ /\ call.auth.domain # Domain
              /\ AnswerWith(c, "error")
        /\ UNCHANGED <<asset, time, signed, chainVars>>

(* The rest of verifyTransaction(): authorizationState() and the signature.*)
(* handleVerify() has its answer; handleSettle() goes on.                  *)
CheckNonce(c) ==
    LET call == calls[c]
        ok == /\ call.auth \notin Used(CheckedContract)
              /\ call.auth.domain = Domain
    IN  /\ call.pc = "checking"
        /\ \/ ~ok /\ AnswerWith(c, "error")
           \/ ok /\ call.kind = "verify" /\ AnswerWith(c, "valid")
           \/ /\ ok /\ call.kind = "settle"
              /\ Goto(c, "preparing")
        /\ UNCHANGED <<asset, time, signed, chainVars>>

(* The next nonce of the account, the transactions in the pool included.   *)
PendingNonce == Cardinality(DOMAIN mined) + Cardinality(pool) + 1

(* prepareTransactionRequest(): the account's nonce and the gas price are  *)
(* read; the gas estimate fails for a call that would revert.              *)
PrepareTransaction(c) ==
    /\ calls[c].pc = "preparing"
    /\ Executes(calls[c].auth)
    /\ \E fee \in 1..MaxFee :
          calls' = [calls EXCEPT ![c].pc = "sending", ![c].fee = fee,
                                 ![c].nonce = PendingNonce]
    /\ UNCHANGED <<asset, time, signed, chainVars>>

Tx(c) == [auth |-> calls[c].auth, nonce |-> calls[c].nonce,
          fee |-> calls[c].fee]

(* sendRawTransaction(): the node takes a transaction with a new nonce,    *)
(* one that pays more than the one it replaces, and the same one again.    *)
(* The others are refused, see Throws.                                     *)
SendTransaction(c) ==
    LET tx == Tx(c)
        rivals == {p \in pool : p.nonce = tx.nonce}
    IN  /\ calls[c].pc = "sending"
        /\ tx.nonce > Cardinality(DOMAIN mined)
        /\ \A p \in rivals : p = tx \/ p.fee < tx.fee
        /\ pool' = (pool \ rivals) \cup {tx}
        /\ Goto(c, "waiting") \/ AnswerWith(c, "throw")
        /\ UNCHANGED <<asset, time, signed, mined, balances>>

(* Mutant: a receipt is taken for a success.                               *)
WaitForAnyReceipt(c) ==
    /\ calls[c].pc = "waiting" /\ calls[c].nonce \in DOMAIN mined
    /\ AnswerWith(c, "success")
    /\ UNCHANGED <<asset, time, signed, chainVars>>

(* waitForTransactionReceipt(): the receipt of the transaction, or of the  *)
(* one that replaced it.                                                   *)
WaitForReceipt(c) ==
    /\ calls[c].pc = "waiting" /\ calls[c].nonce \in DOMAIN mined
    /\ AnswerWith(c, IF mined[calls[c].nonce].ok
                       THEN "success" ELSE "error")
    /\ UNCHANGED <<asset, time, signed, chainVars>>

(* A request to the chain fails or times out.                              *)
Throws(c) ==
    /\ calls[c].pc \notin {"idle", "done"}
    /\ AnswerWith(c, "throw")
    /\ UNCHANGED <<asset, time, signed, chainVars>>

-----------------------------------------------------------------------------
(* The chain and the clock (external). *)

(* The transaction with the account's next nonce is executed.              *)
Mine(tx) ==
    LET n == Cardinality(DOMAIN mined) + 1
        ok == Executes(tx.auth)
    IN  /\ tx \in pool /\ tx.nonce = n
        /\ pool' = pool \ {tx}
        /\ mined' = [m \in 1..n |-> IF m = n THEN [tx |-> tx, ok |-> ok]
                                             ELSE mined[m]]
        /\ balances' = [balances EXCEPT ![tx.auth.from] =
                           IF ok THEN @ - tx.auth.value ELSE @]
        /\ UNCHANGED <<asset, time, signed, calls>>

Tick ==
    /\ time < MaxTime
    /\ time' = time + 1
    /\ UNCHANGED <<asset, signed, calls, chainVars>>

-----------------------------------------------------------------------------
EvmInit ==
    /\ asset \in {a \in Assets : Usable(a)}
    /\ time = Skew /\ signed = {}
    /\ calls = [c \in Calls |-> NoCall]
    /\ pool = {} /\ mined = [n \in {} |-> 0]
    /\ balances = Balance

Facilitator(c) ==
    \/ \E kind \in {"verify", "settle"}, req \in Requirements, auth \in signed :
          Begin(c, kind, req, auth)
    \/ CheckNonce(c)
    \/ PrepareTransaction(c)
    \/ SendTransaction(c)
    \/ WaitForReceipt(c)
    \/ Throws(c)

Chain == Tick \/ \E tx \in pool : Mine(tx)

-----------------------------------------------------------------------------
(* Properties. *)

Succeeded(c) == calls[c].pc = "done" /\ calls[c].verdict = "success"

(* Another transaction of the facilitator took the nonce of the one c sent.*)
Displaced(c) == mined[calls[c].nonce].tx # Tx(c)

(* "executes the transferWithAuthorization call on the token contract":    *)
(* success means that the payer's authorization was executed and paid the  *)
(* payee what the requirements ask, although it was verified long before   *)
(* it was mined - unless a concurrent call displaced the transaction, whose*)
(* receipt then is the other's.                                            *)
SettledIsTransferred ==
    \A c \in Calls : Succeeded(c) =>
       LET n == calls[c].nonce
       IN  /\ mined[n].ok
           /\ ~Displaced(c) => /\ mined[n].tx.auth.to = calls[c].req.payTo
                               /\ mined[n].tx.auth.value = calls[c].req.amount

(* An authorization is settled once, however often and however concurrently*)
(* it is presented: calls that succeed with it have sent one transaction - *)
(* unless one was displaced and took the other's receipt for its own, so   *)
(* that its authorization could still be settled.                          *)
OneSuccessPerAuthorization ==
    \A c, d \in Calls :
       Succeeded(c) /\ Succeeded(d) /\ calls[c].auth = calls[d].auth =>
          Displaced(c) \/ Displaced(d) \/ Tx(c) = Tx(d)

(* c gets its answer from the check of the nonce and the signature.        *)
Judged(c, verdict) == /\ calls[c].pc = "checking" /\ calls'[c].pc = "done"
                      /\ calls'[c].verdict = verdict

(* verifyTransaction(): what it calls valid has not been used where it     *)
(* will be executed and is signed as that contract asks - for every asset  *)
(* whose forwarder, if there is one, has a name.  And "Provide EIP-712     *)
(* domain parameters for client signing": what was signed with them is     *)
(* only refused because it was used, unless the token is of another        *)
(* version than the one clients are told.                                  *)
VerdictIsRight ==
    [][\A c \in Calls :
          /\ Judged(c, "valid") /\ asset.forwarder = asset.forwarderName
                => /\ calls[c].auth \notin Used(CalledContract)
                   /\ calls[c].auth.domain = Domain
          /\ Judged(c, "error") /\ calls[c].auth.domain = Extra
                => \/ calls[c].auth \in Used(CheckedContract)
                   \/ ~UseForwarder(asset) /\ asset.version # "2"]_evmVars
=============================================================================
