----------------------------- MODULE RidesPayer -----------------------------
(***************************************************************************)
(* The payer of packages/rides: wallets are registered, and a paid fetch() *)
(* chooses among the payments they offer one whose wallet has the funds.   *)
(* What it signs goes to the facilitator of EvmExact; wallets on other     *)
(* networks, which rides has too, are told apart by the id they pay for.   *)
(***************************************************************************)
EXTENDS EvmExact, Networks

CONSTANTS
    Fetches,       \* concurrent calls of fetch()
    EvmKeys,       \* what may be passed to addLocalWallet(): private keys
    SolanaKeys,    \* of EVM accounts, and key pairs of Solana accounts
    NetworkNames,  \* the options networks and assets of createPayer()
    AssetNames,
    Accepts,       \* the accepts a 402 may carry, in their order
    NoWallet

Keys == EvmKeys \cup SolanaKeys

(* The networks that the two plugins know by name.                         *)
EvmAliases == {"base", "base-sepolia"}
SolanaAliases == {"solana", "solana-devnet"}

VARIABLES
    registered,  \* paymentHandlers: the wallets in the order they were added
    lookup,      \* balanceLookup: the wallet whose balance stands for an id
    fetches,     \* each fetch(): the options left to look at, those found
                 \* viable
    covered      \* history: the options of a fetch whose own wallet was seen
                 \* to have the amount

payerVars == <<registered, lookup, fetches, covered>>
vars == <<evmVars, payerVars>>

(* What a wallet's handler offers to pay, and its place among the offers:  *)
(* the handler's and, for each handler, that of the accept.                *)
Option == [at : Nat \X Nat, wallet : Wallets, req : Requirements]

(* The payer's state is well typed, and so is what it shares with the      *)
(* facilitator.                                                            *)
TypeOK ==
    /\ registered \in Seq(Wallets)
    /\ lookup \in [{w.id : w \in Wallets} -> Wallets \cup {NoWallet}]
    /\ \A f \in Fetches :
          /\ fetches[f].pc \in {"idle", "choosing", "paid", "threw"}
          /\ fetches[f].options \subseteq Option
          /\ fetches[f].viable \in Seq(Option)
          /\ covered[f] \subseteq Option
    /\ \A w \in Wallets : balances[w] \in 0..Balance[w]
    /\ \A a \in signed : a.from \in Wallets /\ a.validBefore \in Nat
    /\ DOMAIN mined = 1..Cardinality(DOMAIN mined)
    /\ \A tx \in pool : tx.nonce > Cardinality(DOMAIN mined)

-----------------------------------------------------------------------------
(* findNetworkAssetCombinations(), findNetworkMintCombinations(): what the *)
(* plugins can pay with, for the networks and the assets in their order.   *)
Combinations(aliases, Lookup(_, _)) ==
    LET Known(name) == name \in aliases
        networks == SelectSeq(NetworkNames, Known)
        OnNetwork(n) ==
            LET Has(token) == Lookup(n, token) # {}
                tokens == SelectSeq(AssetNames, Has)
            IN  [i \in DOMAIN tokens |->
                   [scheme |-> "exact", network |-> n,
                    asset |-> CHOOSE a \in Lookup(n, tokens[i]) : TRUE]]
    IN  FlattenSeq([i \in DOMAIN networks |->
                      OnNetwork(NormalizeNetworkId(networks[i]))])

FindNetworkAssetCombinations == Combinations(EvmAliases, LookupKnownAsset)
FindNetworkMintCombinations == Combinations(SolanaAliases, LookupKnownSPLToken)

(* addLocalWallet() of a plugin: null for what is not a key of its kind,   *)
(* else a wallet for each combination.                                     *)
WalletsFor(key, ids) == [i \in DOMAIN ids |-> [key |-> key, id |-> ids[i]]]

AddSolanaWallet(key) ==
    IF key \in SolanaKeys THEN WalletsFor(key, FindNetworkMintCombinations)
                          ELSE <<>>

AddEvmWallet(key) ==
    IF key \in EvmKeys THEN WalletsFor(key, FindNetworkAssetCombinations)
                       ELSE <<>>

WalletsOf(key) == AddSolanaWallet(key) \o AddEvmWallet(key)

ASSUME PayerConstants ==
    /\ \A key \in Keys : WalletsOf(key) \in Seq(Wallets)
    /\ NoWallet \notin Wallets
    /\ \A accepts \in Accepts : accepts \in Seq(Requirements)

(* Mutant: the null of the other plugin is pushed too.                     *)
AddLocalWalletOfNull(key) ==
    /\ WalletsOf(key) # <<>>
    /\ registered' = registered \o WalletsOf(key) \o <<NoWallet>>
    /\ UNCHANGED <<evmVars, lookup, fetches, covered>>

(* addLocalWallet(), addWalletAdapter(): the wallets of a key are added, or*)
(* it throws when there are none.  Of two wallets for an id, the balance of*)
(* the later one is looked up for both.  Bound: a key is added once.       *)
AddLocalWallet(key) ==
    LET new == ToSet(WalletsOf(key))
    IN  /\ new # {} /\ new \cap ToSet(registered) = {}
        /\ registered' = registered \o WalletsOf(key)
        /\ lookup' = [id \in DOMAIN lookup |->
                        IF \E w \in new : w.id = id
                          THEN CHOOSE w \in new : w.id = id
                          ELSE lookup[id]]
        /\ UNCHANGED <<evmVars, fetches, covered>>

-----------------------------------------------------------------------------
(* The balances of wallets.  What is read, if it can be. *)

Known(amount) == [ok |-> TRUE, amount |-> amount]
Unread == [ok |-> FALSE, amount |-> 0]

(* getTokenBalance() of payment-evm/src/erc20.ts.                          *)
ERC20Balance(w) == {Known(balances[w]), Unread}

(* getTokenBalance() of payment-solana/src/splToken.ts: NoWallet for null, *)
(* which an owner without a token account has.                             *)
SPLTokenBalance(w) ==
    {IF balances[w] = 0 THEN NoWallet ELSE Known(balances[w]), Unread}

(* getBalance() of a wallet: null is a balance of zero.                    *)
GetBalance(w) ==
    IF w.key \in EvmKeys THEN ERC20Balance(w)
    ELSE {IF b = NoWallet THEN Known(0) ELSE b : b \in SPLTokenBalance(w)}

(* What the n-th handler offers for the accepts of a 402: it compares ids  *)
(* without regard to case.                                                 *)
OptionsOf(n, accepts) ==
    {[at |-> <<n, i>>, wallet |-> registered[n], req |-> accepts[i]] :
        i \in {i \in DOMAIN accepts : accepts[i].id = registered[n].id}}

(* processPaymentRequiredResponse(): the offers of all handlers.           *)
PossiblePayers(accepts) ==
    UNION {OptionsOf(n, accepts) : n \in DOMAIN registered}

(* The order of the offers.                                                *)
IsFirst(o, options) ==
    \A p \in options : \/ o.at[1] < p.at[1]
                       \/ o.at[1] = p.at[1] /\ o.at[2] <= p.at[2]

(* A 402 has arrived; without wallets setupFetch() has thrown.             *)
PaymentRequired(f, accepts) ==
    /\ fetches[f].pc = "idle" /\ Len(registered) > 0
    /\ fetches' = [fetches EXCEPT ![f] =
                     [pc |-> "choosing", options |-> PossiblePayers(accepts),
                      viable |-> <<>>]]
    /\ UNCHANGED <<evmVars, registered, lookup, covered>>

(* Mutant: a wallet without the funds stays an option.                     *)
CheckBalanceOfNone(f, o) ==
    /\ fetches[f].pc = "choosing" /\ IsFirst(o, fetches[f].options)
    /\ fetches' = [fetches EXCEPT ![f].options = @ \ {o},
                                  ![f].viable = Append(@, o)]
    /\ UNCHANGED <<evmVars, registered, lookup, covered>>

(* The loop of payerChooser: the balance that is looked up for the option's*)
(* id decides whether it is viable.  A balance that cannot be read skips   *)
(* the option, and so does an id that is spelled in another case.          *)
CheckBalance(f, o) ==
    LET w == lookup[o.req.id]
    IN  /\ fetches[f].pc = "choosing" /\ IsFirst(o, fetches[f].options)
        /\ \E balance \in GetBalance(w) :
              LET viable == /\ o.req.sameCase /\ balance.ok
                            /\ balance.amount >= o.req.amount
              IN  /\ fetches' = [fetches EXCEPT
                        ![f].options = @ \ {o},
                        ![f].viable = IF viable THEN Append(@, o) ELSE @]
                  /\ covered' = [covered EXCEPT ![f] =
                        IF viable /\ w = o.wallet THEN @ \cup {o} ELSE @]
        /\ UNCHANGED <<evmVars, registered, lookup>>

(* chooseFirstAvailable() and exec(): the first viable option is paid with,*)
(* or there is none and fetch() throws.  A wallet of another network pays  *)
(* elsewhere.                                                              *)
ChooseAndPay(f) ==
    LET o == Head(fetches[f].viable)
    IN  /\ fetches[f].pc = "choosing" /\ fetches[f].options = {}
        /\ \/ /\ fetches[f].viable = <<>>
              /\ fetches' = [fetches EXCEPT ![f].pc = "threw"]
              /\ UNCHANGED <<evmVars, covered>>
           \/ /\ fetches[f].viable # <<>>
              /\ \/ HandlePayment(o.wallet, o.req)
                 \/ ~IsMatchingRequirement(o.req) /\ UNCHANGED evmVars
              /\ fetches' = [fetches EXCEPT ![f].pc = "paid",
                                            ![f].viable = <<o>>]
              /\ covered' = [covered EXCEPT ![f] = @ \cap {o}]
        /\ UNCHANGED <<registered, lookup>>

-----------------------------------------------------------------------------
Init ==
    /\ EvmInit
    /\ registered = <<>>
    /\ lookup = [id \in {w.id : w \in Wallets} |-> NoWallet]
    /\ fetches = [f \in Fetches |-> [pc |-> "idle", options |-> {},
                                     viable |-> <<>>]]
    /\ covered = [f \in Fetches |-> {}]

Payer(f) ==
    \/ \E accepts \in Accepts : PaymentRequired(f, accepts)
    \/ \E o \in fetches[f].options : CheckBalance(f, o)
    \/ ChooseAndPay(f)

Next ==
    \/ \E key \in Keys : AddLocalWallet(key)
    \/ \E f \in Fetches : Payer(f)
    \/ (Chain \/ \E c \in Calls : Facilitator(c)) /\ UNCHANGED payerVars

Spec == Init /\ [][Next]_vars

-----------------------------------------------------------------------------
(* Properties. *)

(* "balance validation before payment attempts": the option that is paid   *)
(* with was seen to have its amount in its own wallet, in the same fetch(),*)
(* however wallets are added meanwhile - unless a wallet was added for the *)
(* same id, whose balance is then looked up instead.                       *)
PaysWithCoveredWallet ==
    \A f \in Fetches : fetches[f].pc = "paid" =>
       LET o == Head(fetches[f].viable)
       IN  \/ o \in covered[f]
           \/ \E w \in ToSet(registered) \ {o.wallet} : w.id = o.req.id
=============================================================================
