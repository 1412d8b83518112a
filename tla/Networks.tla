------------------------------ MODULE Networks ------------------------------
(***************************************************************************)
(* The network registry, packages/info: CAIP-2 identifiers and the legacy  *)
(* names they go by in version 1 of x402.  Of the EVM networks two are     *)
(* written out; the others are of the same form.                           *)
(***************************************************************************)
EXTENDS Sequences, SequencesExt

(* knownX402Networks: one name for an EVM chain.                           *)
KnownX402Networks == [n \in {"eip155:8453", "eip155:84532"} |->
                        IF n = "eip155:8453" THEN "base" ELSE "base-sepolia"]

SolanaMainnetBeta == "solana:5eykt"
SolanaDevnet == "solana:EtWTR"

(* knownSolanaNetworks: Solana's main network has two names.               *)
KnownSolanaNetworks ==
    [n \in {SolanaMainnetBeta, SolanaDevnet} |->
       IF n = SolanaMainnetBeta THEN <<"solana-mainnet-beta", "solana">>
                                ELSE <<"solana-devnet">>]

(* A network is given as any string, of which these mean something.        *)
AnyNetwork ==
    STRING \cup DOMAIN KnownX402Networks \cup DOMAIN KnownSolanaNetworks
           \cup {KnownX402Networks[n] : n \in DOMAIN KnownX402Networks}
           \cup UNION {ToSet(KnownSolanaNetworks[n]) :
                          n \in DOMAIN KnownSolanaNetworks}

(* legacyNameToCAIP2() and legacyNetworkIdToCAIP2(): as sets of the        *)
(* identifiers found, which have at most one member.                       *)
LegacyNameToCAIP2(name) ==
    {n \in DOMAIN KnownX402Networks : KnownX402Networks[n] = name}

LegacyNetworkIdToCAIP2(name) ==
    {n \in DOMAIN KnownSolanaNetworks : name \in ToSet(KnownSolanaNetworks[n])}

(* normalizeNetworkId(): what is not a legacy name stays as it is.         *)
NormalizeNetworkId(name) ==
    LET found == LegacyNameToCAIP2(name) \cup LegacyNetworkIdToCAIP2(name)
    IN  IF found = {} THEN name ELSE CHOOSE n \in found : TRUE

(* translateNetworkToLegacy(): the first name.                             *)
TranslateNetworkToLegacy(n) ==
    IF n \in DOMAIN KnownX402Networks THEN KnownX402Networks[n]
    ELSE IF n \in DOMAIN KnownSolanaNetworks THEN Head(KnownSolanaNetworks[n])
    ELSE n

(* getV1NetworkIds(): the names of a cluster's network.                    *)
GetV1NetworkIds(n) == ToSet(KnownSolanaNetworks[n])

(* The addresses of tokens, of which a registry has at most one for a      *)
(* network; of the Solana tokens three are written out.                    *)
Address(token, n) == [token |-> token, network |-> n]

KnownAssets == [token \in {"USDC"} |-> DOMAIN KnownX402Networks]

KnownSPLTokens ==
    [token \in {"USDC", "PYUSD", "USDT"} |->
       IF token = "USDT" THEN {SolanaMainnetBeta}
                         ELSE {SolanaMainnetBeta, SolanaDevnet}]

(* lookupKnownAsset() and lookupKnownSPLToken(): {} if it is not known.    *)
LookupKnownAsset(n, token) ==
    {Address(token, NormalizeNetworkId(n)) :
        known \in {k \in {token} \cap DOMAIN KnownAssets :
                      NormalizeNetworkId(n) \in KnownAssets[k]}}

LookupKnownSPLToken(n, token) ==
    {Address(token, n) : known \in {k \in {token} \cap DOMAIN KnownSPLTokens :
                                      n \in KnownSPLTokens[k]}}

(* x402Exact() of evm.ts and of solana.ts: what a server is configured     *)
(* with; on Solana one for each name.                                      *)
X402ExactEvm(n, token) ==
    [scheme : {"exact"}, network : {NormalizeNetworkId(n)},
     asset : LookupKnownAsset(n, token)]

X402Exact(n, token) ==
    [scheme : {"exact"}, network : GetV1NetworkIds(n),
     asset : LookupKnownSPLToken(n, token)]
=============================================================================
