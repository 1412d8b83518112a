-------------------------------- MODULE MCEvm --------------------------------
(* TLC instance of RidesPayer and EvmExact.                                 *)
EXTENDS RidesPayer, TLC

CONSTANTS e1, e2, s1, c1, c2, f1, f2

Symmetric == Permutations(Calls) \cup Permutations(Fetches)

MCNetworkNames == <<"base", "solana">>
MCAssetNames == <<"USDC">>

MCWallets == UNION {ToSet(WalletsOf(k)) : k \in Keys}

(* The wallet of e2 is empty, that of e1 has the funds of one payment.     *)
MCBalance == [w \in Wallets |-> IF w.key = e2 THEN 0 ELSE 1]

Base == CHOOSE id \in X402ExactEvm("base", "USDC") : TRUE
Solana == [scheme |-> "exact", network |-> SolanaMainnetBeta,
           asset |-> Address("USDC", SolanaMainnetBeta)]

Req(id, amount, sameCase) ==
    [id |-> id, payTo |-> "shop", amount |-> amount, sameCase |-> sameCase]

Cheap == Req(Base, 1, TRUE)
Respelled == Req(Base, 2, FALSE)
Other == Req(Solana, 1, TRUE)

MCRequirements == {Cheap, Respelled, Other}
MCAccepts == {<<Respelled, Cheap, Other>>}

Asset(fwd, name, version) ==
    [forwarder |-> fwd, forwarderName |-> name, forwarderVersion |-> TRUE,
     version |-> version]

(* A token, one of another version, one behind a forwarder, and one whose  *)
(* forwarder has no name.                                                  *)
MCAssets == {Asset(FALSE, FALSE, "2"), Asset(FALSE, FALSE, "1"),
             Asset(TRUE, TRUE, "2"), Asset(TRUE, FALSE, "2")}
=============================================================================
