------------------------------ MODULE MCServer ------------------------------
(* TLC instance of PaymentServer: two handlers for one token, told apart by *)
(* their schemes, and two MPP handlers, told apart by the currency.         *)
EXTENDS PaymentServer, TLC

CONSTANTS r1, r2, exact, flex

Symmetric == Permutations(Requests)

Sol == SolanaMainnetBeta
USDC == Address("USDC", Sol)
SOL == Address("SOL", Sol)
MCHandlerSeq == <<flex, exact>>
MCKindOf == [h \in {flex, exact} |->
               [scheme |-> IF h = flex THEN "flex" ELSE "exact",
                network |-> Sol, asset |-> USDC]]
MCMPPHandlers ==
    <<[method |-> "solana", currency |-> "sol", asset |-> SOL],
      [method |-> "solana", currency |-> "spl", asset |-> USDC]>>
MCPrice == [x \in Routes |-> IF x = "cheap" THEN 1 ELSE 2]

Kind(scheme, network) ==
    [scheme |-> scheme, network |-> network, asset |-> USDC]

Both(network) == {Kind("exact", network), Kind("flex", network)}

Server(kind, first, remote, override, versions) ==
    [kind |-> kind, first |-> first, remote |-> remote, override |-> override,
     x402 |-> TRUE, mpp |-> FALSE, versions |-> versions,
     accepts |-> Both(IF remote THEN "solana" ELSE Sol)]

MCConfigs == {
    [Server("hono", FALSE, TRUE, FALSE, {2}) EXCEPT
        !.accepts = X402Exact(Sol, "USDC") \cup {Kind("flex", Sol)}],
    [Server("hono", TRUE, TRUE, TRUE, {1, 2}) EXCEPT
        !.accepts = {Kind("exact", "solana")}],
    [Server("hono", FALSE, TRUE, TRUE, {2}) EXCEPT
        !.mpp = TRUE, !.accepts = {Kind("exact", Sol)}],
    Server("express", FALSE, FALSE, FALSE, {1}),
    [Server("hono", TRUE, FALSE, FALSE, {2}) EXCEPT
        !.mpp = TRUE, !.accepts = {Kind("exact", Sol), Kind("flex", "solana")}],
    [Server("express", FALSE, FALSE, FALSE, {2}) EXCEPT
        !.mpp = TRUE, !.x402 = FALSE,
        !.accepts = @ \cup {[Kind("exact", "solana") EXCEPT !.asset = SOL]}],
    Server("upto", FALSE, TRUE, TRUE, {2}),
    Server("v1", FALSE, TRUE, TRUE, {1})}

MCUnsolicited == {[ver |-> 1, req |-> Requirement(Kind("exact", Sol), Sol, 1)]}
=============================================================================
