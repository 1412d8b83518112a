------------------------------- MODULE MCPaid -------------------------------
(* TLC instance of PaidFetch: two clients whose payments may be equal, and *)
(* every way to settle, with a server of one version only where it settles *)
(* in its own process; the decoder gives all transactions one height.      *)
EXTENDS PaidFetch, TLC

CONSTANTS t1, t2, f1, f2

MCConfigs == {c \in Config : c.versions = Versions \/ ~(c.first \/ c.remote)}
MCBorn == [t \in Txs |-> 0]
MCExpires == [t \in Txs |-> 0]
MCHeight == [t \in Txs |-> 1]
Symmetry == Permutations(Txs) \cup Permutations(Fetches)
=============================================================================
