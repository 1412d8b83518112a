------------------------------ MODULE MCExact ------------------------------
(* TLC instance of ExactFacilitator: three transactions, the third made    *)
(* when the first has expired, so that the store drops the first and, on   *)
(* the boundary, not the second; a fourth that does not pay; an account.   *)
EXTENDS ExactFacilitator, TLC

CONSTANTS t1, t2, t3, bad, a1

MCBorn == (t1 :> 0) @@ (t2 :> 2) @@ (t3 :> 3) @@ (bad :> 0)
MCExpires == (t1 :> 2) @@ (t2 :> 4) @@ (t3 :> 5) @@ (bad :> 2)
MCHeight == MCBorn
=============================================================================
