------------------------------- MODULE MCFlex -------------------------------
(* TLC instances of FlexFacilitator.                                        *)
EXTENDS FlexFacilitator

CONSTANTS a1, a2,
          Expiry   \* the slot both authorizations, or the first, expire at

OneAuth == {a1}
TwoAuths == {a1, a2}

(* Both authorizations allow 2 units and are signed to expire early, so    *)
(* that expiry, refund timeout and finalization all fit in the horizon; or *)
(* one of them before the session key and the other after it.              *)
MCMaxAmount == [a \in Auths |-> 2]
MCExpiresAt == [a \in Auths |-> Expiry]
MCExpireApart == [a \in Auths |-> IF a = a1 THEN Expiry ELSE Expiry + 2]
=============================================================================
