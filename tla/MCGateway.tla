------------------------------ MODULE MCGateway ------------------------------
(* TLC instances of Gateway.                                                *)
EXTENDS Gateway

(* The rules whose price at /request is not zero.                          *)
PricedRules == AllRules \ {"zeroAuth"}
=============================================================================
