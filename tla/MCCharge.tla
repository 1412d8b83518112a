------------------------------ MODULE MCCharge ------------------------------
(* TLC instance of ChargeServer: one price in SOL and one in tokens.        *)
EXTENDS ChargeServer

CONSTANTS sol, usdc
=============================================================================
