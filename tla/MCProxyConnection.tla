------------------------- MODULE MCProxyConnection -------------------------
(* Values of the constants of ProxyConnection for TLC. *)
EXTENDS ProxyConnection

CONSTANTS c1, c2, d1, d2
=============================================================================
