--------------------------- MODULE MC_GatewayTest ---------------------------
(***************************************************************************)
(* The two keys and two values of gateway_test.c as model values.          *)
(***************************************************************************)
EXTENDS GatewayTest

CONSTANTS k1, k2, v1, v2
=============================================================================
