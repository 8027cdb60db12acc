-------------------------- MODULE MCGatewayClient --------------------------
(***************************************************************************)
(* Small instances of GatewayClient.  A tick is 10 seconds, so the breaker *)
(* stays open for 3 ticks.                                                 *)
(***************************************************************************)
EXTENDS GatewayClient, TLC

CallSymmetry == Permutations(Calls)
=============================================================================
