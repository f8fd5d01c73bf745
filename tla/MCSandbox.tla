------------------------------ MODULE MCSandbox ------------------------------
(* Two model calls of price 0 or 1. *)
EXTENDS Sandbox

MCPrices == {0, 1}
==============================================================================
