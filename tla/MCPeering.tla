------------------------------ MODULE MCPeering ------------------------------
(***************************************************************************)
(* Peering for TLC.  The peers of a run are model values, so that they can *)
(* be exchanged: nothing in the module depends on their order.             *)
(***************************************************************************)
EXTENDS Peering, TLC

Exchangeable == Permutations(Node)
=============================================================================
