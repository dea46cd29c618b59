----------------------------- MODULE MCPeering -----------------------------
(* Small instances of Peering for TLC. *)
EXTENDS Peering

CONSTANTS leader, tab
=============================================================================
