------------------------- MODULE MCFollowerGateway -------------------------
(* Small instances of FollowerGateway for TLC. *)
EXTENDS FollowerGateway

CONSTANTS opA, opB
=============================================================================
