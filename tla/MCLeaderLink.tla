---------------------------- MODULE MCLeaderLink ----------------------------
(* Small instances of LeaderLink for TLC. *)
EXTENDS LeaderLink

CONSTANTS opA, opB
=============================================================================
