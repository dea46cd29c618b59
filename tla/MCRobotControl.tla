--------------------------- MODULE MCRobotControl ---------------------------
(* Small instances of RobotControl for TLC. *)
EXTENDS RobotControl

CONSTANTS opA, opB
=============================================================================
