------------------------------ MODULE MCTeleop ------------------------------
(* Small instances of Teleop for TLC. *)
EXTENDS Teleop

CONSTANTS tabA, tabB, opA, opB

RoleOfMC == [c \in Conns |-> IF c = Follower THEN "follower" ELSE "operator"]
OpOfMC == [c \in Conns |-> CASE c = Follower -> None [] c = tabA -> opA [] c = tabB -> opB]

\* Each browser tab claims and releases for its own operator.
OwnNames == {<<c, o>> \in Conns \X Operators : OpOf[c] = o}

\* A stop and a reset, as the operator UI sends them.
StopAndReset == {<<TRUE, FALSE>>, <<FALSE, TRUE>>}
NoEstops == {}
=============================================================================
