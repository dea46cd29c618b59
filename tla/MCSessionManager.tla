-------------------------- MODULE MCSessionManager --------------------------
(* Small instances of SessionManager for TLC. *)
EXTENDS SessionManager

CONSTANTS follower, tabA, tabA2, tabB, opA, opB

\* The follower gateway, two browser tabs of operator A and one of operator B.
RoleOfMC == [c \in Conns |-> IF c = follower THEN "follower" ELSE "operator"]
OpOfMC == [c \in Conns |-> CASE c = follower -> None
                             [] c \in {tabA, tabA2} -> opA
                             [] c = tabB -> opB]

\* The operator UI names the operator its websocket joined as.
OwnNames == {<<c, o>> \in Conns \X Operators : OpOf[c] = o}

\* The HTTP endpoints claim and release for anybody, the websockets for themselves.
HttpNames == OwnNames \cup ({Http} \X Operators)
=============================================================================
