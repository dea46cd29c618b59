----------------------------- MODULE MCConsole -----------------------------
(* Small instances of Console for TLC: an operator's tab, and another operator who
   claims over HTTP and has a page of his own at the gateway. *)
EXTENDS Console

CONSTANTS opA, opB

RoleOfMC == [c \in Conns |-> IF c = Follower THEN "follower" ELSE "operator"]
OpOfMC == [c \in Conns |-> IF c = Follower THEN None ELSE opA]

\* The tab claims for its own operator, and another operator over HTTP.
TabAndHttp == {<<Tab, opA>>, <<"http", opB>>}
NoEstops == {}

\* What TLC tells states apart by: all but what the gateway has published and what the
\* server's participants were told last, which no guard of ConsoleNext and no property
\* of these runs looks at.
AllThatMatters ==
  <<ui, tab_inbox, channel, commands, asked, inbox,
    participants, server_owner, server_estopped, server_state, release_task, task, draining,
    state, owner_operator_id, joined, peers, age, tripped, last_seq, applied, seq_from>>
=============================================================================
