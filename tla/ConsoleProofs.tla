----------------------------- MODULE ConsoleProofs -----------------------------
(***************************************************************************)
(* Proofs about an operator's page: what gateway and page will believe     *)
(* when they have read what the server sent them, and what the page's      *)
(* channel still carries to the gateway.                                   *)
(***************************************************************************)
EXTENDS Console, TeleopProofs

-----------------------------------------------------------------------------
(* The gateway                                                             *)

\* Once it has joined, the gateway's state fits its owner; peer messages come after that.
GatewaySound ==
  /\ FsmTypeOK /\ OwnedStates
  /\ ~joined => state = "DISCONNECTED"
  /\ joined => /\ state # "DISCONNECTED"
               /\ owner_operator_id # None => state \notin {"CONNECTED", "READY"}
  /\ peers => joined

\* What the gateway does in a step of the system.
GatewayMoves ==
  \/ GatewayIdle \/ Offer \/ Tick \/ WatchdogTimeout
  \/ \E o \in Operators, b \in Buttons : Performs(o, b)
  \/ \E o \in Operators \cup {None}, s \in SessionState : Joined(s, o)
  \/ \E o \in Operators \cup {None} : OwnershipMessage(o)
  \/ \E engaged, reset \in BOOLEAN : Estop(engaged, reset)

LEMMA IdleGateway ==
  ASSUME GatewayIdle
  PROVE  UNCHANGED <<state, owner_operator_id, joined, peers>>
  BY DEF GatewayIdle

LEMMA PerformsNext ==
  ASSUME NEW o \in Operators, NEW b \in Buttons, Performs(o, b)
  PROVE  Next /\ UNCHANGED <<owner_operator_id, joined, peers>>
<1>1. CASE b = "enable" /\ Enable(o)
  BY <1>1 DEF Next, Enable, on_enable, Goto
<1>2. CASE b = "disable" /\ Disable(o)
  BY <1>2 DEF Next, Disable, on_disable, Goto
<1>3. ASSUME NEW engaged \in BOOLEAN, Clutch(o, engaged)
      PROVE  Next /\ UNCHANGED <<owner_operator_id, joined, peers>>
  BY <1>3 DEF Next, Clutch, on_clutch, Goto
<1>4. ASSUME NEW engaged \in BOOLEAN, NEW reset \in BOOLEAN, Estop(engaged, reset)
      PROVE  Next /\ UNCHANGED <<owner_operator_id, joined, peers>>
  BY <1>4 DEF Next, Estop, on_estop, Goto
<1> QED BY <1>1, <1>2, <1>3, <1>4 DEF Performs

LEMMA MovesNext ==
  ASSUME GatewayMoves
  PROVE  Next \/ UNCHANGED <<state, owner_operator_id, joined, peers>>
  BY IdleGateway, PerformsNext DEF GatewayMoves, Next

LEMMA GatewaySoundStep ==
  ASSUME GatewaySound, GatewayMoves
  PROVE  GatewaySound'
<1> USE NoneIsNoOperator, ConsoleAssumption
<1> USE DEF GatewaySound, is_armed, is_estopped, Goto, fsm
<1>1. FsmTypeOK' /\ OwnedStates'
  BY MovesNext, GatewayOwned DEF FsmTypeOK, OwnedStates
<1> DEFINE Rest ==
      /\ ~joined => state = "DISCONNECTED"
      /\ joined => /\ state # "DISCONNECTED"
                   /\ owner_operator_id # None => state \notin {"CONNECTED", "READY"}
      /\ peers => joined
<1>2. ASSUME GatewayIdle PROVE Rest'
  BY <1>2, IdleGateway
<1>3. ASSUME Offer PROVE Rest'
  BY <1>3 DEF Offer, on_peer_connected
<1>4. ASSUME Tick PROVE Rest'
  BY <1>4 DEF Tick
<1>5. ASSUME WatchdogTimeout PROVE Rest'
  BY <1>5 DEF WatchdogTimeout, on_freeze
<1>6. ASSUME NEW o \in Operators \cup {None}, NEW s \in SessionState, Joined(s, o) PROVE Rest'
  BY <1>6 DEF Joined, ServerStates
<1>7. ASSUME NEW o \in Operators \cup {None}, OwnershipMessage(o) PROVE Rest'
  BY <1>7 DEF OwnershipMessage, on_ownership, StateAfterOwner
<1>8. ASSUME NEW e \in BOOLEAN, NEW r \in BOOLEAN, Estop(e, r) PROVE Rest'
  BY <1>8 DEF Estop, on_estop, StateAfterEstop, Idle
<1>9. ASSUME NEW o \in Operators, Enable(o) PROVE Rest'
  BY <1>9 DEF Enable, on_enable, FromOwner
<1>10. ASSUME NEW o \in Operators, Disable(o) PROVE Rest'
  BY <1>10 DEF Disable, on_disable, FromOwner
<1>11. ASSUME NEW o \in Operators, NEW e \in BOOLEAN, Clutch(o, e) PROVE Rest'
  BY <1>11 DEF Clutch, on_clutch, FromOwner
<1> HIDE DEF Rest
<1>12. ASSUME NEW o \in Operators, NEW b \in Buttons, Performs(o, b) PROVE Rest'
  BY <1>8, <1>9, <1>10, <1>11, <1>12 DEF Performs
<1>13. Rest'
  BY <1>2, <1>3, <1>4, <1>5, <1>6, <1>7, <1>8, <1>12 DEF GatewayMoves
<1> QED BY <1>1, <1>13 DEF Rest
-----------------------------------------------------------------------------
(* What the gateway has been told                                          *)

\* The gateway keeps its websocket, so before it has joined there is nothing under way.
FollowerTold ==
  /\ ServerInv
  /\ inbox \in Seq(Messages) /\ OwnerLearned
  /\ ~Connected => ~joined /\ inbox = <<>>

\* Any message to it is followed by the owner.
LEMMA FollowerHears ==
  ASSUME FollowerTold, ServerInv', Connected' <=> Connected, UNCHANGED <<owner_operator_id, joined>>,
         Sent(<<>>)
  PROVE  FollowerTold'
<1>1. server_owner' \in Operators \cup {None}
  BY DEF ServerInv
<1>2. /\ inbox' \in Seq(Messages)
      /\ Connected' => inbox' = Append(inbox, OwnershipMsg(server_owner'))
  BY <1>1, SentOwnership DEF FollowerTold, Connected
<1>3. ~Connected => inbox' = inbox
  BY DEF Sent, Connected
<1>4. OwnerLearned'
  <2> SUFFICES ASSUME Connected
               PROVE  LastWord(inbox', "owner", owner_operator_id', server_owner')
    BY DEF OwnerLearned
  <2> DEFINE o == OwnershipMsg(server_owner')
  <2>1. o \in Messages /\ Speaks(o, "owner") /\ Says(o, "owner") = server_owner'
    BY <1>1, MessageTypes DEF OwnershipMsg, Speaks, Says
  <2> HIDE DEF o
  <2>2. LastWord(Append(inbox, o), "owner", owner_operator_id, server_owner')
    BY <2>1, LastWordAppend DEF FollowerTold, OwnerLearned
  <2> QED BY <1>2, <2>2 DEF o
<1> QED BY <1>2, <1>3, <1>4 DEF FollowerTold

LEMMA FollowerUntouched ==
  ASSUME FollowerTold, ServerInv', Connected' <=> Connected,
         UNCHANGED <<owner_operator_id, joined, server_owner, inbox>>
  PROVE  FollowerTold'
  BY DEF FollowerTold, OwnerLearned

LEMMA FollowerIsWelcomed ==
  ASSUME FollowerTold, FollowerJoins, UNCHANGED <<owner_operator_id, joined>>
  PROVE  FollowerTold' /\ ToSet(participants') = ToSet(participants) \cup {Follower}
<1>1. /\ ServerInv' /\ ToSet(participants') = ToSet(participants) \cup {Follower}
      /\ UNCHANGED server_owner
  BY ServerJoins, TeleopAssumption DEF FollowerJoins, FollowerTold
<1>2. server_owner' \in Operators \cup {None} /\ server_state' \in SessionState
  BY <1>1 DEF ServerInv, Server!RecomputedState, SessionState
<1>3. JoinedMsg(server_owner', server_state') \in Messages
  BY <1>2, MessageTypes
<1>4. Connected'
  BY <1>1 DEF Connected
<1>5. inbox = <<>> /\ ~Connected
  BY DEF FollowerJoins, Connected, Server!Join, Server!Members, Server!ToSet, ToSet
<1>6. /\ inbox' \in Seq(Messages)
      /\ inbox' = Append(Append(inbox, JoinedMsg(server_owner', server_state')), OwnershipMsg(server_owner'))
  BY <1>2, <1>3, <1>4, SentOne DEF FollowerJoins, FollowerTold, Connected
<1>7. Told
  BY <1>5, <1>6 DEF Told
<1>8. OwnerLearned'
  BY <1>2, <1>7, ToldOwner DEF FollowerTold, OwnerLearned
<1> QED BY <1>1, <1>4, <1>6, <1>8 DEF FollowerTold

LEMMA FollowerReads ==
  ASSUME FollowerTold, Receive
  PROVE  FollowerTold' /\ Connected /\ UNCHANGED server
<1>1. /\ UNCHANGED server
      /\ inbox # <<>> /\ inbox' = Tail(inbox) /\ inbox' \in Seq(Messages)
      /\ owner_operator_id' = IF Speaks(Head(inbox), "owner") THEN Says(Head(inbox), "owner")
                              ELSE owner_operator_id
  BY ReceiveBelieves DEF FollowerTold
<1>2. Connected
  BY <1>1 DEF FollowerTold
<1>3. UNCHANGED <<participants, server_owner>> /\ ServerInv' /\ Connected'
  BY <1>1, <1>2 DEF server, ServerInv, FollowerTold, Connected
<1>4. LastWord(inbox, "owner", owner_operator_id, server_owner)
  BY <1>2 DEF FollowerTold, OwnerLearned
<1>5. OwnerLearned'
  BY <1>1, <1>3, <1>4, LastWordTail DEF FollowerTold, OwnerLearned
<1> QED BY <1>1, <1>2, <1>3, <1>5 DEF FollowerTold

-----------------------------------------------------------------------------
(* What the page has been told                                             *)

UIStates ==
  [ws : {"disconnected", "open"}, participant : BOOLEAN, signaling : SessionState,
   owner : Operators \cup {None}, open : BOOLEAN, status : SessionState \cup {None},
   heard : {"never", "fresh", "stale"}]

Closed == [type |-> "closed"]
TabNews == [type : {"joined", "ownership"}, owner : Operators \cup {None}, state : SessionState]

\* The messages of a websocket that is lost end with its end.
Ended(q) ==
  /\ q \in Seq(TabNews \cup {Closed}) /\ q # <<>>
  /\ \A i \in 1..Len(q) : q[i] = Closed <=> i = Len(q)

\* As long as the server has the page among its participants, the page will know the owner
\* when it has read its messages; otherwise it has been told, or will be, that it is cut off.
TabTold ==
  /\ ui \in UIStates
  /\ Tab \in ToSet(participants) =>
       /\ ui.ws = "open" /\ tab_inbox \in Seq(TabNews)
       /\ LastWord(tab_inbox, "owner", ui.owner, server_owner)
  /\ Tab \notin ToSet(participants) =>
       \/ ui.ws = "disconnected" /\ tab_inbox = <<>>
       \/ ui.ws = "open" /\ Ended(tab_inbox)

LEMMA LastWordConcat ==
  ASSUME NEW S, NEW q \in Seq(S), NEW r \in Seq(S), r # <<>>, NEW subject, NEW old, NEW new,
         \A i \in DOMAIN r : Speaks(r[i], subject) /\ Says(r[i], subject) = new
  PROVE  LastWord(q \o r, subject, old, new)
<1> DEFINE s == q \o r
           n == Len(q) + Len(r)
<1>1. /\ Len(q) \in Nat /\ Len(r) \in Nat \ {0} /\ DOMAIN r = 1..Len(r)
      /\ s \in Seq(S) /\ Len(s) = n
      /\ \A i \in 1..n : s[i] = IF i <= Len(q) THEN q[i] ELSE r[i - Len(q)]
  BY ConcatProperties, LenProperties, EmptySeq
<1>2. DOMAIN s = 1..n
  BY <1>1, LenProperties
<1> HIDE DEF s
<1>3. n \in DOMAIN s /\ s[n] = r[Len(r)] /\ Len(r) \in DOMAIN r
  <2>1. n \in 1..n /\ ~(n <= Len(q)) /\ n - Len(q) = Len(r) /\ Len(r) \in 1..Len(r)
    BY <1>1
  <2> HIDE DEF n
  <2> QED BY <1>1, <1>2, <2>1
<1>4. \A j \in DOMAIN s : ~(j > n)
  BY <1>1, <1>2
<1> QED BY <1>3, <1>4 DEF LastWord, s

\* News to the page end with the owner.
LEMMA TabHears ==
  ASSUME ServerInv', tab_inbox \in Seq(TabNews), Tab \in ToSet(participants'),
         NEW types \in {<<"ownership">>, <<"joined", "ownership">>}, Tells(types), NEW old
  PROVE  tab_inbox' \in Seq(TabNews) /\ LastWord(tab_inbox', "owner", old, server_owner')
<1> DEFINE news == [i \in DOMAIN types |->
                      [type |-> types[i], owner |-> server_owner', state |-> server_state']]
<1>1. tab_inbox' = tab_inbox \o news
  BY DEF Tells
<1>2. server_owner' \in Operators \cup {None} /\ server_state' \in SessionState
  BY DEF ServerInv, Server!RecomputedState, SessionState
<1>3. PICK n \in {1, 2} : DOMAIN types = 1..n /\ \A i \in 1..n : types[i] \in {"joined", "ownership"}
  <2>1. CASE types = <<"ownership">>
    BY <2>1
  <2>2. CASE types = <<"joined", "ownership">>
    BY <2>2
  <2> QED BY <2>1, <2>2
<1>4. news \in [1..n -> TabNews]
  BY <1>2, <1>3 DEF TabNews
<1>5. news \in Seq(TabNews) /\ news # <<>> /\ DOMAIN news = 1..n
  <2>1. n \in Nat /\ 1 \in 1..n
    OBVIOUS
  <2>2. DOMAIN news = 1..n
    BY <1>3
  <2> HIDE DEF news
  <2>3. news \in Seq(TabNews)
    BY <1>4, <2>1, SeqDef
  <2>4. news # <<>>
    <3>1. DOMAIN <<>> = {}
      OBVIOUS
    <3> QED BY <2>1, <2>2, <3>1
  <2> QED BY <2>2, <2>3, <2>4
<1>6. \A i \in DOMAIN news : Speaks(news[i], "owner") /\ Says(news[i], "owner") = server_owner'
  <2> SUFFICES ASSUME NEW i \in DOMAIN news
               PROVE  news[i].type # "estop" /\ news[i].owner = server_owner'
    BY DEF Speaks, Says
  <2>1. i \in 1..n /\ i \in DOMAIN types
    BY <1>3
  <2> QED BY <1>3, <2>1
<1> HIDE DEF news
<1>7. tab_inbox \o news \in Seq(TabNews)
  BY <1>5, ConcatProperties
<1> QED BY <1>1, <1>5, <1>6, <1>7, LastWordConcat

\* The page's part in a step that leaves its view alone: news come if anything changed.
LEMMA TabNotified ==
  ASSUME TabTold, ServerInv', UNCHANGED ui,
         Tab \in ToSet(participants') <=> Tab \in ToSet(participants),
         \/ UNCHANGED <<server_owner, tab_inbox>>
         \/ Tells(<<"ownership">>)
  PROVE  TabTold'
<1>1. CASE UNCHANGED <<server_owner, tab_inbox>>
  BY <1>1 DEF TabTold
<1>2. CASE Tells(<<"ownership">>)
  <2>1. CASE Tab \in ToSet(participants)
    BY <1>2, <2>1, TabHears DEF TabTold
  <2>2. CASE Tab \notin ToSet(participants)
    BY <1>2, <2>2 DEF TabTold, Tells
  <2> QED BY <2>1, <2>2
<1> QED BY <1>1, <1>2

LEMMA TabIsWelcomed ==
  ASSUME TabTold, ServerInv, TabJoins
  PROVE  /\ TabTold' /\ ServerInv'
         /\ ToSet(participants') = ToSet(participants) \cup {Tab}
         /\ UNCHANGED server_owner
<1>1. /\ ServerInv' /\ ToSet(participants') = ToSet(participants) \cup {Tab}
      /\ UNCHANGED server_owner
  BY ServerJoins, ConsoleAssumption DEF TabJoins
<1>2. Tab \notin ToSet(participants)
  BY DEF TabJoins, Server!Join, Server!Members, Server!ToSet, ToSet
<1>3. tab_inbox = <<>> /\ ui' = [ui EXCEPT !.ws = "open"] /\ Tells(<<"joined", "ownership">>)
  BY <1>2 DEF TabTold, TabJoins
<1>4. ui \in UIStates
  BY DEF TabTold
<1>5. ui' \in UIStates /\ ui'.ws = "open"
  BY <1>3, <1>4 DEF UIStates
<1>6. tab_inbox \in Seq(TabNews)
  BY <1>3, EmptySeq
<1>7. /\ tab_inbox' \in Seq(TabNews)
      /\ LastWord(tab_inbox', "owner", ui'.owner, server_owner')
  BY <1>1, <1>3, <1>6, TabHears
<1> QED BY <1>1, <1>5, <1>7 DEF TabTold

LEMMA TabIsCutOff ==
  ASSUME TabTold, ServerInv, TabLeaves
  PROVE  /\ TabTold' /\ ServerInv'
         /\ ToSet(participants') = ToSet(participants) \ {Tab}
         /\ UNCHANGED server_owner
<1>1. /\ ServerInv' /\ ToSet(participants') = ToSet(participants) \ {Tab}
      /\ UNCHANGED server_owner
  BY ServerLeaves, ConsoleAssumption DEF TabLeaves
<1>2. Tab \in ToSet(participants)
  BY DEF TabLeaves, Server!Leave, Server!Listening, Server!Members, Server!ToSet, ToSet
<1>3. tab_inbox \in Seq(TabNews) /\ ui.ws = "open" /\ UNCHANGED ui
  BY <1>2 DEF TabTold, TabLeaves
<1>4. PICK n \in 0..Len(tab_inbox) : tab_inbox' = SubSeq(tab_inbox, 1, n) \o <<Closed>>
  BY DEF TabLeaves, Closed
<1> DEFINE q == SubSeq(tab_inbox, 1, n)
<1>5. q \in Seq(TabNews)
  <2>1. Len(tab_inbox) \in Nat /\ \A i \in 1..n : tab_inbox[i] \in TabNews
    BY <1>3, LenProperties, ElementOfSeq
  <2> QED BY <2>1, SubSeqProperties
<1>6. q \in Seq(TabNews \cup {Closed})
  BY <1>5, SeqMonotonic
<1>7. tab_inbox' = q \o <<Closed>>
  BY <1>4
<1> HIDE DEF q
<1>8. q \o <<Closed>> = Append(q, Closed)
  BY <1>6, AppendIsConcat
<1>9. Ended(tab_inbox')
  <2>1. /\ Append(q, Closed) \in Seq(TabNews \cup {Closed})
        /\ Len(q) \in Nat /\ Len(Append(q, Closed)) = Len(q) + 1
        /\ \A i \in 1..Len(q) : Append(q, Closed)[i] = q[i]
        /\ Append(q, Closed)[Len(q) + 1] = Closed
    BY <1>6, AppendProperties, LenProperties
  <2>2. \A i \in 1..Len(q) : q[i] # Closed
    <3>1. \A m \in TabNews : m # Closed
      <4>1. \A m \in TabNews : m.type # "closed"
        BY DEF TabNews
      <4>2. Closed.type = "closed"
        BY DEF Closed
      <4> QED BY <4>1, <4>2
    <3> QED BY <1>5, <3>1, ElementOfSeq
  <2>3. Append(q, Closed) # <<>>
    BY <2>1, EmptySeq
  <2> DEFINE r == Append(q, Closed)
  <2> HIDE DEF r
  <2>4. r \in Seq(TabNews \cup {Closed}) /\ r # <<>> /\ \A i \in 1..Len(r) : r[i] = Closed <=> i = Len(r)
    BY <2>1, <2>2, <2>3 DEF r
  <2> QED BY <1>7, <1>8, <2>4 DEF Ended, r
<1> QED BY <1>1, <1>3, <1>9 DEF TabTold

LEMMA TabReadsOn ==
  ASSUME TabTold, TabReads, UNCHANGED <<participants, server_owner>>
  PROVE  TabTold' /\ (ui'.open => ui.open)
<1> DEFINE m == Head(tab_inbox)
<1>1. /\ tab_inbox # <<>> /\ tab_inbox' = Tail(tab_inbox) /\ ui \in UIStates
      /\ ui' = IF m.type = "closed" THEN AfterClose
               ELSE [ui EXCEPT !.signaling = m.state, !.owner = m.owner,
                               !.participant = @ \/ m.type = "joined"]
  BY DEF TabReads, TabTold
<1> HIDE DEF m
<1>2. ASSUME m \in TabNews
      PROVE  /\ ui' \in UIStates /\ ui'.ws = ui.ws /\ ui'.owner = m.owner /\ ui'.open = ui.open
             /\ Speaks(m, "owner") /\ Says(m, "owner") = m.owner
  <2>1. /\ m.type \in {"joined", "ownership"} /\ m.owner \in Operators \cup {None}
        /\ m.state \in SessionState
    BY <1>2 DEF TabNews
  <2>2. ui' = [ui EXCEPT !.signaling = m.state, !.owner = m.owner,
                         !.participant = @ \/ m.type = "joined"]
    BY <1>1, <2>1
  <2> QED BY <1>1, <2>1, <2>2 DEF UIStates, Speaks, Says
<1>3. CASE Tab \in ToSet(participants)
  <2>1. /\ tab_inbox \in Seq(TabNews) /\ ui.ws = "open"
        /\ LastWord(tab_inbox, "owner", ui.owner, server_owner)
    BY <1>3 DEF TabTold
  <2>2. m \in TabNews /\ tab_inbox' \in Seq(TabNews)
    BY <1>1, <2>1, HeadTailProperties DEF m
  <2>3. LastWord(tab_inbox', "owner", m.owner, server_owner)
    BY <1>1, <1>2, <2>1, <2>2, LastWordTail DEF m
  <2> QED BY <1>2, <1>3, <2>1, <2>2, <2>3 DEF TabTold
<1>4. CASE Tab \notin ToSet(participants)
  <2>1. Ended(tab_inbox) /\ ui.ws = "open"
    BY <1>1, <1>4 DEF TabTold
  <2>2. /\ tab_inbox \in Seq(TabNews \cup {Closed})
        /\ Len(tab_inbox) \in Nat \ {0}
        /\ m = tab_inbox[1] /\ m \in TabNews \cup {Closed}
        /\ tab_inbox' \in Seq(TabNews \cup {Closed})
        /\ Len(tab_inbox') = Len(tab_inbox) - 1
        /\ \A i \in 1..Len(tab_inbox') : tab_inbox'[i] = tab_inbox[i + 1]
    BY <1>1, <2>1, HeadTailProperties, EmptySeq DEF Ended, m
  <2>3. \A i \in 1..Len(tab_inbox) : tab_inbox[i] = Closed <=> i = Len(tab_inbox)
    BY <2>1 DEF Ended
  <2>4. CASE Len(tab_inbox) = 1
    <3>1. m = Closed /\ m.type = "closed"
      BY <2>2, <2>3, <2>4 DEF Closed
    <3>2. ui' \in UIStates /\ ui'.ws = "disconnected" /\ ~ui'.open
      BY <1>1, <3>1 DEF AfterClose, UIStates, SessionState
    <3>3. tab_inbox' = <<>>
      BY <2>2, <2>4, EmptySeq
    <3> QED BY <1>4, <3>2, <3>3 DEF TabTold
  <2>5. CASE Len(tab_inbox) # 1
    <3>1. m \in TabNews
      BY <2>2, <2>3, <2>5
    <3>2. tab_inbox' # <<>>
      BY <2>2, <2>5, EmptySeq
    <3>3. \A i \in 1..Len(tab_inbox') : tab_inbox'[i] = Closed <=> i = Len(tab_inbox')
      BY <2>2, <2>3
    <3>4. Ended(tab_inbox')
      BY <2>2, <3>2, <3>3 DEF Ended
    <3> QED BY <1>2, <1>4, <2>1, <3>1, <3>4 DEF TabTold
  <2> QED BY <2>4, <2>5
<1> QED BY <1>3, <1>4

\* Any other step of the page leaves the websocket's part of its view alone.
LEMMA TabLooksOn ==
  ASSUME TabTold, ui' \in UIStates, ui'.ws = ui.ws, ui'.owner = ui.owner,
         UNCHANGED <<participants, server_owner, tab_inbox>>
  PROVE  TabTold'
  BY DEF TabTold

-----------------------------------------------------------------------------
(* The page's channel to the gateway                                       *)

PageSound ==
  /\ channel \in {"new", "answered", "open", "closed"}
  /\ ui.open => channel = "open"
  /\ channel # "new" => peers
  /\ commands \in Seq(Buttons)

\* The robot is armed for the operator of the page.
Driven == is_armed /\ owner_operator_id = Me

NoEnable(q) == \A i \in DOMAIN q : q[i] # "enable"

\* In q a Disable or an E-stop has no Enable behind it.
StopLast(q) ==
  \E i \in DOMAIN q :
    q[i] \in {"disable", "estop"} /\ \A j \in DOMAIN q : j > i => q[j] # "enable"

\* What the operator asked last, if it was a stop, is under way to the gateway, or has had
\* its effect there and nothing under way will undo it.
StopSent ==
  /\ channel \in {"new", "answered"} => asked # "stop"
  /\ channel = "open" /\ asked = "stop" =>
       StopLast(commands) \/ (~Driven /\ NoEnable(commands))

LEMMA StopLastAppend ==
  ASSUME NEW q \in Seq(Buttons), NEW b \in Buttons
  PROVE  /\ b \in {"disable", "estop"} => StopLast(Append(q, b))
         /\ b # "enable" /\ StopLast(q) => StopLast(Append(q, b))
         /\ b # "enable" /\ NoEnable(q) => NoEnable(Append(q, b))
<1> DEFINE r == Append(q, b)
<1>1. /\ Len(q) \in Nat /\ DOMAIN q = 1..Len(q) /\ DOMAIN r = 1..(Len(q) + 1)
      /\ \A i \in 1..Len(q) : r[i] = q[i]
      /\ r[Len(q) + 1] = b
  BY AppendProperties, LenProperties
<1> HIDE DEF r
<1>2. /\ Len(q) + 1 \in DOMAIN r /\ \A j \in DOMAIN r : ~(j > Len(q) + 1)
      /\ \A j \in DOMAIN r : j \in DOMAIN q \/ j = Len(q) + 1
      /\ \A j \in DOMAIN q : j \in DOMAIN r /\ r[j] = q[j]
  BY <1>1
<1>3. b \in {"disable", "estop"} => StopLast(r)
  BY <1>1, <1>2 DEF StopLast
<1>4. ASSUME b # "enable", StopLast(q) PROVE StopLast(r)
  <2>1. PICK i \in DOMAIN q :
           q[i] \in {"disable", "estop"} /\ \A j \in DOMAIN q : j > i => q[j] # "enable"
    BY <1>4 DEF StopLast
  <2>2. \A j \in DOMAIN r : j > i => r[j] # "enable"
    BY <1>1, <1>2, <1>4, <2>1
  <2> QED BY <1>2, <2>1, <2>2 DEF StopLast
<1>5. ASSUME b # "enable", NoEnable(q) PROVE NoEnable(r)
  BY <1>1, <1>2, <1>5 DEF NoEnable
<1> QED BY <1>3, <1>4, <1>5 DEF r

LEMMA StopLastTail ==
  ASSUME NEW q \in Seq(Buttons), q # <<>>
  PROVE  /\ StopLast(q) => \/ StopLast(Tail(q))
                           \/ Head(q) \in {"disable", "estop"} /\ NoEnable(Tail(q))
         /\ NoEnable(q) => Head(q) # "enable" /\ NoEnable(Tail(q))
<1> DEFINE r == Tail(q)
<1>1. /\ Len(q) \in Nat \ {0} /\ DOMAIN q = 1..Len(q) /\ DOMAIN r = 1..(Len(q) - 1)
      /\ \A i \in 1..(Len(q) - 1) : r[i] = q[i + 1]
      /\ Head(q) = q[1]
  BY HeadTailProperties, LenProperties, EmptySeq
<1> HIDE DEF r
<1>2. /\ 1 \in DOMAIN q /\ Head(q) = q[1]
      /\ \A j \in DOMAIN r : j \in Nat \ {0} /\ j + 1 \in DOMAIN q /\ r[j] = q[j + 1]
      /\ \A i \in DOMAIN q : i \in Nat /\ (i = 1 \/ (i - 1 \in DOMAIN r /\ r[i - 1] = q[i]))
  BY <1>1
<1>3. ASSUME StopLast(q)
      PROVE  StopLast(r) \/ (Head(q) \in {"disable", "estop"} /\ NoEnable(r))
  <2>1. PICK i \in DOMAIN q :
           q[i] \in {"disable", "estop"} /\ \A j \in DOMAIN q : j > i => q[j] # "enable"
    BY <1>3 DEF StopLast
  <2>2. CASE i = 1
    <3>1. \A j \in DOMAIN r : j + 1 > 1 /\ r[j] # "enable"
      BY <1>2, <2>1, <2>2
    <3> QED BY <1>2, <2>1, <2>2, <3>1 DEF NoEnable
  <2>3. CASE i # 1
    <3>1. i - 1 \in DOMAIN r /\ r[i - 1] \in {"disable", "estop"}
      BY <1>2, <2>1, <2>3
    <3>2. \A j \in DOMAIN r : j > i - 1 => r[j] # "enable"
      BY <1>2, <2>1
    <3> QED BY <3>1, <3>2 DEF StopLast
  <2> QED BY <2>2, <2>3
<1>4. ASSUME NoEnable(q) PROVE Head(q) # "enable" /\ NoEnable(r)
  BY <1>2, <1>4 DEF NoEnable
<1> QED BY <1>3, <1>4 DEF r

\* Only an Enable of its operator arms the robot for the page, and a Disable or an E-stop
\* ends that.
LEMMA OnlyEnableArms ==
  ASSUME GatewaySound, GatewayMoves
  PROVE  Driven' => Driven \/ Enable(Me)
<1> USE DEF Driven, is_armed, Goto, fsm
<1>1. ASSUME NEW o \in Operators \cup {None}, OwnershipMessage(o) PROVE Driven' => Driven
  BY <1>1 DEF OwnershipMessage, on_ownership, StateAfterOwner, GatewaySound, FsmTypeOK
<1>2. ASSUME NEW o \in Operators \cup {None}, NEW s \in SessionState, Joined(s, o)
      PROVE  Driven' => Driven
  BY <1>2 DEF Joined, ServerStates
<1>3. ASSUME NEW e \in BOOLEAN, NEW r \in BOOLEAN, Estop(e, r) PROVE Driven' => Driven
  BY <1>3 DEF Estop, on_estop, StateAfterEstop, Idle, is_estopped
<1>4. ASSUME NEW o \in Operators, NEW e \in BOOLEAN, Clutch(o, e) PROVE Driven' => Driven
  BY <1>4 DEF Clutch, on_clutch
<1>5. ASSUME NEW o \in Operators, Disable(o) PROVE ~Driven'
  BY <1>5 DEF Disable, on_disable
<1>6. ASSUME Tick \/ WatchdogTimeout \/ Offer PROVE Driven' => Driven
  BY <1>6 DEF Tick, WatchdogTimeout, on_freeze, Offer, on_peer_connected
<1>7. ASSUME GatewayIdle PROVE Driven' => Driven
  BY <1>7, IdleGateway
<1>8. ASSUME NEW o \in Operators, Enable(o) PROVE Driven' => Driven \/ Enable(Me)
  BY <1>8 DEF Enable, on_enable, FromOwner
<1>9. ASSUME NEW o \in Operators, NEW b \in Buttons, Performs(o, b)
      PROVE  Driven' => Driven \/ Enable(Me)
  BY <1>3, <1>4, <1>5, <1>8, <1>9 DEF Performs
<1> QED BY <1>1, <1>2, <1>3, <1>6, <1>7, <1>9 DEF GatewayMoves

LEMMA StopStops ==
  ASSUME NEW b \in {"disable", "estop"}, peers,
         IF Accepted(b) THEN Performs(Me, b) ELSE GatewayIdle
  PROVE  ~Driven'
<1> USE NoneIsNoOperator, ConsoleAssumption DEF Driven, is_armed, is_estopped, Goto
<1>1. CASE b = "disable" /\ Accepted(b)
  BY <1>1 DEF Performs, Disable, on_disable
<1>2. CASE b = "disable" /\ ~Accepted(b)
  <2>1. ~Driven
    BY <1>2 DEF Accepted, FromOwner
  <2> QED BY <1>2, <2>1, IdleGateway
<1>3. CASE b = "estop"
  BY <1>3 DEF Accepted, Performs, Estop, on_estop, StateAfterEstop
<1> QED BY <1>1, <1>2, <1>3

-----------------------------------------------------------------------------
(* The steps                                                               *)

ConsoleInv == GatewaySound /\ FollowerTold /\ TabTold /\ PageSound /\ StopSent

\* What a step with the server does to what gateway and page have been told.
LEMMA ServerWithPage ==
  ASSUME ConsoleInv, GatewayIdle, TabJoins \/ TabLeaves \/ ServerActs \/ GatewayJoins \/ Reload
  PROVE  /\ FollowerTold' /\ TabTold'
         /\ \/ UNCHANGED <<channel, commands, asked>> /\ ui'.open = ui.open
            \/ Reload
<1> USE ConsoleAssumption
<1>0. /\ FollowerTold /\ TabTold /\ ServerInv
      /\ UNCHANGED <<owner_operator_id, joined>>
  BY IdleGateway DEF ConsoleInv, FollowerTold
<1>1. CASE TabJoins
  <2>1. /\ TabTold' /\ ServerInv' /\ ToSet(participants') = ToSet(participants) \cup {Tab}
    BY <1>0, <1>1, TabIsWelcomed
  <2>2. Connected' <=> Connected
    BY <2>1 DEF Connected
  <2>3. Sent(<<>>) /\ UNCHANGED <<channel, commands, asked>> /\ ui' = [ui EXCEPT !.ws = "open"]
    BY <1>1 DEF TabJoins
  <2>4. FollowerTold'
    BY <1>0, <2>1, <2>2, <2>3, FollowerHears
  <2>5. ui'.open = ui.open
    BY <1>0, <2>3 DEF TabTold, UIStates
  <2> QED BY <2>1, <2>3, <2>4, <2>5
<1>2. CASE TabLeaves
  <2>1. /\ TabTold' /\ ServerInv' /\ ToSet(participants') = ToSet(participants) \ {Tab}
    BY <1>0, <1>2, TabIsCutOff
  <2>2. Connected' <=> Connected
    BY <2>1 DEF Connected
  <2>3. Sent(<<>>) /\ UNCHANGED <<ui, channel, commands, asked>>
    BY <1>2 DEF TabLeaves
  <2> QED BY <1>0, <2>1, <2>2, <2>3, FollowerHears
<1>3. CASE ServerActs
  <2>1. ServerInv' /\ UNCHANGED participants
    <3>1. \/ \E o \in Operators : Server!TakeClaim(o) \/ Server!DropClaim(o)
          \/ Server!ReleaseLater
      BY <1>3 DEF ServerActs, ClickClaim, ClickRelease, Server!Claim, Server!Release,
                  Server!HttpClaim, Server!HttpRelease
    <3> QED BY <1>0, <3>1, ServerClaims, ServerFrees
  <2>2. /\ UNCHANGED <<ui, channel, commands, asked>>
        /\ \/ UNCHANGED <<server_owner, inbox, tab_inbox>>
           \/ Sent(<<>>) /\ Tells(<<"ownership">>)
    BY <1>3 DEF ServerActs
  <2>3. (Connected' <=> Connected) /\ (Tab \in ToSet(participants') <=> Tab \in ToSet(participants))
    BY <2>1 DEF Connected
  <2>4. TabTold'
    BY <1>0, <2>1, <2>2, <2>3, TabNotified
  <2>5. FollowerTold'
    BY <1>0, <2>1, <2>2, <2>3, FollowerHears, FollowerUntouched
  <2> QED BY <2>2, <2>4, <2>5
<1>4. CASE GatewayJoins
  <2>1. /\ FollowerJoins /\ Tells(<<"ownership">>) /\ UNCHANGED <<ui, channel, commands, asked>>
    BY <1>4 DEF GatewayJoins
  <2>2. FollowerTold' /\ ToSet(participants') = ToSet(participants) \cup {Follower}
    BY <1>0, <2>1, FollowerIsWelcomed
  <2>3. ServerInv' /\ (Tab \in ToSet(participants') <=> Tab \in ToSet(participants))
    BY <2>2 DEF FollowerTold
  <2>4. TabTold'
    BY <1>0, <2>1, <2>3, TabNotified
  <2> QED BY <2>1, <2>2, <2>4
<1>5. CASE Reload
  <2>1. ui' = createInitialState /\ tab_inbox' = <<>>
    BY <1>5 DEF Reload
  <2>2. /\ ServerInv' /\ Tab \notin ToSet(participants') /\ (Connected' <=> Connected)
        /\ Sent(<<>>) \/ UNCHANGED <<server_owner, inbox>>
    <3>1. CASE Tab \in ToSet(participants)
      <4>1. Server!Leave(Tab) /\ Sent(<<>>)
        BY <1>5, <3>1 DEF Reload
      <4>2. ServerInv' /\ ToSet(participants') = ToSet(participants) \ {Tab}
        BY <1>0, <4>1, ServerLeaves
      <4> QED BY <4>1, <4>2 DEF Connected
    <3>2. CASE Tab \notin ToSet(participants)
      <4>1. UNCHANGED <<server, inbox>>
        BY <1>5, <3>2 DEF Reload
      <4> QED BY <1>0, <3>2, <4>1 DEF server, ServerInv, Connected
    <3> QED BY <3>1, <3>2
  <2>3. FollowerTold'
    BY <1>0, <2>2, FollowerHears, FollowerUntouched
  <2>4. ui' \in UIStates /\ ui'.ws = "disconnected"
    BY <2>1 DEF createInitialState, UIStates, SessionState
  <2>5. TabTold'
    BY <2>1, <2>2, <2>4 DEF TabTold
  <2> QED BY <1>5, <2>3, <2>5
<1> QED BY <1>1, <1>2, <1>3, <1>4, <1>5

\* What the page does on its own.
LEMMA PageAlone ==
  ASSUME ConsoleInv, TabActs, GatewayIdle, UNCHANGED <<server, inbox>>
  PROVE  TabTold' /\ PageSound' /\ StopSent'
<1>0. /\ TabTold /\ PageSound /\ StopSent /\ ui \in UIStates
      /\ UNCHANGED <<participants, server_owner, peers>> /\ (Driven' <=> Driven)
  BY IdleGateway DEF ConsoleInv, TabTold, server, Driven, is_armed
<1> DEFINE Told1 == ui' \in UIStates /\ ui'.ws = ui.ws /\ ui'.owner = ui.owner /\ UNCHANGED tab_inbox
<1>1. ASSUME Told1 PROVE TabTold'
  BY <1>0, <1>1, TabLooksOn
<1>2. CASE TabReads
  <2>1. TabTold' /\ (ui'.open => ui.open) /\ UNCHANGED <<channel, commands, asked>>
    BY <1>0, <1>2, TabReadsOn DEF TabReads
  <2> QED BY <1>0, <2>1 DEF PageSound, StopSent
<1>3. CASE ChannelOpens
  <2>1. /\ channel = "answered" /\ channel' = "open" /\ ui' = [ui EXCEPT !.open = TRUE]
        /\ UNCHANGED <<tab_inbox, commands, asked>>
    BY <1>3 DEF ChannelOpens
  <2>2. Told1
    BY <1>0, <2>1 DEF UIStates
  <2> QED BY <1>0, <1>1, <2>1, <2>2 DEF PageSound, StopSent
<1>4. CASE ChannelCloses
  <2>1. /\ channel = "open" /\ channel' = "closed" /\ ui' = [ui EXCEPT !.open = FALSE]
        /\ commands' = <<>> /\ UNCHANGED tab_inbox
    BY <1>4 DEF ChannelCloses
  <2>2. Told1 /\ ~ui'.open
    BY <1>0, <2>1 DEF UIStates
  <2>3. commands' \in Seq(Buttons)
    BY <2>1, EmptySeq
  <2> QED BY <1>0, <1>1, <2>1, <2>2, <2>3 DEF PageSound, StopSent
<1>5. CASE GoesStale \/ Telemetry
  <2>1. state \in SessionState
    BY DEF ConsoleInv, GatewaySound, FsmTypeOK
  <2>2. Told1 /\ ui'.open = ui.open /\ UNCHANGED <<channel, commands, asked>>
    BY <1>0, <1>5, <2>1 DEF UIStates, GoesStale, Telemetry, build_status
  <2> QED BY <1>0, <1>1, <2>2 DEF PageSound, StopSent
<1>6. ASSUME NEW b \in Buttons, Click(b)
      PROVE  TabTold' /\ PageSound' /\ StopSent'
  <2>1. UNCHANGED <<ui, tab_inbox, channel>> /\ Told1
    BY <1>0, <1>6 DEF Click
  <2>2. CASE channel = "open"
    <3>1. /\ commands' = Append(commands, b)
          /\ asked' = CASE b = "enable" -> "drive" [] b \in {"disable", "estop"} -> "stop"
                        [] OTHER -> asked
      BY <1>6, <2>2 DEF Click
    <3>2. commands \in Seq(Buttons)
      BY <1>0 DEF PageSound
    <3>3. commands' \in Seq(Buttons)
      BY <3>1, <3>2, AppendProperties
    <3>4. /\ b \in {"disable", "estop"} => StopLast(commands')
          /\ b # "enable" /\ StopLast(commands) => StopLast(commands')
          /\ b # "enable" /\ NoEnable(commands) => NoEnable(commands')
      BY <3>1, <3>2, StopLastAppend
    <3>5. asked' = "stop" => StopLast(commands') \/ (~Driven' /\ NoEnable(commands'))
      BY <1>0, <2>2, <3>1, <3>4 DEF StopSent
    <3> QED BY <1>0, <1>1, <2>1, <2>2, <3>3, <3>5 DEF PageSound, StopSent
  <2>3. CASE channel # "open"
    <3>1. UNCHANGED commands /\ asked' = IF b = "estop" THEN "dropped stop" ELSE asked
      BY <1>6, <2>3 DEF Click
    <3> QED BY <1>0, <1>1, <2>1, <2>3, <3>1 DEF PageSound, StopSent
  <2> QED BY <2>2, <2>3
<1> QED BY <1>2, <1>3, <1>4, <1>5, <1>6 DEF TabActs

\* What the gateway does, and what it reads.
LEMMA GatewayAlone ==
  ASSUME ConsoleInv, OfferAnswered \/ HandlesCommand \/ OtherPage \/ Watch, UNCHANGED <<server, inbox>>
  PROVE  /\ GatewayMoves /\ UNCHANGED <<owner_operator_id, joined, ui, tab_inbox>>
         /\ PageSound' /\ StopSent'
<1>0. GatewaySound /\ PageSound /\ StopSent /\ commands \in Seq(Buttons)
  BY DEF ConsoleInv, PageSound
<1>1. CASE OfferAnswered
  <2>1. /\ Offer /\ peers' /\ channel = "new" /\ channel' = "answered"
        /\ UNCHANGED <<owner_operator_id, joined, ui, tab_inbox, commands, asked>>
    BY <1>1 DEF OfferAnswered, Offer, on_peer_connected, Goto, fsm
  <2> QED BY <1>0, <2>1 DEF GatewayMoves, PageSound, StopSent
<1>2. CASE HandlesCommand
  <2> DEFINE b == Head(commands)
  <2>1. /\ commands # <<>> /\ commands' = Tail(commands)
        /\ IF Accepted(b) THEN Performs(Me, b) ELSE GatewayIdle
        /\ UNCHANGED <<ui, tab_inbox, channel, asked>>
    BY <1>2 DEF HandlesCommand
  <2>2. b \in Buttons /\ commands' \in Seq(Buttons)
    BY <1>0, <2>1, HeadTailProperties
  <2>3. /\ StopLast(commands) => StopLast(commands') \/ (b \in {"disable", "estop"} /\ NoEnable(commands'))
        /\ NoEnable(commands) => b # "enable" /\ NoEnable(commands')
    BY <1>0, <2>1, StopLastTail
  <2> HIDE DEF b
  <2>4. GatewayMoves /\ UNCHANGED <<owner_operator_id, joined, peers>>
    BY <2>1, <2>2, PerformsNext, IdleGateway, ConsoleAssumption DEF GatewayMoves
  <2>5. Driven' => Driven \/ Enable(Me)
    BY <1>0, <2>4, OnlyEnableArms
  <2>6. b # "enable" /\ Driven' => Driven
    <3>1. ASSUME b # "enable", Enable(Me), Performs(Me, b), Driven' PROVE Driven
      BY <3>1 DEF Performs, Driven, is_armed, Goto, Enable, on_enable, Disable,
              on_disable, Clutch, on_clutch, Estop, on_estop, StateAfterEstop, Idle, is_estopped
    <3>2. ASSUME GatewayIdle, Driven' PROVE Driven
      BY <3>2, IdleGateway DEF Driven, is_armed
    <3> QED BY <2>1, <2>5, <3>1, <3>2
  <2>7. channel = "open" /\ b \in {"disable", "estop"} => ~Driven'
    <3>1. channel = "open" => peers
      BY <1>0 DEF PageSound
    <3> QED BY <2>1, <3>1, StopStops
  <2> QED BY <1>0, <2>1, <2>2, <2>3, <2>4, <2>6, <2>7 DEF PageSound, StopSent
<1>3. CASE Watch
  <2>1. /\ Tick \/ WatchdogTimeout
        /\ UNCHANGED <<owner_operator_id, joined, peers, ui, tab_inbox, channel, commands, asked>>
    BY <1>3 DEF Watch, tab, Tick, WatchdogTimeout, on_freeze, Goto, fsm
  <2>2. Driven' => Driven
    BY <2>1 DEF Driven, Tick, WatchdogTimeout, on_freeze, is_armed, Goto, fsm
  <2> QED BY <1>0, <2>1, <2>2 DEF GatewayMoves, PageSound, StopSent
<1>4. CASE OtherPage
  <2>1. UNCHANGED <<ui, tab_inbox, channel, commands, asked>>
    BY <1>4 DEF OtherPage, tab
  <2>2. CASE Offer
    <3>1. peers' /\ UNCHANGED <<owner_operator_id, joined>> /\ (Driven' => Driven)
      BY <2>2 DEF Offer, on_peer_connected, Driven, is_armed, Goto, fsm
    <3> QED BY <1>0, <2>1, <2>2, <3>1 DEF GatewayMoves, PageSound, StopSent
  <2>3. ASSUME NEW o \in Operators \ {Me}, NEW b \in Buttons, Performs(o, b)
        PROVE  /\ GatewayMoves /\ UNCHANGED <<owner_operator_id, joined, peers>>
               /\ Driven' => Driven
    <3>1. GatewayMoves /\ UNCHANGED <<owner_operator_id, joined, peers>>
      BY <2>3, PerformsNext DEF GatewayMoves
    <3>2. Driven' => Driven
      BY <2>3 DEF Performs, Driven, is_armed, Goto, Enable, on_enable, FromOwner, Disable,
             on_disable, Clutch, on_clutch, Estop, on_estop, StateAfterEstop, Idle, is_estopped
    <3> QED BY <3>1, <3>2
  <2>4. CASE \E o \in Operators \ {Me}, b \in Buttons : Performs(o, b)
    <3>1. GatewayMoves /\ UNCHANGED <<owner_operator_id, joined, peers>> /\ (Driven' => Driven)
      BY <2>3, <2>4
    <3> QED BY <1>0, <2>1, <3>1 DEF PageSound, StopSent
  <2> QED BY <1>4, <2>2, <2>4 DEF OtherPage
<1> QED BY <1>1, <1>2, <1>3, <1>4

LEMMA GatewayReads ==
  ASSUME ConsoleInv, Receive
  PROVE  GatewayMoves /\ (Driven' => Driven) /\ (peers' <=> peers)
<1> DEFINE m == Head(inbox)
<1>1. m \in Messages
  BY HeadTailProperties DEF Receive, ConsoleInv, FollowerTold
<1>2. \/ m.type = "joined" /\ Joined(m.state, m.owner)
      \/ m.type = "ownership" /\ OwnershipMessage(m.owner)
      \/ m.type = "estop" /\ Estop(m.engaged, m.reset)
  BY DEF Receive
<1> HIDE DEF m
<1>3. /\ m.type = "joined" => m.owner \in Operators \cup {None} /\ m.state \in SessionState
      /\ m.type = "ownership" => m.owner \in Operators \cup {None}
      /\ m.type = "estop" => m.engaged \in BOOLEAN /\ m.reset \in BOOLEAN
  BY <1>1 DEF Messages
<1>4. \/ \E o \in Operators \cup {None}, s \in SessionState : Joined(s, o)
      \/ \E o \in Operators \cup {None} : OwnershipMessage(o)
      \/ \E engaged, reset \in BOOLEAN : Estop(engaged, reset)
  BY <1>2, <1>3
<1>5. GatewayMoves
  BY <1>4 DEF GatewayMoves
<1>6. peers' <=> peers
  BY <1>4 DEF Joined, OwnershipMessage, Estop
<1>7. Driven' => Driven
  BY <1>4 DEF Driven, is_armed, Joined, ServerStates, OwnershipMessage, on_ownership,
              StateAfterOwner, Estop, on_estop, StateAfterEstop, Idle, is_estopped, Goto
<1> QED BY <1>5, <1>6, <1>7

LEMMA ConsoleStart ==
  ASSUME ConsoleInit
  PROVE  ConsoleInv
<1>1. FsmTypeOK /\ OwnedStates
  BY GatewayTypeInit DEF ConsoleInit, TeleopInit, TypeOK
<1>2. /\ state = "DISCONNECTED" /\ joined = FALSE /\ peers = FALSE
  BY DEF ConsoleInit, TeleopInit, Init, FsmInit
<1>3. GatewaySound
  BY <1>1, <1>2 DEF GatewaySound
<1>4. /\ TeleopInv /\ ~Connected /\ participants = <<>> /\ inbox = <<>>
  BY TeleopStart DEF ConsoleInit, TeleopInit, Server!Init
<1>5. FollowerTold
  BY <1>2, <1>4 DEF FollowerTold, TeleopInv
<1>6. ui \in UIStates /\ ui.ws = "disconnected" /\ ~ui.open
  BY DEF ConsoleInit, createInitialState, UIStates, SessionState
<1>7. Tab \notin ToSet(participants)
  BY <1>4, ToSetOfEmpty
<1>8. TabTold
  BY <1>6, <1>7 DEF TabTold, ConsoleInit
<1>9. commands \in Seq(Buttons)
  BY EmptySeq DEF ConsoleInit
<1>10. PageSound /\ StopSent
  BY <1>6, <1>9 DEF PageSound, StopSent, ConsoleInit
<1> QED BY <1>3, <1>5, <1>8, <1>10 DEF ConsoleInv

LEMMA ConsoleStep ==
  ASSUME ConsoleInv, [ConsoleNext]_consoleVars
  PROVE  ConsoleInv' /\ (GatewayMoves \/ UNCHANGED <<state, owner_operator_id, joined>>)
<1>0. GatewaySound /\ FollowerTold /\ TabTold /\ PageSound /\ StopSent
  BY DEF ConsoleInv
<1>1. ASSUME (TabJoins \/ TabLeaves \/ ServerActs \/ GatewayJoins \/ Reload) /\ GatewayIdle
      PROVE  ConsoleInv' /\ GatewayMoves
  <2>1. GatewayMoves /\ GatewaySound'
    BY <1>0, <1>1, GatewaySoundStep DEF GatewayMoves
  <2>2. /\ FollowerTold' /\ TabTold'
        /\ \/ UNCHANGED <<channel, commands, asked>> /\ ui'.open = ui.open
           \/ Reload
    BY <1>1, ServerWithPage
  <2>3. (Driven' <=> Driven) /\ UNCHANGED peers
    BY <1>1, IdleGateway DEF Driven, is_armed
  <2>4. PageSound' /\ StopSent'
    <3>1. CASE Reload
      <4>1. channel' = "new" /\ asked' = "drive" /\ commands' = <<>> /\ ~ui'.open
        BY <3>1 DEF Reload, createInitialState
      <4>2. commands' \in Seq(Buttons)
        BY <4>1, EmptySeq
      <4> QED BY <4>1, <4>2 DEF PageSound, StopSent
    <3>2. CASE UNCHANGED <<channel, commands, asked>> /\ ui'.open = ui.open
      BY <1>0, <2>3, <3>2 DEF PageSound, StopSent
    <3> QED BY <2>2, <3>1, <3>2
  <2> QED BY <2>1, <2>2, <2>4 DEF ConsoleInv
<1>2. ASSUME TabActs /\ GatewayIdle /\ UNCHANGED <<server, inbox>>
      PROVE  ConsoleInv' /\ GatewayMoves
  <2>1. GatewayMoves /\ GatewaySound' /\ UNCHANGED <<owner_operator_id, joined>>
    BY <1>0, <1>2, GatewaySoundStep, IdleGateway DEF GatewayMoves
  <2>2. FollowerTold'
    BY <1>0, <1>2, <2>1, FollowerUntouched DEF server, ServerInv, Connected, FollowerTold
  <2>3. TabTold' /\ PageSound' /\ StopSent'
    BY <1>2, PageAlone
  <2> QED BY <2>1, <2>2, <2>3 DEF ConsoleInv
<1>3. ASSUME (OfferAnswered \/ HandlesCommand \/ OtherPage \/ Watch) /\ UNCHANGED <<server, inbox>>
      PROVE  ConsoleInv' /\ GatewayMoves
  <2>1. /\ GatewayMoves /\ UNCHANGED <<owner_operator_id, joined, ui, tab_inbox>>
        /\ PageSound' /\ StopSent'
    BY <1>3, GatewayAlone
  <2>2. GatewaySound'
    BY <1>0, <2>1, GatewaySoundStep
  <2>3. FollowerTold'
    BY <1>0, <1>3, <2>1, FollowerUntouched DEF server, ServerInv, Connected, FollowerTold
  <2>4. TabTold'
    BY <1>0, <1>3, <2>1 DEF server, TabTold
  <2> QED BY <2>1, <2>2, <2>3, <2>4 DEF ConsoleInv
<1>4. ASSUME Receive /\ UNCHANGED tab
      PROVE  ConsoleInv' /\ GatewayMoves
  <2>1. GatewayMoves /\ (Driven' => Driven) /\ (peers' <=> peers)
    BY <1>4, GatewayReads
  <2>2. GatewaySound'
    BY <1>0, <2>1, GatewaySoundStep
  <2>3. FollowerTold' /\ UNCHANGED server
    BY <1>0, <1>4, FollowerReads
  <2>4. UNCHANGED <<ui, tab_inbox, channel, commands, asked, participants, server_owner>>
    BY <1>4, <2>3 DEF tab, server
  <2>5. TabTold' /\ PageSound' /\ StopSent'
    BY <1>0, <2>1, <2>4 DEF TabTold, PageSound, StopSent
  <2> QED BY <2>1, <2>2, <2>3, <2>5 DEF ConsoleInv
<1>5. ASSUME UNCHANGED consoleVars
      PROVE  ConsoleInv' /\ UNCHANGED <<state, owner_operator_id, joined>>
  <2>1. UNCHANGED <<state, owner_operator_id, joined, peers, ui, tab_inbox, channel, commands,
                    asked, participants, server_owner, server_estopped, server_state, inbox>>
    BY <1>5 DEF consoleVars, teleopVars, vars, server, tab
  <2>2. GatewaySound' /\ TabTold' /\ PageSound' /\ StopSent'
    BY <1>0, <2>1 DEF GatewaySound, FsmTypeOK, OwnedStates, TabTold, PageSound, StopSent,
                      Driven, is_armed
  <2>3. FollowerTold'
    BY <1>0, <2>1, FollowerUntouched DEF ServerInv, Connected, FollowerTold
  <2> QED BY <2>1, <2>2, <2>3 DEF ConsoleInv
<1> QED BY <1>1, <1>2, <1>3, <1>4, <1>5 DEF ConsoleNext

LEMMA ConsoleInvariant == ConsoleSpec => []ConsoleInv
<1>1. ConsoleInit => ConsoleInv
  BY ConsoleStart
<1>2. ConsoleInv /\ [ConsoleNext]_consoleVars => ConsoleInv'
  BY ConsoleStep
<1> QED BY <1>1, <1>2, PTL DEF ConsoleSpec

\* Browser and gateway judge commands by rules of their own, from copies of owner and state
\* that reach them on different ways.  Once all messages are read they agree, in every order
\* of claims, takeovers, commands of other operators, reloads, lost websockets, freezes and
\* e-stops, but for two Mismatches: Enable and Disable on the owner's page of a FROZEN
\* session, and Release clutch on everybody else's page of a CLUTCHED one.
THEOREM ButtonsAlwaysMatch == ConsoleSpec => []ButtonsMatchGateway
<1>1. ConsoleInv => ButtonsMatchGateway
  <2> SUFFICES ASSUME ConsoleInv, Quiet, ui.open, ui.heard = "fresh", ui.status = state,
                      NEW b \in Buttons \ {"estop", "reset"}
               PROVE  Enabled(b) # Accepted(b) <=> b \in Mismatches
    <3>1. Mismatches \subseteq Buttons \ {"estop", "reset"}
      BY DEF Mismatches, Buttons
    <3> QED BY <3>1 DEF ButtonsMatchGateway
  <2>1. peers /\ joined /\ Connected /\ GatewaySound
    BY DEF ConsoleInv, PageSound, GatewaySound, FollowerTold
  <2>2. owner_operator_id = server_owner
    <3>1. LastWord(<<>>, "owner", owner_operator_id, server_owner)
      BY <2>1 DEF ConsoleInv, FollowerTold, OwnerLearned, Quiet
    <3>2. DOMAIN <<>> = {}
      OBVIOUS
    <3> QED BY <3>1, <3>2 DEF LastWord
  <2>3. ui.owner = server_owner
    <3>1. LastWord(<<>>, "owner", ui.owner, server_owner)
      BY DEF ConsoleInv, TabTold, Ended, Quiet
    <3>2. DOMAIN <<>> = {}
      OBVIOUS
    <3> QED BY <3>1, <3>2 DEF LastWord
  <2>4. state \in SessionState /\ selectSessionState = state
    BY <2>1, ConsoleAssumption DEF GatewaySound, FsmTypeOK, selectSessionState
  <2>5. selectIsOwner <=> owner_operator_id = Me
    BY <2>2, <2>3 DEF selectIsOwner
  <2>6. /\ selectIsArmed <=> state \in {"ARMED", "CLUTCHED"}
        /\ selectIsClutched <=> state = "CLUTCHED"
        /\ selectControlsLocked <=> owner_operator_id # Me \/ state = "ESTOPPED"
        /\ selectMotionLocked <=> owner_operator_id # Me \/ state \notin {"ARMED", "CLUTCHED"}
    BY <2>4, <2>5 DEF selectIsArmed, selectIsClutched, selectControlsLocked, selectMotionLocked,
                      selectIsEstopped, selectIsStale
  <2>7. FromOwner(Me) <=> owner_operator_id = Me /\ state # "ESTOPPED"
    BY <2>1, NoneIsNoOperator, ConsoleAssumption DEF FromOwner, is_estopped
  <2>8. Me # None
    BY NoneIsNoOperator, ConsoleAssumption
  <2>9. owner_operator_id = Me => state \in {"CLAIMED", "ARMED", "CLUTCHED", "FROZEN", "ESTOPPED"}
    BY <2>1, <2>4, <2>8 DEF GatewaySound, SessionState
  <2>10. b \in {"enable", "disable", "clutch", "unclutch", "home", "gripper"}
    BY DEF Buttons
  <2>11. Enabled(b) # Accepted(b) <=> ~(Enabled(b) <=> Accepted(b))
    BY DEF Enabled, Accepted
  <2>12. b \in Mismatches <=>
           \/ state = "FROZEN" /\ owner_operator_id = Me /\ b \in {"enable", "disable"}
           \/ state = "CLUTCHED" /\ owner_operator_id # Me /\ b = "unclutch"
    BY DEF Mismatches
  <2> QED BY <2>6, <2>7, <2>9, <2>10, <2>11, <2>12 DEF Enabled, Accepted, is_armed
<1> QED BY <1>1, ConsoleInvariant, PTL

\* The robot is armed for an operator only as long as Enable is the last of Enable, Disable
\* and E-stop that the operator's page has sent: no release, takeover, freeze, reset or lost
\* websocket in between arms it again or keeps it armed.
THEOREM ArmedWhenAsked == ConsoleSpec => []ArmedIsAsked
<1>1. ConsoleInv => ArmedIsAsked
  <2>1. DOMAIN <<>> = {}
    OBVIOUS
  <2> QED BY <2>1 DEF ConsoleInv, StopSent, StopLast, Driven, ArmedIsAsked
<1> QED BY <1>1, ConsoleInvariant, PTL

\* With a page's buttons and the server's messages, too, only a reset clears the gateway's
\* e-stop, as long as its websocket lasts and no session.joined overwrites it.
THEOREM ConsoleResetsExplicitly ==
  ASSUME ~Reconnects
  PROVE  ConsoleSpec => OnlyResetClearsEstop
<1>1. ConsoleInv /\ [ConsoleNext]_consoleVars
        => [is_estopped /\ state' # "ESTOPPED" => on_estop(FALSE, TRUE)]_fsm
  <2> SUFFICES ASSUME ConsoleInv, [ConsoleNext]_consoleVars, is_estopped, state' # "ESTOPPED"
               PROVE  on_estop(FALSE, TRUE)
    OBVIOUS
  <2> USE DEF is_estopped, is_armed, Goto, fsm
  <2>1. GatewaySound /\ state = "ESTOPPED"
    BY DEF ConsoleInv
  <2>2. GatewayMoves
    BY <2>1, ConsoleStep
  <2>3. ASSUME NEW o \in Operators \cup {None}, NEW s \in SessionState, Joined(s, o) PROVE FALSE
    BY <2>1, <2>3 DEF Joined, GatewaySound
  <2>4. ASSUME NEW o \in Operators \cup {None}, OwnershipMessage(o) PROVE FALSE
    BY <2>1, <2>4 DEF OwnershipMessage, on_ownership, StateAfterOwner
  <2>5. ASSUME NEW e \in BOOLEAN, NEW r \in BOOLEAN, Estop(e, r) PROVE on_estop(FALSE, TRUE)
    BY <2>1, <2>5 DEF Estop, on_estop, StateAfterEstop
  <2>6. ASSUME Offer \/ Tick \/ WatchdogTimeout \/ GatewayIdle PROVE FALSE
    BY <2>1, <2>6 DEF Offer, on_peer_connected, Tick, WatchdogTimeout, on_freeze, GatewayIdle
  <2>7. ASSUME NEW o \in Operators, NEW b \in Buttons, Performs(o, b) PROVE on_estop(FALSE, TRUE)
    <3>1. ASSUME Enable(o) \/ Disable(o) \/ Clutch(o, TRUE) \/ Clutch(o, FALSE) PROVE FALSE
      BY <2>1, <3>1 DEF Enable, Disable, Clutch, FromOwner
    <3> QED BY <2>5, <2>7, <3>1 DEF Performs
  <2> QED BY <2>2, <2>3, <2>4, <2>5, <2>6, <2>7 DEF GatewayMoves
<1> QED BY <1>1, ConsoleInvariant, PTL DEF ConsoleSpec, OnlyResetClearsEstop

\* A page's clicks, reloads and lost websockets make the server do nothing that
\* SessionManager does not allow, so its claim keeps its promises here, too.
THEOREM ConsoleImplementsServer == ConsoleSpec => Server!Spec
<1>1. ConsoleInit => Server!Init
  BY DEF ConsoleInit, TeleopInit
<1>2. [ConsoleNext]_consoleVars => [Server!Next]_(Server!vars)
  <2> SUFFICES ASSUME [ConsoleNext]_consoleVars
               PROVE  Server!Next \/ UNCHANGED server
    BY DEF server, Server!vars
  <2> USE ConsoleAssumption, TeleopAssumption DEF Server!Next
  <2>1. CASE TabJoins \/ TabLeaves \/ GatewayJoins
    BY <2>1 DEF TabJoins, TabLeaves, GatewayJoins, FollowerJoins
  <2>2. CASE ServerActs
    BY <2>2 DEF ServerActs, ClickClaim, ClickRelease
  <2>3. CASE Reload
    BY <2>3 DEF Reload
  <2>4. CASE Receive
    BY <2>4 DEF Receive
  <2>5. CASE UNCHANGED consoleVars
    BY <2>5 DEF consoleVars, teleopVars
  <2> QED BY <2>1, <2>2, <2>3, <2>4, <2>5 DEF ConsoleNext
<1> QED BY <1>1, <1>2, PTL DEF ConsoleSpec, Server!Spec
=============================================================================
