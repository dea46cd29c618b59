----------------------------- MODULE TeleopProofs -----------------------------
(***************************************************************************)
(* Proofs about the server and the follower gateway end to end, for every  *)
(* set of connections and operators and an inbox of any length.  What the  *)
(* gateway will believe is decided by the messages under way to it, so the *)
(* invariants are about those.                                             *)
(***************************************************************************)
EXTENDS Teleop, FollowerGatewayProofs, SequenceLemmas

-----------------------------------------------------------------------------
(* The last word on a subject                                              *)

\* What the messages to the follower look like.
Messages ==
  [type : {"joined"}, owner : Operators \cup {None}, state : SessionState]
    \cup [type : {"ownership"}, owner : Operators \cup {None}]
    \cup [type : {"estop"}, engaged : BOOLEAN, reset : BOOLEAN]

Flag(stopped) == IF stopped THEN "stopped" ELSE "going"

\* A message says who owns the session, or that it is stopped or going, or nothing
\* of either.
Speaks(m, subject) ==
  IF subject = "owner" THEN m.type # "estop"
  ELSE m.type = "joined" \/ (m.type = "estop" /\ (m.engaged \/ m.reset))

Says(m, subject) ==
  IF subject = "owner" THEN m.owner
  ELSE IF m.type = "joined" THEN Flag(m.state = "ESTOPPED") ELSE Flag(m.engaged)

\* Someone who believes old and handles the messages of q ends up believing new.
LastWord(q, subject, old, new) ==
  \/ old = new /\ \A i \in DOMAIN q : ~Speaks(q[i], subject)
  \/ \E i \in DOMAIN q :
       /\ Speaks(q[i], subject) /\ Says(q[i], subject) = new
       /\ \A j \in DOMAIN q : j > i => ~Speaks(q[j], subject)

LEMMA LastWordOfNothing ==
  ASSUME NEW subject, NEW old
  PROVE  LastWord(<<>>, subject, old, old)
<1>1. DOMAIN <<>> = {}
  OBVIOUS
<1> QED BY <1>1 DEF LastWord

\* A message more: its own word if it has one, or the last word before it.
LEMMA LastWordAppend ==
  ASSUME NEW S, NEW q \in Seq(S), NEW m \in S, NEW subject, NEW old, NEW new,
         LastWord(q, subject, old, new)
  PROVE  LastWord(Append(q, m), subject, old, IF Speaks(m, subject) THEN Says(m, subject) ELSE new)
<1> DEFINE r == Append(q, m)
<1>1. /\ Len(q) \in Nat /\ DOMAIN q = 1..Len(q) /\ DOMAIN r = 1..(Len(q) + 1)
      /\ \A i \in 1..Len(q) : r[i] = q[i]
      /\ r[Len(q) + 1] = m
  BY AppendProperties, LenProperties
<1> HIDE DEF r
<1>2. CASE Speaks(m, subject)
  <2>1. Len(q) + 1 \in DOMAIN r /\ \A j \in DOMAIN r : ~(j > Len(q) + 1)
    BY <1>1
  <2> QED BY <1>1, <1>2, <2>1 DEF LastWord, r
<1>3. CASE ~Speaks(m, subject)
  <2>1. CASE old = new /\ \A i \in DOMAIN q : ~Speaks(q[i], subject)
    BY <1>1, <1>3, <2>1 DEF LastWord, r
  <2>2. ASSUME NEW i \in DOMAIN q, Speaks(q[i], subject), Says(q[i], subject) = new,
               \A j \in DOMAIN q : j > i => ~Speaks(q[j], subject)
        PROVE  LastWord(r, subject, old, new)
    <3>1. /\ i \in DOMAIN r /\ Speaks(r[i], subject) /\ Says(r[i], subject) = new
          /\ \A j \in DOMAIN r : j > i => ~Speaks(r[j], subject)
      BY <1>1, <1>3, <2>2
    <3> QED BY <3>1 DEF LastWord
  <2> QED BY <1>3, <2>1, <2>2 DEF LastWord, r
<1> QED BY <1>2, <1>3

\* A message handled: its word, if it has one, replaces what was believed.
LEMMA LastWordTail ==
  ASSUME NEW S, NEW q \in Seq(S), q # <<>>, NEW subject, NEW old, NEW new,
         LastWord(q, subject, old, new)
  PROVE  LastWord(Tail(q), subject,
                  IF Speaks(Head(q), subject) THEN Says(Head(q), subject) ELSE old, new)
<1> DEFINE r == Tail(q)
<1>1. /\ Len(q) \in Nat \ {0} /\ DOMAIN q = 1..Len(q) /\ DOMAIN r = 1..(Len(q) - 1)
      /\ \A i \in 1..(Len(q) - 1) : r[i] = q[i + 1]
      /\ Head(q) = q[1]
  BY HeadTailProperties, LenProperties, EmptySeq
<1> HIDE DEF r
<1> DEFINE mine == IF Speaks(q[1], subject) THEN Says(q[1], subject) ELSE old
<1>2. CASE old = new /\ \A i \in DOMAIN q : ~Speaks(q[i], subject)
  BY <1>1, <1>2 DEF LastWord, r
<1>3. ASSUME NEW i \in DOMAIN q, Speaks(q[i], subject), Says(q[i], subject) = new,
             \A j \in DOMAIN q : j > i => ~Speaks(q[j], subject)
      PROVE  LastWord(r, subject, mine, new)
  <2>1. CASE i = 1
    BY <1>1, <1>3, <2>1 DEF LastWord
  <2>2. CASE i # 1
    <3>1. i - 1 \in DOMAIN r /\ Speaks(r[i - 1], subject) /\ Says(r[i - 1], subject) = new
      BY <1>1, <1>3, <2>2
    <3>2. \A j \in DOMAIN r : j > i - 1 => ~Speaks(r[j], subject)
      BY <1>1, <1>3
    <3> QED BY <3>1, <3>2 DEF LastWord
  <2> QED BY <2>1, <2>2
<1> QED BY <1>1, <1>2, <1>3 DEF LastWord, r

-----------------------------------------------------------------------------
(* The server's own state                                                  *)

\* The participants are the keys of a dict, and the state told to newcomers is current.
ServerInv ==
  /\ participants \in Seq(Conns) /\ IsInjective(participants)
  /\ server_owner \in Operators \cup {None}
  /\ server_estopped \in BOOLEAN
  /\ server_state = Server!RecomputedState(participants, server_owner, server_estopped)

\* A server that is stopped says so, and no other.
LEMMA ServerStateFacts ==
  ASSUME ServerInv
  PROVE  server_state \in SessionState /\ (server_state = "ESTOPPED" <=> server_estopped)
  BY DEF ServerInv, Server!RecomputedState, SessionState

LEMMA ServerJoins ==
  ASSUME ServerInv, NEW c \in Conns, Server!Join(c)
  PROVE  /\ ServerInv'
         /\ ToSet(participants') = ToSet(participants) \cup {c}
         /\ UNCHANGED <<server_owner, server_estopped>>
<1>1. /\ c \notin ToSet(participants) /\ participants' = Append(participants, c)
      /\ UNCHANGED <<server_owner, server_estopped>>
      /\ server_state' = Server!RecomputedState(participants', server_owner', server_estopped')
  BY DEF Server!Join, Server!Members, Server!ToSet, ToSet, Server!Recompute
<1>2. participants' \in Seq(Conns) /\ IsInjective(participants')
  BY <1>1, AppendProperties, AppendKeepsInjective DEF ServerInv
<1>3. ToSet(participants') = ToSet(participants) \cup {c}
  BY <1>1, ToSetOfAppend DEF ServerInv
<1> QED BY <1>1, <1>2, <1>3 DEF ServerInv

LEMMA ServerLeaves ==
  ASSUME ServerInv, NEW c \in Conns, Server!Leave(c)
  PROVE  /\ ServerInv'
         /\ ToSet(participants') = ToSet(participants) \ {c}
         /\ UNCHANGED <<server_owner, server_estopped>>
<1>1. PICK i \in DOMAIN participants :
        participants[i] = c /\ participants' = RemoveAt(participants, i)
  BY DEF Server!Leave, Server!Depart, Server!RemoveAt, RemoveAt
<1>2. /\ UNCHANGED <<server_owner, server_estopped>>
      /\ server_state' = Server!RecomputedState(participants', server_owner', server_estopped')
  BY DEF Server!Leave, Server!Depart, Server!Recompute
<1>3. participants \in Seq(Conns) /\ IsInjective(participants) /\ i \in 1..Len(participants)
      /\ Len(participants) \in Nat
  BY LenProperties DEF ServerInv
<1>4. /\ participants' \in Seq(Conns) /\ IsInjective(participants')
      /\ ToSet(participants') = ToSet(participants) \ {c}
  BY <1>1, <1>3, RemoveAtType, RemoveAtKeepsInjective, RemoveAtSet
<1> QED BY <1>2, <1>4 DEF ServerInv

\* Claims and releases, by websocket and over HTTP.
LEMMA ServerClaims ==
  ASSUME ServerInv, NEW o \in Operators, Server!TakeClaim(o) \/ Server!DropClaim(o)
  PROVE  ServerInv' /\ UNCHANGED <<participants, server_estopped>>
  BY DEF Server!TakeClaim, Server!DropClaim, Server!Recompute, ServerInv

LEMMA ServerStops ==
  ASSUME ServerInv, NEW c \in Conns, NEW engaged \in BOOLEAN, NEW reset \in BOOLEAN,
         Server!Estop(c, engaged, reset)
  PROVE  /\ ServerInv'
         /\ UNCHANGED <<participants, server_owner>>
         /\ server_estopped' = IF reset THEN FALSE ELSE engaged \/ server_estopped
  BY DEF Server!Estop, Server!EstoppedAfter, Server!Recompute, ServerInv

LEMMA ServerFrees ==
  ASSUME ServerInv, Server!ReleaseLater
  PROVE  ServerInv' /\ UNCHANGED <<participants, server_estopped>>
  BY DEF Server!ReleaseLater, Server!Recompute, ServerInv

-----------------------------------------------------------------------------
(* What the server tells the follower                                      *)

\* The other clients' steps but the e-stop touch neither it nor the follower's connection.
LEMMA OthersKeep ==
  ASSUME ServerInv, OthersAct
  PROVE  /\ ServerInv'
         /\ Follower \in ToSet(participants') => Connected
         /\ UNCHANGED server_estopped
<1> DEFINE Goal == /\ ServerInv'
                   /\ Follower \in ToSet(participants') => Connected
                   /\ UNCHANGED server_estopped
<1>1. ASSUME NEW c \in Conns \ {Follower}, Server!Join(c)
      PROVE  Goal
  BY <1>1, ServerJoins DEF Connected
<1>2. ASSUME NEW c \in Conns \ {Follower}, Server!Leave(c)
      PROVE  Goal
  BY <1>2, ServerLeaves DEF Connected
<1>3. ASSUME NEW o \in Operators, Server!TakeClaim(o) \/ Server!DropClaim(o)
      PROVE  Goal
  BY <1>3, ServerClaims DEF Connected
<1> HIDE DEF Goal
<1>4. Goal
  BY <1>1, <1>2, <1>3 DEF OthersAct, Server!Claim, Server!Release, Server!HttpClaim,
     Server!HttpRelease
<1> QED BY <1>4 DEF Goal

LEMMA MessageTypes ==
  /\ \A o \in Operators \cup {None}, s \in SessionState : JoinedMsg(o, s) \in Messages
  /\ \A o \in Operators \cup {None} : OwnershipMsg(o) \in Messages
  /\ \A engaged, reset \in BOOLEAN : EstopMsg(engaged, reset) \in Messages
  BY DEF JoinedMsg, OwnershipMsg, EstopMsg, Messages

\* The inbox of a connected follower, sent m and then the ownership.
LEMMA SentOne ==
  ASSUME inbox \in Seq(Messages), NEW m \in Messages, server_owner' \in Operators \cup {None},
         Sent(<<m>>)
  PROVE  /\ inbox' \in Seq(Messages)
         /\ Follower \in ToSet(participants')
              => inbox' = Append(Append(inbox, m), OwnershipMsg(server_owner'))
<1> DEFINE o == OwnershipMsg(server_owner')
<1>1. o \in Messages
  BY MessageTypes
<1> HIDE DEF o
<1>2. /\ inbox \o <<m>> = Append(inbox, m)
      /\ Append(inbox, m) \in Seq(Messages)
      /\ Append(inbox, m) \o <<o>> = Append(Append(inbox, m), o)
      /\ Append(Append(inbox, m), o) \in Seq(Messages)
  BY <1>1, AppendIsConcat, AppendProperties
<1> QED BY <1>2 DEF Sent, o

LEMMA SentOwnership ==
  ASSUME inbox \in Seq(Messages), server_owner' \in Operators \cup {None}, Sent(<<>>)
  PROVE  /\ inbox' \in Seq(Messages)
         /\ Follower \in ToSet(participants')
              => inbox' = Append(inbox, OwnershipMsg(server_owner'))
<1> DEFINE o == OwnershipMsg(server_owner')
<1>1. o \in Messages
  BY MessageTypes
<1> HIDE DEF o
<1>2. /\ inbox \o <<>> = inbox
      /\ inbox \o <<o>> = Append(inbox, o)
      /\ Append(inbox, o) \in Seq(Messages)
  BY <1>1, AppendIsConcat, AppendProperties, ConcatEmptySeq
<1> QED BY <1>2 DEF Sent, o

\* After a step of the server a follower that is connected has been sent: on joining, the
\* state and the owner; after an e-stop, the e-stop and the owner; after any other step
\* that may matter to it, the owner.
Told ==
  \/ /\ FollowerJoins
     /\ inbox = <<>>
     /\ inbox' = Append(Append(inbox, JoinedMsg(server_owner', server_state')),
                        OwnershipMsg(server_owner'))
  \/ /\ Connected
     /\ \E flags \in SignalingEstops :
          /\ server_estopped' = IF flags[2] THEN FALSE ELSE flags[1] \/ server_estopped
          /\ inbox' = Append(Append(inbox, EstopMsg(flags[1], flags[2])),
                             OwnershipMsg(server_owner'))
  \/ /\ Connected /\ UNCHANGED server_estopped
     /\ inbox' = Append(inbox, OwnershipMsg(server_owner'))
  \/ Connected /\ UNCHANGED <<server_owner, server_estopped, inbox>>

LEMMA ServerTells ==
  ASSUME ServerInv, inbox \in Seq(Messages), ServerStep
  PROVE  /\ ServerInv'
         /\ inbox' \in Seq(Messages)
         /\ Follower \in ToSet(participants') => Told
<1> USE TeleopAssumption
<1>0. \A flags \in SignalingEstops : flags[1] \in BOOLEAN /\ flags[2] \in BOOLEAN
  OBVIOUS
<1>1. CASE FollowerJoins
  <2>1. ServerInv'
    BY <1>1, ServerJoins DEF FollowerJoins
  <2>2. server_owner' \in Operators \cup {None} /\ server_state' \in SessionState
    BY <2>1 DEF ServerInv, Server!RecomputedState, SessionState
  <2>3. JoinedMsg(server_owner', server_state') \in Messages
    BY <2>2, MessageTypes
  <2>4. Sent(<<JoinedMsg(server_owner', server_state')>>) /\ inbox = <<>>
    BY <1>1 DEF FollowerJoins
  <2> QED BY <1>1, <2>1, <2>2, <2>3, <2>4, SentOne DEF Told
<1>2. CASE FollowerLeaves
  <2>1. ServerInv' /\ Follower \notin ToSet(participants')
    BY <1>2, ServerLeaves DEF FollowerLeaves
  <2>2. PICK n \in 0..Len(inbox) : inbox' = SubSeq(inbox, 1, n)
    BY <1>2 DEF FollowerLeaves
  <2>3. Len(inbox) \in Nat /\ \A i \in 1..n : inbox[i] \in Messages
    BY LenProperties, ElementOfSeq
  <2>4. inbox' \in Seq(Messages)
    BY <2>2, <2>3, SubSeqProperties
  <2> QED BY <2>1, <2>4
<1>3. CASE OthersAct
  <2>1. /\ ServerInv' /\ (Follower \in ToSet(participants') => Connected)
        /\ UNCHANGED server_estopped
    BY <1>3, OthersKeep
  <2>2. Sent(<<>>) /\ server_owner' \in Operators \cup {None}
    BY <1>3, <2>1 DEF OthersAct, ServerInv
  <2> QED BY <2>1, <2>2, SentOwnership DEF Told
<1>4. CASE SignalingEstop
  <2>1. PICK c \in Conns \ {Follower}, flags \in SignalingEstops :
          Server!Estop(c, flags[1], flags[2]) /\ Sent(<<EstopMsg(flags[1], flags[2])>>)
    BY <1>4 DEF SignalingEstop
  <2>2. /\ ServerInv' /\ participants' = participants
        /\ server_estopped' = IF flags[2] THEN FALSE ELSE flags[1] \/ server_estopped
    BY <1>0, <2>1, ServerStops
  <2>3. server_owner' \in Operators \cup {None} /\ EstopMsg(flags[1], flags[2]) \in Messages
    BY <1>0, <2>2, MessageTypes DEF ServerInv
  <2> QED BY <2>1, <2>2, <2>3, SentOne DEF Told, Connected
<1>5. CASE GraceExpires
  <2>1. ServerInv' /\ UNCHANGED <<participants, server_estopped>>
    BY <1>5, ServerFrees DEF GraceExpires
  <2>2. CASE server_owner' = server_owner
    BY <1>5, <2>1, <2>2 DEF GraceExpires, Told, Connected
  <2>3. CASE server_owner' # server_owner
    <3>1. Sent(<<>>) /\ server_owner' \in Operators \cup {None}
      BY <1>5, <2>1, <2>3 DEF GraceExpires, ServerInv
    <3> QED BY <2>1, <3>1, SentOwnership DEF Told, Connected
  <2> QED BY <2>2, <2>3
<1> QED BY <1>1, <1>2, <1>3, <1>4, <1>5 DEF ServerStep

-----------------------------------------------------------------------------
(* The gateway handles what it was told                                    *)

\* The gateway, once it has read its inbox, has the server's owner.
OwnerLearned ==
  Connected => LastWord(inbox, "owner", owner_operator_id, server_owner)

TeleopInv ==
  /\ TypeOK /\ OwnedStates
  /\ ServerInv
  /\ inbox \in Seq(Messages)
  /\ OwnerLearned

\* A message handled is believed.
LEMMA ReceiveBelieves ==
  ASSUME inbox \in Seq(Messages), Receive
  PROVE  /\ Next
         /\ UNCHANGED server
         /\ inbox # <<>> /\ inbox' = Tail(inbox) /\ inbox' \in Seq(Messages)
         /\ owner_operator_id' = IF Speaks(Head(inbox), "owner") THEN Says(Head(inbox), "owner")
                                 ELSE owner_operator_id
         /\ Flag(is_estopped') = IF Speaks(Head(inbox), "stop") THEN Says(Head(inbox), "stop")
                                 ELSE Flag(is_estopped)
<1> DEFINE m == Head(inbox)
<1>1. inbox # <<>> /\ inbox' = Tail(inbox) /\ UNCHANGED server
  BY DEF Receive
<1>2. m \in Messages /\ inbox' \in Seq(Messages)
  BY <1>1, HeadTailProperties
<1>3. \/ m.type = "joined" /\ Joined(m.state, m.owner)
      \/ m.type = "ownership" /\ OwnershipMessage(m.owner)
      \/ m.type = "estop" /\ Estop(m.engaged, m.reset)
  BY DEF Receive
<1> HIDE DEF m
<1> DEFINE Believed ==
      /\ Next
      /\ owner_operator_id' = IF Speaks(m, "owner") THEN Says(m, "owner") ELSE owner_operator_id
      /\ Flag(is_estopped') = IF Speaks(m, "stop") THEN Says(m, "stop") ELSE Flag(is_estopped)
<1>4. ASSUME m.type = "joined", Joined(m.state, m.owner)
      PROVE  Believed
  <2>1. m.owner \in Operators \cup {None} /\ m.state \in SessionState
    BY <1>2, <1>4 DEF Messages
  <2>2. Next
    BY <1>4, <2>1 DEF Next
  <2> QED BY <1>4, <2>2 DEF Joined, Speaks, Says, Flag, is_estopped
<1>5. ASSUME m.type = "ownership", OwnershipMessage(m.owner)
      PROVE  Believed
  <2>1. m.owner \in Operators \cup {None}
    BY <1>2, <1>5 DEF Messages
  <2>2. Next
    BY <1>5, <2>1 DEF Next
  <2>3. is_estopped' <=> is_estopped
    BY <1>5 DEF OwnershipMessage, on_ownership, StateAfterOwner, is_estopped, is_armed
  <2>4. owner_operator_id' = m.owner
    BY <1>5 DEF OwnershipMessage, on_ownership
  <2> QED BY <1>5, <2>2, <2>3, <2>4 DEF Speaks, Says, Flag
<1>6. ASSUME m.type = "estop", Estop(m.engaged, m.reset)
      PROVE  Believed
  <2>1. m.engaged \in BOOLEAN /\ m.reset \in BOOLEAN
    BY <1>2, <1>6 DEF Messages
  <2>2. Next
    BY <1>6, <2>1 DEF Next
  <2>3. owner_operator_id' = owner_operator_id /\ state' = StateAfterEstop(m.engaged, m.reset)
    BY <1>6 DEF Estop, on_estop, Goto
  <2>4. is_estopped' <=> IF m.engaged \/ m.reset THEN m.engaged ELSE is_estopped
    BY <2>1, <2>3 DEF StateAfterEstop, Idle, is_estopped
  <2> QED BY <1>6, <2>1, <2>2, <2>3, <2>4 DEF Speaks, Says, Flag
<1>7. Believed
  BY <1>3, <1>4, <1>5, <1>6
<1> QED BY <1>1, <1>2, <1>7 DEF m

\* The peers and the watchdog cannot change the owner, and the e-stop only by a peer's.
LEMMA PeersBelieveNothing ==
  ASSUME PeerStep
  PROVE  /\ Next
         /\ UNCHANGED <<server, inbox, owner_operator_id>>
         /\ PeerEstops = {} => (is_estopped' <=> is_estopped)
<1> DEFINE Goal == /\ Next
                   /\ UNCHANGED owner_operator_id
                   /\ PeerEstops = {} => (is_estopped' <=> is_estopped)
<1> USE DEF Goto, fsm, is_estopped, is_armed
<1>1. ASSUME Offer
      PROVE  Goal
  BY <1>1 DEF Next, Offer, on_peer_connected
<1>2. ASSUME NEW flags \in PeerEstops, Estop(flags[1], flags[2])
      PROVE  Goal
  <2>1. flags[1] \in BOOLEAN /\ flags[2] \in BOOLEAN
    BY TeleopAssumption
  <2> QED BY <1>2, <2>1 DEF Next, Estop, on_estop
<1>3. ASSUME NEW o \in Operators, Enable(o) \/ Disable(o)
      PROVE  Goal
  BY <1>3 DEF Next, Enable, Disable, on_enable, on_disable
<1>4. ASSUME NEW o \in Operators, Home(o) \/ Gripper(o)
      PROVE  Goal
  BY <1>4 DEF Next, Home, Gripper
<1>5. ASSUME NEW o \in Operators, NEW engaged \in BOOLEAN, Clutch(o, engaged)
      PROVE  Goal
  BY <1>5 DEF Next, Clutch, on_clutch
<1>6. ASSUME NEW o \in Operators, NEW q \in Seqs, LeaderState(o, q)
      PROVE  Goal
  BY <1>6 DEF Next, LeaderState
<1>7. ASSUME Tick
      PROVE  Goal
  BY <1>7 DEF Next, Tick
<1>8. ASSUME WatchdogTimeout
      PROVE  Goal
  BY <1>8 DEF Next, WatchdogTimeout, on_freeze
<1>9. Goal
  BY <1>1, <1>2, <1>3, <1>4, <1>5, <1>6, <1>7, <1>8 DEF PeerStep
<1> QED BY <1>9 DEF PeerStep

LEMMA TeleopStart ==
  ASSUME TeleopInit
  PROVE  TeleopInv /\ ~Connected
<1>1. TypeOK /\ OwnedStates
  BY GatewayTypeInit DEF TeleopInit
<1>2. /\ participants = <<>> /\ server_owner = None /\ server_estopped = FALSE
      /\ server_state = "DISCONNECTED" /\ inbox = <<>>
  BY DEF TeleopInit, Server!Init
<1>3. ToSet(participants) = {} /\ Server!ToSet(participants) = {}
  BY <1>2, ToSetOfEmpty DEF ToSet, Server!ToSet
<1>4. participants \in Seq(Conns) /\ inbox \in Seq(Messages)
  BY <1>2, EmptySeq
<1>5. IsInjective(participants)
  <2>1. DOMAIN participants = {}
    BY <1>2
  <2> QED BY <2>1 DEF IsInjective
<1>6. server_state = Server!RecomputedState(participants, server_owner, server_estopped)
  BY <1>2, <1>3 DEF Server!RecomputedState, Server!Present, Server!Members
<1> QED BY <1>1, <1>2, <1>3, <1>4, <1>5, <1>6 DEF TeleopInv, ServerInv, OwnerLearned, Connected

\* What was told last is the owner the server has.
LEMMA ToldOwner ==
  ASSUME inbox \in Seq(Messages), OwnerLearned, Told, UNCHANGED owner_operator_id,
         server_owner' \in Operators \cup {None}, server_state' \in SessionState
  PROVE  LastWord(inbox', "owner", owner_operator_id', server_owner')
<1> DEFINE o == OwnershipMsg(server_owner')
<1>1. o \in Messages /\ Speaks(o, "owner") /\ Says(o, "owner") = server_owner'
  BY MessageTypes DEF OwnershipMsg, Speaks, Says
<1> HIDE DEF o
<1>2. ASSUME NEW q \in Seq(Messages), NEW new, LastWord(q, "owner", owner_operator_id, new)
      PROVE  LastWord(Append(q, o), "owner", owner_operator_id, server_owner')
  BY <1>1, <1>2, LastWordAppend
<1>3. ASSUME NEW q \in Seq(Messages), NEW new, LastWord(q, "owner", owner_operator_id, new),
             NEW m \in Messages
      PROVE  LastWord(Append(Append(q, m), o), "owner", owner_operator_id, server_owner')
  <2>1. Append(q, m) \in Seq(Messages)
    BY AppendProperties
  <2>2. LastWord(Append(q, m), "owner", owner_operator_id,
                 IF Speaks(m, "owner") THEN Says(m, "owner") ELSE new)
    BY <1>3, LastWordAppend
  <2> QED BY <1>2, <2>1, <2>2
<1>4. CASE FollowerJoins /\ inbox = <<>>
           /\ inbox' = Append(Append(inbox, JoinedMsg(server_owner', server_state')), o)
  <2>1. JoinedMsg(server_owner', server_state') \in Messages
    BY MessageTypes
  <2>2. LastWord(inbox, "owner", owner_operator_id, owner_operator_id)
    BY <1>4, LastWordOfNothing
  <2> QED BY <1>3, <1>4, <2>1, <2>2
<1>5. ASSUME Connected, NEW flags \in SignalingEstops,
             inbox' = Append(Append(inbox, EstopMsg(flags[1], flags[2])), o)
      PROVE  LastWord(inbox', "owner", owner_operator_id, server_owner')
  <2>1. EstopMsg(flags[1], flags[2]) \in Messages
    BY MessageTypes, TeleopAssumption
  <2> QED BY <1>3, <1>5, <2>1 DEF OwnerLearned
<1>6. CASE Connected /\ inbox' = Append(inbox, o)
  BY <1>2, <1>6 DEF OwnerLearned
<1>7. CASE Connected /\ UNCHANGED <<server_owner, server_estopped, inbox>>
  BY <1>7 DEF OwnerLearned
<1> QED BY <1>4, <1>5, <1>6, <1>7 DEF Told, o

LEMMA TeleopStep ==
  ASSUME TeleopInv, [TeleopNext]_teleopVars
  PROVE  TeleopInv' /\ [Next]_vars
<1> USE DEF TeleopInv
<1>1. CASE ServerStep
  <2>1. UNCHANGED vars
    BY <1>1 DEF ServerStep
  <2>2. UNCHANGED owner_operator_id /\ TypeOK' /\ OwnedStates'
    BY <2>1 DEF vars, TypeOK, FsmTypeOK, OwnedStates
  <2>3. ServerInv' /\ inbox' \in Seq(Messages) /\ (Follower \in ToSet(participants') => Told)
    BY <1>1, ServerTells
  <2>4. server_owner' \in Operators \cup {None} /\ server_state' \in SessionState
    BY <2>3 DEF ServerInv, Server!RecomputedState, SessionState
  <2>5. OwnerLearned'
    BY <2>2, <2>3, <2>4, ToldOwner DEF OwnerLearned, Connected
  <2> QED BY <2>1, <2>2, <2>3, <2>5
<1>2. CASE Receive
  <2>1. /\ Next /\ UNCHANGED server
        /\ inbox # <<>> /\ inbox' = Tail(inbox) /\ inbox' \in Seq(Messages)
        /\ owner_operator_id' = IF Speaks(Head(inbox), "owner") THEN Says(Head(inbox), "owner")
                                ELSE owner_operator_id
    BY <1>2, ReceiveBelieves
  <2>2. TypeOK' /\ OwnedStates'
    BY <2>1, GatewayTypeKept, GatewayOwned DEF TypeOK
  <2>3. ServerInv' /\ UNCHANGED <<participants, server_owner>>
    BY <2>1 DEF server, ServerInv
  <2>4. OwnerLearned'
    BY <2>1, <2>3, LastWordTail DEF OwnerLearned, Connected
  <2> QED BY <2>1, <2>2, <2>3, <2>4
<1>3. CASE PeerStep
  <2>1. Next /\ UNCHANGED <<server, inbox, owner_operator_id>>
    BY <1>3, PeersBelieveNothing
  <2>2. TypeOK' /\ OwnedStates'
    BY <2>1, GatewayTypeKept, GatewayOwned DEF TypeOK
  <2> QED BY <2>1, <2>2 DEF server, ServerInv, OwnerLearned, Connected
<1>4. CASE UNCHANGED teleopVars
  BY <1>4 DEF teleopVars, vars, server, TypeOK, FsmTypeOK, OwnedStates, ServerInv,
     OwnerLearned, Connected
<1> QED BY <1>1, <1>2, <1>3, <1>4 DEF TeleopNext

LEMMA TeleopInvariant == TeleopSpec => []TeleopInv
<1>1. TeleopInit => TeleopInv
  BY TeleopStart
<1>2. TeleopInv /\ [TeleopNext]_teleopVars => TeleopInv'
  BY TeleopStep
<1> QED BY <1>1, <1>2, PTL DEF TeleopSpec

\* While the follower is connected, its gateway has the server's owner or a message that
\* will tell it is under way, in every order of claims, releases, grace periods and
\* reconnects.
THEOREM FollowerAlwaysLearnsOwner == TeleopSpec => []FollowerLearnsOwner
<1>1. TeleopInv => FollowerLearnsOwner
  <2> SUFFICES ASSUME TeleopInv, Connected
               PROVE  OwnerToBe = server_owner
    BY DEF FollowerLearnsOwner
  <2>1. LastWord(inbox, "owner", owner_operator_id, server_owner)
    BY DEF TeleopInv, OwnerLearned
  <2>2. DOMAIN inbox = 1..Len(inbox) /\ Len(inbox) \in Nat
    BY LenProperties DEF TeleopInv
  <2>3. CASE owner_operator_id = server_owner /\ \A i \in DOMAIN inbox : ~Speaks(inbox[i], "owner")
    <3>1. News = {}
      BY <2>3 DEF News, Speaks
    <3> QED BY <2>3, <3>1 DEF OwnerToBe
  <2>4. ASSUME NEW i \in DOMAIN inbox, Speaks(inbox[i], "owner"),
               Says(inbox[i], "owner") = server_owner,
               \A j \in DOMAIN inbox : j > i => ~Speaks(inbox[j], "owner")
        PROVE  OwnerToBe = server_owner
    <3>1. i \in News /\ inbox[i].owner = server_owner
      BY <2>4 DEF News, Speaks, Says
    <3>2. \A j \in News : i >= j
      BY <2>2, <2>4 DEF News, Speaks
    <3>3. News \subseteq Nat
      BY <2>2 DEF News
    <3>4. Max(News) = i
      <4>1. \A j \in News : (\A k \in News : j >= k) => j = i
        BY <3>1, <3>2, <3>3
      <4> QED BY <3>1, <3>2, <4>1 DEF Max
    <3> QED BY <3>1, <3>4 DEF OwnerToBe
  <2> QED BY <2>1, <2>3, <2>4 DEF LastWord
<1> QED BY <1>1, TeleopInvariant, PTL

-----------------------------------------------------------------------------
(* The e-stop                                                              *)

\* The gateway, once it has read its inbox, has the server's e-stop.
StopLearned ==
  Connected => LastWord(inbox, "stop", Flag(is_estopped), Flag(server_estopped))

\* The server looks at reset first and the gateway at engaged first, so they understand
\* an e-stop in the same way only if it is not both.
OneOfBoth == \A flags \in SignalingEstops : ~(flags[1] /\ flags[2])

LEMMA ToldStop ==
  ASSUME OneOfBoth, inbox \in Seq(Messages), ServerInv, ServerInv', StopLearned, Told,
         UNCHANGED state
  PROVE  LastWord(inbox', "stop", Flag(is_estopped'), Flag(server_estopped'))
<1> DEFINE o == OwnershipMsg(server_owner')
           mine == Flag(is_estopped)
<1>1. o \in Messages /\ ~Speaks(o, "stop")
  BY MessageTypes DEF OwnershipMsg, Speaks, ServerInv
<1>2. Flag(is_estopped') = mine
  BY DEF is_estopped, Flag
<1> HIDE DEF o, mine
<1>3. ASSUME NEW q \in Seq(Messages), NEW new, LastWord(q, "stop", mine, new)
      PROVE  LastWord(Append(q, o), "stop", mine, new)
  BY <1>1, <1>3, LastWordAppend
<1>4. ASSUME NEW q \in Seq(Messages), NEW new, LastWord(q, "stop", mine, new), NEW m \in Messages
      PROVE  LastWord(Append(Append(q, m), o), "stop", mine,
                      IF Speaks(m, "stop") THEN Says(m, "stop") ELSE new)
  <2>1. Append(q, m) \in Seq(Messages)
    BY AppendProperties
  <2>2. LastWord(Append(q, m), "stop", mine, IF Speaks(m, "stop") THEN Says(m, "stop") ELSE new)
    BY <1>4, LastWordAppend
  <2> QED BY <1>3, <2>1, <2>2
<1>5. CASE /\ FollowerJoins /\ inbox = <<>>
           /\ inbox' = Append(Append(inbox, JoinedMsg(server_owner', server_state')), o)
  <2> DEFINE m == JoinedMsg(server_owner', server_state')
  <2>1. server_owner' \in Operators \cup {None} /\ server_state' \in SessionState
        /\ (server_state' = "ESTOPPED" <=> server_estopped')
    BY DEF ServerInv, Server!RecomputedState, SessionState
  <2>2. m \in Messages
    BY <2>1, MessageTypes
  <2>3. Speaks(m, "stop") /\ Says(m, "stop") = Flag(server_estopped')
    BY <2>1 DEF JoinedMsg, Speaks, Says, Flag
  <2>4. LastWord(inbox, "stop", mine, mine)
    BY <1>5, LastWordOfNothing
  <2> HIDE DEF m
  <2>5. LastWord(Append(Append(inbox, m), o), "stop", mine, Flag(server_estopped'))
    BY <1>4, <2>2, <2>3, <2>4
  <2> QED BY <1>2, <1>5, <2>5 DEF m
<1>6. ASSUME Connected, NEW flags \in SignalingEstops,
             server_estopped' = IF flags[2] THEN FALSE ELSE flags[1] \/ server_estopped,
             inbox' = Append(Append(inbox, EstopMsg(flags[1], flags[2])), o)
      PROVE  LastWord(inbox', "stop", Flag(is_estopped'), Flag(server_estopped'))
  <2> DEFINE m == EstopMsg(flags[1], flags[2])
  <2>1. flags[1] \in BOOLEAN /\ flags[2] \in BOOLEAN /\ ~(flags[1] /\ flags[2])
    BY TeleopAssumption DEF OneOfBoth
  <2>2. m \in Messages
    BY <2>1, MessageTypes
  <2>3. (IF Speaks(m, "stop") THEN Says(m, "stop") ELSE Flag(server_estopped))
          = Flag(server_estopped')
    BY <1>6, <2>1 DEF EstopMsg, Speaks, Says, Flag
  <2>4. LastWord(inbox, "stop", mine, Flag(server_estopped))
    BY <1>6 DEF StopLearned, mine
  <2> HIDE DEF m
  <2>5. LastWord(Append(Append(inbox, m), o), "stop", mine, Flag(server_estopped'))
    BY <1>4, <2>2, <2>3, <2>4
  <2> QED BY <1>2, <1>6, <2>5 DEF m
<1>7. CASE Connected /\ UNCHANGED server_estopped /\ inbox' = Append(inbox, o)
  BY <1>2, <1>3, <1>7 DEF StopLearned, mine
<1>8. CASE Connected /\ UNCHANGED <<server_owner, server_estopped, inbox>>
  BY <1>2, <1>8 DEF StopLearned, mine
<1> QED BY <1>5, <1>6, <1>7, <1>8 DEF Told, o

LEMMA StopStep ==
  ASSUME OneOfBoth, PeerEstops = {}, TeleopInv, StopLearned, [TeleopNext]_teleopVars
  PROVE  StopLearned'
<1> USE DEF TeleopInv
<1>1. CASE ServerStep
  <2>1. UNCHANGED state
    BY <1>1 DEF ServerStep, vars
  <2>2. ServerInv' /\ (Follower \in ToSet(participants') => Told)
    BY <1>1, ServerTells
  <2> QED BY <2>1, <2>2, ToldStop DEF StopLearned, Connected
<1>2. CASE Receive
  <2>1. /\ inbox # <<>> /\ inbox' = Tail(inbox) /\ UNCHANGED server
        /\ Flag(is_estopped') = IF Speaks(Head(inbox), "stop") THEN Says(Head(inbox), "stop")
                                ELSE Flag(is_estopped)
    BY <1>2, ReceiveBelieves
  <2>2. UNCHANGED <<participants, server_estopped>>
    BY <2>1 DEF server
  <2> QED BY <2>1, <2>2, LastWordTail DEF StopLearned, Connected
<1>3. CASE PeerStep
  <2>1. UNCHANGED <<server, inbox>> /\ (is_estopped' <=> is_estopped)
    BY <1>3, PeersBelieveNothing
  <2>2. Flag(is_estopped') = Flag(is_estopped)
    BY <2>1 DEF Flag
  <2> QED BY <2>1, <2>2 DEF server, StopLearned, Connected
<1>4. CASE UNCHANGED teleopVars
  BY <1>4 DEF teleopVars, vars, server, StopLearned, Connected, is_estopped, Flag
<1> QED BY <1>1, <1>2, <1>3, <1>4 DEF TeleopNext

\* When all e-stops go by the server and each is either a stop or a reset, the gateway
\* that has read its inbox agrees with the server on the e-stop, also after a reconnect.
THEOREM EstopAlwaysAgrees ==
  ASSUME PeerEstops = {}, OneOfBoth
  PROVE  TeleopSpec => []EstopAgrees
<1>1. TeleopInit => StopLearned
  BY TeleopStart DEF StopLearned
<1>2. TeleopInv /\ StopLearned /\ [TeleopNext]_teleopVars => StopLearned'
  BY StopStep
<1>3. StopLearned => EstopAgrees
  <2> SUFFICES ASSUME StopLearned, Connected, inbox = <<>>
               PROVE  is_estopped <=> server_estopped
    BY DEF EstopAgrees
  <2>1. DOMAIN inbox = {}
    OBVIOUS
  <2>2. Flag(is_estopped) = Flag(server_estopped)
    BY <2>1 DEF StopLearned, LastWord
  <2> QED BY <2>2 DEF Flag
<1> QED BY <1>1, <1>2, <1>3, TeleopInvariant, PTL DEF TeleopSpec

-----------------------------------------------------------------------------
(* Each half is its component                                              *)

\* End to end, the gateway does nothing that FollowerGateway does not allow, so what is
\* proved of the gateway holds here too.
THEOREM TeleopImplementsGateway == TeleopSpec => Spec
<1>1. TeleopInit => Init
  BY DEF TeleopInit
<1>2. TeleopInv /\ [TeleopNext]_teleopVars => [Next]_vars
  BY TeleopStep
<1> QED BY <1>1, <1>2, TeleopInvariant, PTL DEF TeleopSpec, Spec

\* End to end, the server does nothing that SessionManager does not allow: the owner and
\* the e-stop the follower learns are those of a session that keeps its promises.
THEOREM TeleopImplementsServer == TeleopSpec => Server!Spec
<1>1. TeleopInit => Server!Init
  BY DEF TeleopInit
<1>2. [TeleopNext]_teleopVars => [Server!Next]_(Server!vars)
  <2> SUFFICES ASSUME [TeleopNext]_teleopVars
               PROVE  Server!Next \/ UNCHANGED server
    BY DEF server, Server!vars
  <2> USE TeleopAssumption DEF Server!Next
  <2>1. CASE FollowerJoins \/ FollowerLeaves
    BY <2>1 DEF FollowerJoins, FollowerLeaves
  <2>2. CASE OthersAct
    BY <2>2 DEF OthersAct
  <2>3. CASE SignalingEstop
    <3>1. PICK c \in Conns, flags \in SignalingEstops : Server!Estop(c, flags[1], flags[2])
      BY <2>3 DEF SignalingEstop
    <3>2. flags[1] \in BOOLEAN /\ flags[2] \in BOOLEAN
      OBVIOUS
    <3> QED BY <3>1, <3>2
  <2>4. CASE GraceExpires
    BY <2>4 DEF GraceExpires
  <2>5. CASE Receive \/ PeerStep
    BY <2>5 DEF Receive, PeerStep, server
  <2>6. CASE UNCHANGED teleopVars
    BY <2>6 DEF teleopVars
  <2> QED BY <2>1, <2>2, <2>3, <2>4, <2>5, <2>6 DEF TeleopNext, ServerStep
<1> QED BY <1>1, <1>2, PTL DEF TeleopSpec, Server!Spec
=============================================================================
