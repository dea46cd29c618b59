-------------------------- MODULE RobotControlProofs --------------------------
(***************************************************************************)
(* Proofs about the gateway, the topic and the robot's node, for every     *)
(* depth of the topic and every set of operators, whether or not the       *)
(* gateway is restarted and the websocket lost.  What the node will do is  *)
(* decided by the commands under way, so the invariants are about those.   *)
(***************************************************************************)
EXTENDS RobotControl, FollowerGatewayProofs, SequenceTheorems

(* The topic                                                               *)

\* KeepLast keeps the tail of a sequence, the last element with it.
LEMMA KeepLastKeepsTail ==
  ASSUME NEW S, NEW s \in Seq(S)
  PROVE  /\ KeepLast(s) \in Seq(S)
         /\ Len(s) <= Depth => KeepLast(s) = s
         /\ \E d \in Nat : /\ Len(s) = Len(KeepLast(s)) + d
                           /\ \A i \in 1..Len(KeepLast(s)) : KeepLast(s)[i] = s[i + d]
         /\ s # <<>> => KeepLast(s) # <<>>
<1>0. Len(s) \in Nat /\ Depth \in Nat \ {0}
  BY RobotAssumption, LenProperties
<1> DEFINE d == IF Len(s) > Depth THEN Len(s) - Depth ELSE 0
<1>1. /\ d \in Nat /\ d <= Len(s) /\ (Len(s) > 0 => d < Len(s))
      /\ Len(s) <= Depth => d = 0
      /\ KeepLast(s) = SubSeq(s, d + 1, Len(s))
  BY <1>0 DEF KeepLast
<1> HIDE DEF d
<1>2. \A i \in (d + 1)..Len(s) : s[i] \in S
  BY <1>0, <1>1, ElementOfSeq
<1>3. /\ KeepLast(s) \in Seq(S)
      /\ Len(KeepLast(s)) = Len(s) - d
      /\ \A i \in 1..(Len(s) - d) : KeepLast(s)[i] = s[i + d]
  <2>1. /\ SubSeq(s, d + 1, Len(s)) \in Seq(S)
        /\ Len(SubSeq(s, d + 1, Len(s))) = IF d + 1 <= Len(s) THEN Len(s) - (d + 1) + 1 ELSE 0
        /\ \A i \in 1..(Len(s) - (d + 1) + 1) : SubSeq(s, d + 1, Len(s))[i] = s[(d + 1) + i - 1]
    BY <1>0, <1>1, <1>2, SubSeqProperties
  <2> QED BY <1>0, <1>1, <2>1
<1>4. Len(s) <= Depth => KeepLast(s) = s
  BY <1>1, SubSeqFull
<1>5. s # <<>> => KeepLast(s) # <<>>
  <2> SUFFICES ASSUME s # <<>>
               PROVE  KeepLast(s) # <<>>
    OBVIOUS
  <2>1. Len(s) > 0
    BY <1>0, EmptySeq
  <2>2. Len(KeepLast(s)) > 0
    BY <1>0, <1>1, <1>3, <2>1
  <2> QED BY <2>2, EmptySeq
<1>6. \E e \in Nat : /\ Len(s) = Len(KeepLast(s)) + e
                     /\ \A i \in 1..Len(KeepLast(s)) : KeepLast(s)[i] = s[i + e]
  <2>1. Len(s) = Len(KeepLast(s)) + d
    BY <1>0, <1>1, <1>3
  <2>2. \A i \in 1..Len(KeepLast(s)) : KeepLast(s)[i] = s[i + d]
    BY <1>3
  <2> QED BY <1>1, <2>1, <2>2
<1> QED BY <1>3, <1>4, <1>5, <1>6

\* What a command leaves in the topic.
StampedCommands ==
  [enabled : BOOLEAN \cup {None}, clutched : BOOLEAN \cup {None}, mode : Modes \cup {None},
   joints : Seqs \cup {None}, at : SessionState]

Queue == topic \o [i \in DOMAIN published' |-> Stamped(published'[i])]

\* The command c, stamped with the state st.
Stamp(c, st) ==
  [enabled |-> c.enabled, clutched |-> c.clutched, mode |-> c.mode, joints |-> c.joints, at |-> st]

LEMMA StampType ==
  ASSUME NEW c \in Commands, NEW st \in SessionState
  PROVE  Stamp(c, st) \in StampedCommands
  BY DEF Stamp, StampedCommands, Commands

\* The topic after a step of the gateway that publishes c, before anything is dropped.
LEMMA PublishQueues ==
  ASSUME topic \in Seq(StampedCommands), NEW c \in Commands, state' \in SessionState,
         published' = <<c>>
  PROVE  Queue = Append(topic, Stamp(c, state'))
<1>1. [i \in DOMAIN published' |-> Stamped(published'[i])] = <<Stamp(c, state')>>
  BY DEF Stamped, Stamp
<1> QED BY <1>1, StampType, AppendIsConcat DEF Queue

LEMMA NothingQueues ==
  ASSUME topic \in Seq(StampedCommands), PublishNothing
  PROVE  Queue = topic
<1>1. [i \in DOMAIN published' |-> Stamped(published'[i])] = <<>>
  BY DEF PublishNothing
<1> QED BY <1>1, ConcatEmptySeq DEF Queue

-----------------------------------------------------------------------------
(* The last word on a key                                                  *)

\* Someone who has old for key k and takes the commands in q ends up with new.
LastWord(q, k, old, new) ==
  \/ old = new /\ \A i \in DOMAIN q : q[i][k] = None
  \/ \E i \in DOMAIN q :
       /\ q[i][k] = new /\ new # None
       /\ \A j \in DOMAIN q : j > i => q[j][k] = None

\* A command more: its own word if it has one, or the last word before it.
LEMMA LastWordAppend ==
  ASSUME NEW S, NEW q \in Seq(S), NEW m \in S, NEW k, NEW old, NEW new, LastWord(q, k, old, new)
  PROVE  LastWord(Append(q, m), k, old, IF m[k] = None THEN new ELSE m[k])
<1> DEFINE r == Append(q, m)
<1>1. /\ Len(q) \in Nat /\ DOMAIN q = 1..Len(q) /\ DOMAIN r = 1..(Len(q) + 1)
      /\ \A i \in 1..Len(q) : r[i] = q[i]
      /\ r[Len(q) + 1] = m
  BY AppendProperties, LenProperties
<1> HIDE DEF r
<1>2. CASE m[k] # None
  <2>1. Len(q) + 1 \in DOMAIN r /\ \A j \in DOMAIN r : ~(j > Len(q) + 1)
    BY <1>1
  <2> QED BY <1>1, <1>2, <2>1 DEF LastWord, r
<1>3. CASE m[k] = None
  <2>1. CASE old = new /\ \A i \in DOMAIN q : q[i][k] = None
    BY <1>1, <1>3, <2>1 DEF LastWord, r
  <2>2. ASSUME NEW i \in DOMAIN q, q[i][k] = new, new # None,
               \A j \in DOMAIN q : j > i => q[j][k] = None
        PROVE  LastWord(r, k, old, new)
    <3>1. i \in DOMAIN r /\ r[i][k] = new /\ \A j \in DOMAIN r : j > i => r[j][k] = None
      BY <1>1, <1>3, <2>2
    <3> QED BY <2>2, <3>1 DEF LastWord
  <2> QED BY <1>3, <2>1, <2>2 DEF LastWord, r
<1> QED BY <1>2, <1>3

\* A command taken: its own word if it has one replaces what one had.
LEMMA LastWordTail ==
  ASSUME NEW S, NEW q \in Seq(S), q # <<>>, NEW k, NEW old, NEW new, LastWord(q, k, old, new)
  PROVE  LastWord(Tail(q), k, IF Head(q)[k] = None THEN old ELSE Head(q)[k], new)
<1> DEFINE r == Tail(q)
<1>1. /\ Len(q) \in Nat \ {0} /\ DOMAIN q = 1..Len(q) /\ DOMAIN r = 1..(Len(q) - 1)
      /\ \A i \in 1..(Len(q) - 1) : r[i] = q[i + 1]
      /\ Head(q) = q[1]
  BY HeadTailProperties, LenProperties, EmptySeq
<1> HIDE DEF r
<1> DEFINE mine == IF q[1][k] = None THEN old ELSE q[1][k]
<1>2. CASE old = new /\ \A i \in DOMAIN q : q[i][k] = None
  BY <1>1, <1>2 DEF LastWord, r
<1>3. ASSUME NEW i \in DOMAIN q, q[i][k] = new, new # None,
             \A j \in DOMAIN q : j > i => q[j][k] = None
      PROVE  LastWord(r, k, mine, new)
  <2>1. CASE i = 1
    BY <1>1, <1>3, <2>1 DEF LastWord
  <2>2. CASE i # 1
    <3>1. i - 1 \in DOMAIN r /\ r[i - 1][k] = new
      BY <1>1, <1>3, <2>2
    <3>2. \A j \in DOMAIN r : j > i - 1 => r[j][k] = None
      BY <1>1, <1>3
    <3> QED BY <1>3, <3>1, <3>2 DEF LastWord
  <2> QED BY <2>1, <2>2
<1> QED BY <1>1, <1>2, <1>3 DEF LastWord, r

\* Whoever takes a command with a word on k last ends up with that word.
LEMMA LastWordSaid ==
  ASSUME NEW S, NEW q \in Seq(S), q # <<>>, NEW k, NEW old, q[Len(q)][k] # None
  PROVE  LastWord(q, k, old, q[Len(q)][k])
<1>1. Len(q) \in DOMAIN q /\ \A j \in DOMAIN q : ~(j > Len(q))
  BY LenProperties, EmptySeq
<1> QED BY <1>1 DEF LastWord

-----------------------------------------------------------------------------
(* What the commands under way carry                                       *)

\* A command with joints, wherever it is, says itself whether the arm may follow.
CarriesArming(m) ==
  m.joints # None =>
    /\ m.enabled = TRUE
    /\ m.clutched # None
    /\ m.clutched = FALSE => m.at = "ARMED"

\* The command c is published and folded, and m, with its arming, is what joins the queue.
Joins(c, m) ==
  /\ published' = <<c>> /\ command_state' = Fold(command_state, c)
  /\ m = Stamp(c, state')
  /\ CarriesArming(m)
  /\ c.joints # None => c.mode = "TRACKING"

\* A step of the gateway publishes nothing or one command that carries its arming.
LEMMA PublishesArming ==
  ASSUME TypeOK, OwnedStates, Next
  PROVE  PublishNothing \/ \E c \in Commands, m \in StampedCommands : Joins(c, m)
<1> USE DEF Joins
<1> DEFINE Goal == PublishNothing \/ \E c \in Commands, m \in StampedCommands : Joins(c, m)
<1>0. state' \in SessionState
  BY GatewayOwned DEF TypeOK, FsmTypeOK
<1>1. ASSUME NEW o \in Operators, NEW q \in Seqs, LeaderState(o, q)
      PROVE  Goal
  <2> DEFINE c == Command(TRUE, state = "CLUTCHED", "TRACKING", q)
             m == Stamp(c, state')
  <2>1. (state = "CLUTCHED") \in BOOLEAN
    BY Zenon
  <2>2. c \in Commands /\ m \in StampedCommands
    BY <1>0, <2>1, CommandType, StampType DEF Modes
  <2>3. (state = "CLUTCHED") # None
    BY <2>1, GatewayAssumption, Zenon
  <2>4. (state = "CLUTCHED") = FALSE => state' = "ARMED"
    BY <1>1 DEF LeaderState, is_armed
  <2>5. /\ m.enabled = TRUE /\ m.clutched = (state = "CLUTCHED")
        /\ m.at = state' /\ c.mode = "TRACKING"
    BY DEF Stamp, Command
  <2>6. CarriesArming(m)
    <3>1. m.clutched # None
      BY <2>3, <2>5, Zenon
    <3> QED BY <2>4, <2>5, <3>1 DEF CarriesArming
  <2>7. published' = <<c>> /\ command_state' = Fold(command_state, c)
    BY <1>1 DEF LeaderState, Publish
  <2> HIDE DEF c, m
  <2> QED BY <2>2, <2>5, <2>6, <2>7 DEF m
<1>2. ASSUME NEW enabled, NEW clutched, NEW mode, Publish(Command(enabled, clutched, mode, None))
      PROVE  Goal
  <2> DEFINE c == Command(enabled, clutched, mode, None)
             m == Stamp(c, state')
  <2>1. c.joints = None /\ CarriesArming(m)
    BY DEF Command, Stamp, CarriesArming
  <2>2. published' = <<c>> /\ command_state' = Fold(command_state, c)
    BY <1>2 DEF Publish
  <2>3. c \in Commands
    BY <2>2, GatewayTypeStep DEF Publish, PublishNothing
  <2>4. m \in StampedCommands
    BY <1>0, <2>3, StampType
  <2> HIDE DEF c, m
  <2> QED BY <2>1, <2>2, <2>3, <2>4 DEF m
<1> QED
  BY <1>1, <1>2 DEF Next, Joined, OwnershipMessage, Offer, Estop, Enable, Disable, Clutch, Home,
     Gripper, Tick, WatchdogTimeout

\* The types of the topic and of what is missed, with those of the node.
RobotTypes ==
  /\ topic \in Seq(StampedCommands)
  /\ missed \in {"nothing", "command", "gateway"}
  /\ NodeTypeOK

PacketsCarryArming == \A i \in DOMAIN topic : CarriesArming(topic[i])

\* The newest command under way after an e-stop has no joints; with none under way, none
\* has just moved the arm.
StopIsLast ==
  command_state.mode = "ESTOPPED" =>
    /\ topic # <<>> => topic[Len(topic)].joints = None
    /\ topic = <<>> => driven \in {None, Local}

\* The node's three keys, once it has taken what is under way, are the gateway's.
NodeCatchesUp ==
  missed = "nothing" =>
    /\ LastWord(topic, "enabled", remote_enabled, command_state.enabled)
    /\ LastWord(topic, "clutched", remote_clutched, command_state.clutched)
    /\ LastWord(topic, "mode", remote_mode, command_state.mode)

RobotInv ==
  /\ TypeOK /\ OwnedStates
  /\ RobotTypes
  /\ PacketsCarryArming
  /\ DrivesOnlyArmed
  /\ StopIsLast
  /\ NodeCatchesUp

-----------------------------------------------------------------------------
(* The gateway's steps                                                     *)

\* The topic after a step of the gateway: what was there, and at most one command that
\* carries its arming, without the oldest ones.
LEMMA GatewayQueues ==
  ASSUME RobotInv, Gateway
  PROVE  /\ TypeOK' /\ OwnedStates'
         /\ topic' = KeepLast(Queue)
         /\ Queue \in Seq(StampedCommands)
         /\ \/ PublishNothing /\ Queue = topic
            \/ \E c \in Commands, m \in StampedCommands : Joins(c, m) /\ Queue = Append(topic, m)
<1> USE DEF RobotInv, RobotTypes, Joins
<1>1. TypeOK' /\ OwnedStates'
  BY GatewayTypeKept, GatewayOwned DEF Gateway, TypeOK
<1>2. topic' = KeepLast(Queue)
  BY DEF Gateway, Queue
<1>3. state' \in SessionState
  BY <1>1 DEF TypeOK, FsmTypeOK
<1>4. CASE PublishNothing
  BY <1>1, <1>2, <1>4, NothingQueues
<1>5. CASE ~PublishNothing
  <2>1. PICK c \in Commands, m \in StampedCommands : Joins(c, m)
    BY <1>5, PublishesArming DEF Gateway
  <2>2. Queue = Append(topic, m) /\ Queue \in Seq(StampedCommands)
    BY <1>3, <2>1, PublishQueues, AppendProperties
  <2> QED BY <1>1, <1>2, <2>1, <2>2
<1> QED BY <1>4, <1>5

LEMMA GatewayKeepsRobotTypes ==
  ASSUME RobotInv, Gateway
  PROVE  RobotTypes'
<1>1. topic' \in Seq(StampedCommands)
  BY GatewayQueues, KeepLastKeepsTail
<1>2. missed' \in {"nothing", "command", "gateway"}
  BY DEF RobotInv, RobotTypes, Gateway
<1>3. NodeTypeOK'
  BY DEF RobotInv, RobotTypes, Gateway, NodeTypeOK, Node!NodeTypeOK, Node!HOLD_MODES
<1> QED BY <1>1, <1>2, <1>3 DEF RobotTypes

LEMMA GatewayKeepsArming ==
  ASSUME RobotInv, Gateway
  PROVE  PacketsCarryArming' /\ DrivesOnlyArmed'
<1>1. Queue \in Seq(StampedCommands) /\ topic' = KeepLast(Queue)
  BY GatewayQueues
<1>2. \A i \in 1..Len(Queue) : CarriesArming(Queue[i])
  <2>1. \A i \in 1..Len(topic) : CarriesArming(topic[i])
    BY LenProperties DEF RobotInv, RobotTypes, PacketsCarryArming
  <2>2. CASE Queue = topic
    BY <2>1, <2>2
  <2>3. CASE Queue # topic
    <3>1. PICK c \in Commands, m \in StampedCommands : Joins(c, m) /\ Queue = Append(topic, m)
      BY <2>3, GatewayQueues DEF Joins
    <3>2. /\ Len(topic) \in Nat /\ Len(Queue) = Len(topic) + 1
          /\ \A i \in 1..Len(topic) : Queue[i] = topic[i]
          /\ Queue[Len(topic) + 1] = m
      BY <3>1, AppendProperties, LenProperties DEF Joins, RobotInv, RobotTypes
    <3>3. CarriesArming(m)
      BY <3>1 DEF Joins
    <3> QED BY <2>1, <3>2, <3>3
  <2> QED BY <2>2, <2>3
<1>3. PICK d \in Nat : /\ Len(Queue) = Len(topic') + d
                       /\ \A i \in 1..Len(topic') : topic'[i] = Queue[i + d]
  BY <1>1, KeepLastKeepsTail
<1>4. Len(topic') \in Nat /\ DOMAIN topic' = 1..Len(topic')
  BY <1>1, KeepLastKeepsTail, LenProperties
<1>5. \A i \in DOMAIN topic' : CarriesArming(topic'[i])
  BY <1>2, <1>3, <1>4
<1>6. PacketsCarryArming'
  BY <1>5 DEF PacketsCarryArming, CarriesArming
<1>7. DrivesOnlyArmed'
  BY DEF Gateway, DrivesOnlyArmed
<1> QED BY <1>6, <1>7

\* The newest command survives whatever the topic drops.
LEMMA GatewayKeepsNewest ==
  ASSUME RobotInv, Gateway
  PROVE  /\ topic' \in Seq(StampedCommands)
         /\ Queue = <<>> => topic' = <<>>
         /\ Queue # <<>> => topic' # <<>> /\ topic'[Len(topic')] = Queue[Len(Queue)]
<1>1. Queue \in Seq(StampedCommands) /\ topic' = KeepLast(Queue)
  BY GatewayQueues
<1>2. topic' \in Seq(StampedCommands) /\ (Queue # <<>> => topic' # <<>>)
  BY <1>1, KeepLastKeepsTail
<1>3. PICK d \in Nat : /\ Len(Queue) = Len(topic') + d
                       /\ \A i \in 1..Len(topic') : topic'[i] = Queue[i + d]
  BY <1>1, KeepLastKeepsTail
<1>4. /\ Len(topic') \in Nat /\ Len(Queue) \in Nat
      /\ topic' = <<>> <=> Len(topic') = 0
      /\ Queue = <<>> <=> Len(Queue) = 0
  BY <1>1, <1>2, LenProperties, EmptySeq
<1>5. Queue = <<>> => topic' = <<>>
  BY <1>3, <1>4
<1>6. Queue # <<>> => topic'[Len(topic')] = Queue[Len(Queue)]
  BY <1>2, <1>3, <1>4
<1> QED BY <1>2, <1>5, <1>6

LEMMA GatewayKeepsStopLast ==
  ASSUME RobotInv, Gateway
  PROVE  StopIsLast'
<1>1. driven' = None
  BY DEF Gateway
<1>2. CASE PublishNothing /\ Queue = topic
  BY <1>1, <1>2, GatewayKeepsNewest DEF StopIsLast, RobotInv, PublishNothing
<1>3. CASE ~(PublishNothing /\ Queue = topic)
  <2>1. PICK c \in Commands, m \in StampedCommands : Joins(c, m) /\ Queue = Append(topic, m)
    BY <1>3, GatewayQueues DEF Joins
  <2>2. Queue # <<>> /\ Queue[Len(Queue)] = m
    BY <2>1, AppendProperties DEF RobotInv, RobotTypes
  <2>3. m.joints = c.joints
    BY <2>1 DEF Joins, Stamp
  <2>4. c.joints # None => command_state'.mode = "TRACKING"
    BY <2>1, GatewayAssumption DEF Joins, Fold, Or, Modes
  <2> QED BY <1>1, <2>2, <2>3, <2>4, GatewayKeepsNewest DEF StopIsLast
<1> QED BY <1>2, <1>3

LEMMA GatewayKeepsCatchingUp ==
  ASSUME RobotInv, Gateway
  PROVE  NodeCatchesUp'
<1> SUFFICES ASSUME missed' = "nothing"
             PROVE  NodeCatchesUp'
  BY DEF NodeCatchesUp
<1>1. UNCHANGED <<remote_enabled, remote_clutched, remote_mode>>
  BY DEF Gateway
<1>2. topic \in Seq(StampedCommands) /\ Queue \in Seq(StampedCommands) /\ topic' = KeepLast(Queue)
  BY GatewayQueues DEF RobotInv, RobotTypes
<1>3. CASE \E i \in DOMAIN published' : Complete(published'[i])
  <2>1. PICK c \in Commands, m \in StampedCommands : Joins(c, m) /\ Queue = Append(topic, m)
    BY <1>3, GatewayQueues DEF Joins, PublishNothing
  <2>2. Complete(c)
    BY <1>3, <2>1 DEF Joins
  <2>3. /\ m.enabled # None /\ command_state'.enabled = m.enabled
        /\ m.clutched # None /\ command_state'.clutched = m.clutched
        /\ m.mode # None /\ command_state'.mode = m.mode
    BY <2>1, <2>2 DEF Joins, Stamp, Complete, Fold, Or
  <2>4. topic' \in Seq(StampedCommands) /\ topic' # <<>> /\ topic'[Len(topic')] = m
    BY <2>1, GatewayKeepsNewest, AppendProperties, <1>2
  <2>5. ASSUME NEW k, m[k] # None
        PROVE  \A old : LastWord(topic', k, old, m[k])
    BY <2>4, <2>5, LastWordSaid
  <2> QED BY <2>3, <2>5 DEF NodeCatchesUp
<1>4. CASE ~\E i \in DOMAIN published' : Complete(published'[i])
  <2>1. missed = "nothing" /\ ~(Len(Queue) > Depth)
    BY <1>4 DEF Gateway, Queue
  <2>2. topic' = Queue
    BY <1>2, <2>1, KeepLastKeepsTail, LenProperties, RobotAssumption
  <2>3. /\ LastWord(topic, "enabled", remote_enabled, command_state.enabled)
        /\ LastWord(topic, "clutched", remote_clutched, command_state.clutched)
        /\ LastWord(topic, "mode", remote_mode, command_state.mode)
    BY <2>1 DEF RobotInv, NodeCatchesUp
  <2>4. CASE PublishNothing /\ Queue = topic
    BY <1>1, <2>2, <2>3, <2>4 DEF PublishNothing, NodeCatchesUp
  <2>5. CASE ~(PublishNothing /\ Queue = topic)
    <3>1. PICK c \in Commands, m \in StampedCommands : Joins(c, m) /\ Queue = Append(topic, m)
      BY <2>5, GatewayQueues DEF Joins
    <3>2. /\ command_state'.enabled = IF m.enabled = None THEN command_state.enabled ELSE m.enabled
          /\ command_state'.clutched = IF m.clutched = None THEN command_state.clutched ELSE m.clutched
          /\ command_state'.mode = IF m.mode = None THEN command_state.mode ELSE m.mode
      BY <3>1 DEF Joins, Stamp, Fold, Or
    <3>3. \A k, old, new : LastWord(topic, k, old, new)
                            => LastWord(topic', k, old, IF m[k] = None THEN new ELSE m[k])
      BY <1>2, <2>2, <3>1, LastWordAppend
    <3> QED BY <1>1, <2>3, <3>2, <3>3 DEF NodeCatchesUp
  <2> QED BY <2>4, <2>5
<1> QED BY <1>3, <1>4

\* A step of the gateway keeps all of it.
LEMMA GatewayKeepsRobotInv ==
  ASSUME RobotInv, Gateway
  PROVE  RobotInv'
  BY GatewayQueues, GatewayKeepsRobotTypes, GatewayKeepsArming, GatewayKeepsStopLast,
     GatewayKeepsCatchingUp DEF RobotInv

-----------------------------------------------------------------------------
(* The other steps                                                         *)

\* A new gateway is in a typed state that nobody owns; the commands of the old one are
\* still what they were.
LEMMA RestartKeepsRobotInv ==
  ASSUME RobotInv, GatewayRestart
  PROVE  RobotInv'
<1> USE DEF RobotInv, GatewayRestart
<1>1. TypeOK' /\ OwnedStates'
  <2>1. FsmTypeOK' /\ OwnedStates'
    BY DEF FsmTypeOK, SessionState, OwnedStates
  <2>2. command_state' \in CommandStates
    BY DEF CommandStates, Modes
  <2>3. age' = None /\ tripped' = FALSE
    BY DEF disarm
  <2> QED BY <2>1, <2>2, <2>3 DEF TypeOK
<1>2. RobotTypes' /\ PacketsCarryArming' /\ DrivesOnlyArmed'
  BY DEF RobotTypes, NodeTypeOK, Node!NodeTypeOK, Node!HOLD_MODES, PacketsCarryArming,
     CarriesArming, DrivesOnlyArmed
<1>3. StopIsLast' /\ NodeCatchesUp'
  BY DEF StopIsLast, NodeCatchesUp
<1> QED BY <1>1, <1>2, <1>3

\* What is idle at the gateway stays as it was.
LEMMA NodeStepKeepsGateway ==
  ASSUME RobotInv, GatewayIdle
  PROVE  TypeOK' /\ OwnedStates'
  BY DEF RobotInv, GatewayIdle, PublishNothing, TypeOK, FsmTypeOK, OwnedStates

LEMMA TakingKeepsRobotInv ==
  ASSUME RobotInv, NodeTakes
  PROVE  RobotInv'
<1> DEFINE command == Head(topic)
<1>0. GatewayIdle /\ topic \in Seq(StampedCommands) /\ topic # <<>> /\ topic' = Tail(topic)
  BY DEF NodeTakes, RobotInv, RobotTypes, Node!RemoteCommand
<1>1. /\ Len(topic) \in Nat \ {0} /\ DOMAIN topic = 1..Len(topic)
      /\ topic' \in Seq(StampedCommands)
      /\ Len(topic') = Len(topic) - 1 /\ DOMAIN topic' = 1..(Len(topic) - 1)
      /\ \A i \in 1..(Len(topic) - 1) : topic'[i] = topic[i + 1]
      /\ command = topic[1] /\ command \in StampedCommands
  BY <1>0, HeadTailProperties, LenProperties, EmptySeq
<1>2. /\ remote_enabled' = IF command.enabled = None THEN remote_enabled ELSE command.enabled
      /\ remote_clutched' = IF command.clutched = None THEN remote_clutched ELSE command.clutched
      /\ remote_mode' = IF command.mode = None THEN remote_mode ELSE command.mode
      /\ \/ driven' = None
         \/ driven' = command /\ command.joints # None /\ remote_enabled' /\ ~remote_clutched'
  BY DEF NodeTakes, Node!RemoteCommand, Node!Key, Node!Mode, Node!Holds, Node!DriveAndReport
<1>3. UNCHANGED <<command_state, missed>>
  BY <1>0 DEF GatewayIdle, PublishNothing
<1> HIDE DEF command
<1>4. CarriesArming(command) /\ PacketsCarryArming'
  BY <1>1 DEF RobotInv, PacketsCarryArming, CarriesArming
<1>5. RobotTypes'
  <2>1. /\ command.enabled \in BOOLEAN \cup {None}
        /\ command.clutched \in BOOLEAN \cup {None}
        /\ command.mode \in Modes \cup {None}
    BY <1>1 DEF StampedCommands
  <2>2. NodeTypeOK'
    BY <1>2, <2>1 DEF RobotInv, RobotTypes, NodeTypeOK, Node!NodeTypeOK, Node!HOLD_MODES, Modes
  <2> QED BY <1>1, <1>3, <2>2 DEF RobotInv, RobotTypes
<1>6. DrivesOnlyArmed'
  <2>1. CASE driven' = None
    BY <2>1 DEF DrivesOnlyArmed
  <2>2. CASE driven' = command /\ command.joints # None /\ remote_enabled' /\ ~remote_clutched'
    <3>1. command.clutched \in BOOLEAN
      BY <1>1, <1>4, <2>2 DEF CarriesArming, StampedCommands
    <3>2. command.clutched # None
      BY <1>4, <2>2 DEF CarriesArming
    <3>3. command.clutched = FALSE
      BY <1>2, <2>2, <3>1, <3>2
    <3> QED BY <1>4, <2>2, <3>3 DEF CarriesArming, DrivesOnlyArmed
  <2> QED BY <1>2, <2>1, <2>2
<1>7. StopIsLast'
  <2> SUFFICES ASSUME command_state.mode = "ESTOPPED"
               PROVE  /\ topic' # <<>> => topic'[Len(topic')].joints = None
                      /\ topic' = <<>> => driven' \in {None, Local}
    BY <1>3 DEF StopIsLast
  <2>1. topic[Len(topic)].joints = None
    BY <1>0 DEF RobotInv, StopIsLast
  <2>2. topic' = <<>> <=> Len(topic) = 1
    BY <1>1, EmptySeq
  <2> QED BY <1>1, <1>2, <2>1, <2>2
<1>8. NodeCatchesUp'
  <2> SUFFICES ASSUME missed = "nothing"
               PROVE  NodeCatchesUp'
    BY <1>3 DEF NodeCatchesUp
  <2>1. \A k, old, new : LastWord(topic, k, old, new)
                          => LastWord(topic', k, IF command[k] = None THEN old ELSE command[k], new)
    BY <1>0, LastWordTail DEF command
  <2> QED BY <1>2, <1>3, <2>1 DEF RobotInv, NodeCatchesUp
<1> QED BY <1>0, <1>4, <1>5, <1>6, <1>7, <1>8, NodeStepKeepsGateway DEF RobotInv

LEMMA LocalKeepsRobotInv ==
  ASSUME RobotInv, NodeLocal
  PROVE  RobotInv'
<1>1. /\ GatewayIdle /\ driven' \in {Local, None}
      /\ UNCHANGED <<topic, remote_enabled, remote_clutched, remote_mode>>
  BY DEF NodeLocal, Node!JointStates, Node!DriveAndReport, Node!remote
<1>2. UNCHANGED <<command_state, missed>>
  BY <1>1 DEF GatewayIdle, PublishNothing
<1> QED
  BY <1>1, <1>2, NodeStepKeepsGateway DEF RobotInv, RobotTypes, NodeTypeOK, Node!NodeTypeOK,
     Node!HOLD_MODES, PacketsCarryArming, DrivesOnlyArmed, StopIsLast, NodeCatchesUp

-----------------------------------------------------------------------------
(* The robot's guarantees                                                  *)

LEMMA RobotInvariant == RobotSpec => []RobotInv
<1>1. RobotInit => RobotInv
  <2> SUFFICES ASSUME RobotInit
               PROVE  RobotInv
    OBVIOUS
  <2>1. /\ topic = <<>> /\ remote_enabled = FALSE /\ remote_clutched = FALSE
        /\ remote_mode = "IDLE" /\ driven = None /\ missed = "nothing"
        /\ command_state = [enabled |-> FALSE, clutched |-> FALSE, mode |-> "IDLE"]
    BY DEF RobotInit, Node!NodeInit, Init
  <2>2. TypeOK /\ OwnedStates
    BY GatewayTypeInit DEF RobotInit
  <2>3. RobotTypes
    BY <2>1, EmptySeq DEF RobotTypes, NodeTypeOK, Node!NodeTypeOK, Node!HOLD_MODES
  <2>4. PacketsCarryArming /\ DrivesOnlyArmed /\ StopIsLast
    BY <2>1 DEF PacketsCarryArming, DrivesOnlyArmed, StopIsLast
  <2>5. NodeCatchesUp
    <3>1. DOMAIN topic = {}
      BY <2>1
    <3>2. \A k, v : LastWord(topic, k, v, v)
      BY <3>1 DEF LastWord
    <3>3. /\ command_state.enabled = remote_enabled
          /\ command_state.clutched = remote_clutched
          /\ command_state.mode = remote_mode
      BY <2>1
    <3> QED BY <3>2, <3>3 DEF NodeCatchesUp
  <2> QED BY <2>2, <2>3, <2>4, <2>5 DEF RobotInv
<1>2. RobotInv /\ [RobotNext]_robotVars => RobotInv'
  <2>1. RobotInv /\ UNCHANGED robotVars => RobotInv'
    BY DEF robotVars, vars, node, RobotInv, TypeOK, FsmTypeOK, OwnedStates, RobotTypes,
       NodeTypeOK, Node!NodeTypeOK, Node!HOLD_MODES, PacketsCarryArming, DrivesOnlyArmed,
       StopIsLast, NodeCatchesUp
  <2> QED
    BY <2>1, GatewayKeepsRobotInv, RestartKeepsRobotInv, TakingKeepsRobotInv, LocalKeepsRobotInv
    DEF RobotNext
<1> QED BY <1>1, <1>2, PTL DEF RobotSpec

\* A null never reaches what the node keeps, whatever the gateway publishes.
THEOREM NodeTypesCorrect == RobotSpec => []NodeTypeOK
<1>1. RobotInv => NodeTypeOK
  BY DEF RobotInv, RobotTypes
<1> QED BY <1>1, RobotInvariant, PTL

\* The arm tracks the remote operator only with packets the gateway accepted while ARMED,
\* however long the topic and whatever it dropped, and also across a restart of the gateway.
THEOREM ArmDrivesOnlyArmed == RobotSpec => []DrivesOnlyArmed
<1>1. RobotInv => DrivesOnlyArmed
  BY DEF RobotInv
<1> QED BY <1>1, RobotInvariant, PTL

\* Once the commands of a stopped gateway have reached the node, no remote packet moves
\* the arm.
THEOREM StoppedArmIsStill == RobotSpec => []RemoteStillWhenStopped
<1>1. RobotInv => RemoteStillWhenStopped
  BY DEF RobotInv, StopIsLast, RemoteStillWhenStopped
<1> QED BY <1>1, RobotInvariant, PTL

\* The node and the gateway fold the same commands into the same state, unless some were
\* lost since the last complete one.
THEOREM FoldsAlwaysAgree == RobotSpec => []FoldsAgree
<1>1. RobotInv => FoldsAgree
  <2> SUFFICES ASSUME RobotInv, topic = <<>>, missed = "nothing"
               PROVE  command_state = [enabled |-> remote_enabled, clutched |-> remote_clutched,
                                       mode |-> remote_mode]
    BY DEF FoldsAgree
  <2>1. /\ command_state.enabled = remote_enabled
        /\ command_state.clutched = remote_clutched
        /\ command_state.mode = remote_mode
    BY DEF RobotInv, NodeCatchesUp, LastWord
  <2>2. command_state \in CommandStates
    BY DEF RobotInv, TypeOK
  <2> QED BY <2>1, <2>2 DEF CommandStates
<1> QED BY <1>1, RobotInvariant, PTL
=============================================================================
