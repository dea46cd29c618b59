--------------------------- MODULE LeaderLinkProofs ---------------------------
(***************************************************************************)
(* Proofs about the follower gateway with the leader gateways that stream  *)
(* to it, for every set of operators and leaders, every packet age and     *)
(* every number of packets under way.  A step of LinkNext is a step of the *)
(* gateway or leaves it alone, so what FollowerGatewayProofs says of a     *)
(* step carries over; FreezeHasCause is about the two together.            *)
(***************************************************************************)
EXTENDS LeaderLink, FollowerGatewayProofs

(* The gateway's invariants                                                *)

\* A step of the link is one step of the gateway, or the gateway publishes nothing and
\* keeps everything.
LEMMA LinkStepsGateway ==
  ASSUME LinkTypeOK, LinkNext
  PROVE  Next \/ GatewayIdle
<1>1. ASSUME NEW l \in Leaders, LeaderConnects(l) \/ PublishState(l) \/ LeaderRestarts(l)
      PROVE  Next \/ GatewayIdle
  BY <1>1 DEF LeaderConnects, PublishState, LeaderRestarts, Next
<1>2. ASSUME NEW p \in flight, Loses(p)
      PROVE  Next \/ GatewayIdle
  BY <1>2 DEF Loses
<1>3. ASSUME NEW p \in flight, Delivers(p)
      PROVE  Next \/ GatewayIdle
  <2>1. p.from \in Operators /\ p.seq \in Seqs
    BY LinkAssumption DEF LinkTypeOK, Packets
  <2> QED BY <1>3, <2>1 DEF Delivers, Next
<1>4. ASSUME NEW o \in Operators, EnableFor(o)
      PROVE  Next \/ GatewayIdle
  BY <1>4 DEF EnableFor, Next
<1>5. CASE Messages
  BY <1>5 DEF Messages, Next
<1>6. CASE TimePasses
  BY <1>6 DEF TimePasses, Next
<1> QED BY <1>1, <1>2, <1>3, <1>4, <1>5, <1>6 DEF LinkNext

\* What the leader gateways and the channel do keeps their variables typed.
LEMMA LinkTypeStep ==
  ASSUME LinkTypeOK, LinkNext
  PROVE  LinkTypeOK'
<1> USE GatewayAssumption, LinkAssumption DEF LinkTypeOK, Packets, Seqs
<1>1. ASSUME NEW l \in Leaders, LeaderConnects(l)
      PROVE  LinkTypeOK'
  BY <1>1 DEF LeaderConnects
<1>2. ASSUME NEW l \in Leaders, PublishState(l)
      PROVE  LinkTypeOK'
  <2>1. seq[l] \in 0..MaxSeq /\ seq[l] < MaxSeq
    BY <1>2 DEF PublishState
  <2>2. seq[l] + 1 \in 1..MaxSeq
    BY <2>1
  <2>3. next_leader_state(l) \in Packets
    BY <2>2 DEF next_leader_state
  <2> QED BY <1>2, <2>2, <2>3 DEF PublishState, Send
<1>3. ASSUME NEW l \in Leaders, LeaderRestarts(l)
      PROVE  LinkTypeOK'
  BY <1>3 DEF LeaderRestarts
<1>4. ASSUME NEW p \in flight, Loses(p) \/ Delivers(p)
      PROVE  LinkTypeOK'
  BY <1>4 DEF Loses, Delivers
<1>5. ASSUME NEW o \in Operators, EnableFor(o)
      PROVE  LinkTypeOK'
  <2>1. Heard(o) \in BOOLEAN
    BY DEF Heard
  <2> QED BY <1>5, <2>1 DEF EnableFor
<1>6. CASE Messages
  BY <1>6 DEF Messages, link
<1>7. CASE TimePasses
  <2>1. flight' \subseteq Packets
    <3>1. ASSUME NEW p \in flight
          PROVE  [p EXCEPT !.age = IF @ > MaxAge THEN @ ELSE @ + 1] \in Packets
      OBVIOUS
    <3> QED BY <1>7, <3>1 DEF TimePasses
  <2>2. troubled' \in BOOLEAN
    BY <1>7 DEF TimePasses
  <2> QED BY <1>7, <2>1, <2>2 DEF TimePasses
<1> QED BY <1>1, <1>2, <1>3, <1>4, <1>5, <1>6, <1>7 DEF LinkNext

\* A step in which nothing happens at the gateway.
LEMMA IdleKeeps ==
  ASSUME TypeOK, OwnedStates, Watched, SeqsBehind, GatewayIdle
  PROVE  TypeOK' /\ OwnedStates' /\ Watched' /\ SeqsBehind'
<1>1. TypeOK'
  BY DEF GatewayIdle, PublishNothing, TypeOK, FsmTypeOK
<1>2. OwnedStates' /\ Watched' /\ SeqsBehind'
  BY DEF GatewayIdle, PublishNothing, OwnedStates, Watched, CommandsMatchState, DriveIsWatched,
     Driving, SeqsBehind, is_armed
<1> QED BY <1>1, <1>2

\* What a step of the gateway keeps, the composed system keeps.
GatewayInv == TypeOK /\ OwnedStates /\ Watched /\ SeqsBehind

LEMMA LinkGatewayInvariant == LinkSpec => [](LinkTypeOK /\ GatewayInv)
<1>1. LinkInit => LinkTypeOK /\ GatewayInv
  <2> SUFFICES ASSUME LinkInit
               PROVE  LinkTypeOK /\ GatewayInv
    OBVIOUS
  <2>1. LinkTypeOK
    BY GatewayAssumption DEF LinkInit, LinkTypeOK
  <2>2. TypeOK
    BY GatewayTypeInit DEF LinkInit
  <2>3. OwnedStates /\ Watched /\ SeqsBehind
    BY DEF LinkInit, Init, FsmInit, OwnedStates, Watched, CommandsMatchState, DriveIsWatched,
       Driving, SeqsBehind
  <2> QED BY <2>1, <2>2, <2>3 DEF GatewayInv
<1>2. LinkTypeOK /\ GatewayInv /\ [LinkNext]_linkVars => LinkTypeOK' /\ GatewayInv'
  <2> SUFFICES ASSUME LinkTypeOK, GatewayInv, [LinkNext]_linkVars
               PROVE  LinkTypeOK' /\ GatewayInv'
    OBVIOUS
  <2> USE DEF GatewayInv
  <2>1. CASE LinkNext
    <3>1. CASE Next
      BY <2>1, <3>1, LinkTypeStep, GatewayTypeKept, GatewayOwned, WatchedStep, SeqsBehindStep DEF TypeOK
    <3>2. CASE GatewayIdle
      BY <2>1, <3>2, LinkTypeStep, IdleKeeps
    <3> QED BY <2>1, <3>1, <3>2, LinkStepsGateway
  <2>2. CASE UNCHANGED linkVars
    BY <2>2 DEF linkVars, link, vars, LinkTypeOK, TypeOK, FsmTypeOK, OwnedStates, Watched,
       CommandsMatchState, DriveIsWatched, Driving, SeqsBehind, is_armed
  <2> QED BY <2>1, <2>2
<1> QED BY <1>1, <1>2, PTL DEF LinkSpec

\* The gateway's own types hold with the leaders around it, and packets are numbered
\* from 1 and never past the last number, through losses and restarts.
THEOREM LinkTypesCorrect == LinkSpec => [](LinkTypeOK /\ TypeOK)
<1>1. GatewayInv => TypeOK
  BY DEF GatewayInv
<1> QED BY <1>1, LinkGatewayInvariant, PTL

\* Whatever the leaders' packets and restarts do, the watchdog runs as long as the last
\* commands let the arm track.
THEOREM LinkDriveWatched == LinkSpec => [](DriveIsWatched /\ CommandsMatchState /\ OwnedStates)
<1>1. GatewayInv => DriveIsWatched /\ CommandsMatchState /\ OwnedStates
  BY DEF GatewayInv, Watched
<1> QED BY <1>1, LinkGatewayInvariant, PTL

\* However the link loses, reorders and delays packets, and with the leader gateways
\* restarted at any time, the numbers of the packets injected between one enable and the
\* next increase strictly.  The numbers of one run are the order of its positions; this
\* says nothing of the packets of an earlier run that are still under way.
THEOREM LinkPacketsNeverReplayed == LinkSpec => NoReplay
<1>1. GatewayIdle => InjectsForward
  BY DEF GatewayIdle, PublishNothing, InjectsForward
<1>2. LinkTypeOK /\ GatewayInv /\ [LinkNext]_linkVars => [InjectsForward]_vars
  BY <1>1, LinkStepsGateway, StepInjectsForward DEF GatewayInv, linkVars
<1> QED BY <1>2, LinkGatewayInvariant, PTL DEF LinkSpec, NoReplay, InjectsForward

\* With the leaders around it, too, no step hands an armed session to another owner.
THEOREM LinkArmingPersonal == LinkSpec => ArmingIsPersonal
<1>1. GatewayIdle => UNCHANGED fsm
  BY DEF GatewayIdle, fsm
<1>2. LinkTypeOK /\ [LinkNext]_linkVars
        => [owner_operator_id' # owner_operator_id
              => state' \notin {"ARMED", "CLUTCHED", "FROZEN"}]_fsm
  BY <1>1, LinkStepsGateway, StepArmsNobodyElse DEF fsm, vars, linkVars
<1> QED BY <1>2, LinkGatewayInvariant, PTL DEF LinkSpec, ArmingIsPersonal

-----------------------------------------------------------------------------
(* The robot freezes for a reason                                          *)

\* A packet that would feed the watchdog of o's session is under way.
FeedUnderWay(o) ==
  \E p \in flight : p.from = o /\ Fresh(p) /\ Accepts(p.seq)

\* What is inductive: while there is no trouble, the owner of an armed session is a
\* leader who is connected, whose next packet will be accepted whatever the order in
\* which his packets arrive, and the watchdog is at most one tick old: if it is, and the
\* owner has published since that tick, a packet that feeds it is under way.
KeepsFeeding ==
  ~troubled /\ is_armed =>
    /\ peers
    /\ owner_operator_id \in Leaders /\ open[owner_operator_id]
    /\ last_seq # None => last_seq <= seq[owner_operator_id]
    /\ \A p \in flight : p.from = owner_operator_id => p.seq <= seq[owner_operator_id]
    /\ age \in {None, 0, 1}
    /\ age = 1 /\ sent[owner_operator_id] => FeedUnderWay(owner_operator_id)

Fed == KeepsFeeding /\ FreezeHasCause

LEMMA FedStep ==
  ASSUME 1 <= Timeout, LinkTypeOK, TypeOK, OwnedStates, Fed, LinkNext
  PROVE  Fed'
<1> USE GatewayAssumption, LinkAssumption
<1> USE DEF Fed, KeepsFeeding, FreezeHasCause, FeedUnderWay, Fresh, Accepts, is_armed
<1>0. seq \in [Leaders -> 0..MaxSeq] /\ flight \subseteq Packets /\ troubled \in BOOLEAN
  BY DEF LinkTypeOK
<1>1. ASSUME NEW l \in Leaders, LeaderConnects(l)
      PROVE  Fed'
  BY <1>0, <1>1 DEF LeaderConnects, Offer, on_peer_connected, Goto, fsm, LinkTypeOK
<1>2. ASSUME NEW l \in Leaders, PublishState(l)
      PROVE  Fed'
  <2> SUFFICES ASSUME ~troubled, is_armed
               PROVE  KeepsFeeding'
    BY <1>2 DEF PublishState, GatewayIdle
  <2> DEFINE new == next_leader_state(l)
  <2>1. /\ UNCHANGED <<state, owner_operator_id, peers, last_seq, age, open, troubled>>
        /\ seq' = [seq EXCEPT ![l] = @ + 1]
        /\ flight' = IF open[l] THEN flight \cup {new} ELSE flight
        /\ sent' = [sent EXCEPT ![l] = TRUE]
    BY <1>2 DEF PublishState, GatewayIdle, Send
  <2>2. new.from = l /\ new.seq = seq[l] + 1 /\ new.age = 0
    BY DEF next_leader_state
  <2>3. seq[l] \in Nat /\ seq'[l] = seq[l] + 1 /\ \A k \in Leaders \ {l} : seq'[k] = seq[k]
    BY <1>0, <2>1
  <2>4. last_seq # None => last_seq \in Nat
    BY DEF TypeOK, Seqs
  <2>5. \A p \in flight' : p.from = owner_operator_id => p.seq <= seq'[owner_operator_id]
    <3>1. \A p \in flight : p.seq \in Nat
      BY <1>0 DEF Packets, Seqs
    <3> QED BY <2>1, <2>2, <2>3, <3>1
  <2>6. last_seq # None => last_seq <= seq'[owner_operator_id]
    BY <2>1, <2>3, <2>4
  <2>7. l = owner_operator_id => FeedUnderWay(l)'
    <3> SUFFICES ASSUME l = owner_operator_id
                 PROVE  FeedUnderWay(l)'
      OBVIOUS
    <3>1. new \in flight' /\ new.age <= MaxAge
      BY <2>1, <2>2
    <3>2. last_seq' # None => new.seq > last_seq'
      BY <2>1, <2>2, <2>3, <2>4
    <3> QED BY <2>2, <3>1, <3>2
  <2>8. l # owner_operator_id /\ FeedUnderWay(owner_operator_id) => FeedUnderWay(owner_operator_id)'
    BY <2>1
  <2>9. sent \in [Leaders -> BOOLEAN]
    BY DEF LinkTypeOK
  <2> QED BY <2>1, <2>5, <2>6, <2>7, <2>8, <2>9
<1>3. ASSUME NEW l \in Leaders, LeaderRestarts(l)
      PROVE  Fed'
  BY <1>3 DEF LeaderRestarts
<1>4. ASSUME NEW p \in flight, Loses(p)
      PROVE  Fed'
  BY <1>4 DEF Loses
<1>5. ASSUME NEW p \in flight, Delivers(p)
      PROVE  Fed'
  <2>1. CASE Acceptable(p)
    <3>1. /\ p.from = owner_operator_id /\ flight' \subseteq flight
          /\ last_seq' = p.seq /\ age' = 0
          /\ UNCHANGED <<state, owner_operator_id, peers, seq, open, sent, troubled>>
      BY <1>5, <2>1 DEF Delivers, Acceptable, LeaderState, FromOwner, feed
    <3> QED BY <3>1
  <2>2. CASE ~Acceptable(p)
    <3>1. GatewayIdle /\ flight' = flight \ {p} /\ UNCHANGED <<seq, open, sent, troubled>>
      BY <1>5, <2>2 DEF Delivers
    <3>2. ~troubled /\ is_armed /\ p.from = owner_operator_id => ~(Fresh(p) /\ Accepts(p.seq))
      BY <2>2 DEF Acceptable, FromOwner, is_estopped, OwnedStates
    <3> QED BY <3>1, <3>2 DEF GatewayIdle
  <2> QED BY <2>1, <2>2
<1>6. ASSUME NEW o \in Operators, EnableFor(o)
      PROVE  Fed'
  <2>1. /\ state' = "ARMED" /\ age' = 0 /\ peers' /\ owner_operator_id = o
        /\ troubled' = ~Heard(o)
        /\ UNCHANGED <<owner_operator_id, last_seq, seq, open, flight, sent>>
    BY <1>6 DEF EnableFor, Enable, FromOwner, on_enable, Goto, feed
  <2>2. ~troubled' => Heard(o)
    BY <2>1, Zenon
  <2> QED BY <2>1, <2>2 DEF Heard
<1>7. CASE Messages
  <2> SUFFICES ASSUME ~troubled
               PROVE  Fed'
    BY <1>7 DEF Messages, link
  <2>1. UNCHANGED link
    BY <1>7 DEF Messages
  <2>2. ASSUME NEW o \in Operators \cup {None}, NEW s \in SessionState, Joined(s, o)
        PROVE  Fed'
    BY <2>2, ServerStatesFacts DEF Joined
  <2>3. ASSUME NEW o \in Operators \cup {None}, OwnershipMessage(o)
        PROVE  Fed'
    BY <2>1, <2>3 DEF OwnershipMessage, on_ownership, StateAfterOwner, link
  <2>4. ASSUME NEW engaged \in BOOLEAN, NEW reset \in BOOLEAN, Estop(engaged, reset)
        PROVE  Fed'
    BY <2>1, <2>4 DEF Estop, on_estop, StateAfterEstop, Goto, is_estopped, Idle, link
  <2>5. ASSUME NEW o \in Operators, Disable(o) \/ Home(o) \/ Gripper(o)
        PROVE  Fed'
    <3>1. Disable(o) => state' = "CLAIMED"
      BY DEF Disable, on_disable, Goto
    <3>2. Home(o) \/ Gripper(o) => UNCHANGED <<state, owner_operator_id, peers, last_seq, age>>
      BY DEF Home, Gripper
    <3> QED BY <2>1, <2>5, <3>1, <3>2 DEF link
  <2>6. ASSUME NEW o \in Operators, NEW engaged \in BOOLEAN, Clutch(o, engaged)
        PROVE  Fed'
    BY <2>1, <2>6 DEF Clutch, on_clutch, Goto, feed, disarm, link
  <2>7. CASE WatchdogTimeout
    <3>1. ~is_armed
      BY <1>0, <2>7 DEF WatchdogTimeout, Expired
    <3> QED BY <2>1, <2>7, <3>1 DEF WatchdogTimeout, on_freeze, fsm, link
  <2> QED BY <1>7, <2>2, <2>3, <2>4, <2>5, <2>6, <2>7 DEF Messages
<1>8. CASE TimePasses
  <2> SUFFICES ASSUME ~troubled, flight = {}, owner_operator_id \in Leaders, sent[owner_operator_id]
               PROVE  Fed'
    BY <1>8 DEF TimePasses
  <2>1. flight' = {} /\ sent' = [l \in Leaders |-> FALSE] /\ UNCHANGED <<seq, open>>
    BY <1>8 DEF TimePasses
  <2>2. UNCHANGED <<state, owner_operator_id, peers, last_seq>>
    BY <1>8 DEF TimePasses, Tick, GatewayIdle
  <2>3. is_armed => age' \in {None, 0, 1}
    BY <1>8 DEF TimePasses, Tick, GatewayIdle
  <2> QED BY <2>1, <2>2, <2>3
<1> QED BY <1>1, <1>2, <1>3, <1>4, <1>5, <1>6, <1>7, <1>8 DEF LinkNext

\* The robot freezes for a reason: a packet lost or late, a leader gateway that was
\* restarted or stopped sending, or an owner without one.  It takes a timeout of at
\* least one poll of the watchdog.
THEOREM FreezesForAReason ==
  ASSUME 1 <= Timeout
  PROVE  LinkSpec => []FreezeHasCause
<1>1. LinkInit => Fed
  BY DEF LinkInit, Init, FsmInit, Fed, KeepsFeeding, FreezeHasCause
<1>2. LinkTypeOK /\ GatewayInv /\ Fed /\ [LinkNext]_linkVars => Fed'
  <2>1. Fed /\ UNCHANGED linkVars => Fed'
    BY DEF linkVars, link, vars, Fed, KeepsFeeding, FreezeHasCause, FeedUnderWay, Fresh, Accepts, is_armed
  <2> QED BY <2>1, FedStep DEF GatewayInv
<1>3. Fed => FreezeHasCause
  BY DEF Fed
<1> QED BY <1>1, <1>2, <1>3, LinkGatewayInvariant, PTL DEF LinkSpec
=============================================================================
