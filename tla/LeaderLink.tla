----------------------------- MODULE LeaderLink -----------------------------
(***************************************************************************)
(* The follower gateway with the leader gateways that stream teleop.leader_*)
(* state to it over the unordered channel teleop-state (maxRetransmits 0): *)
(* packets are lost, overtake each other and grow old, and a leader gateway*)
(* that is restarted counts from 1 again.                                  *)
(*                                                                         *)
(* A leader gateway streams whoever owns the session; it never looks at    *)
(* teleop.ownership or at the telemetry it receives, so neither is here.   *)
(***************************************************************************)
EXTENDS FollowerGateway, FiniteSets

CONSTANTS
  Leaders,     \* the operators at a leader arm: TELEOP_OPERATOR_ID of each gateway
  MaxAge,      \* MAX_PACKET_AGE_S in ticks
  MaxFlight    \* bound: packets under way at a time

ASSUME LinkAssumption ==
  /\ Leaders \subseteq Operators
  /\ MaxAge \in Nat /\ MaxFlight \in Nat

VARIABLES
  seq,        \* publisher._seq of each leader gateway
  open,       \* its teleop-state channel is open
  flight,     \* packets under way, in no order
  sent,       \* it has published since the last tick
  troubled    \* history: a reason for the watchdog to trip since the last enable

link == <<seq, open, flight, sent, troubled>>
linkVars == <<vars, link>>

Packets == [from : Leaders, seq : Seqs, age : 0..(MaxAge + 1)]

LinkInit ==
  /\ Init
  /\ seq = [l \in Leaders |-> 0]
  /\ open = [l \in Leaders |-> FALSE]
  /\ flight = {}
  /\ sent = [l \in Leaders |-> FALSE]
  /\ troubled = TRUE

\* Nothing happens at the follower gateway.
GatewayIdle ==
  /\ PublishNothing
  /\ UNCHANGED <<state, owner_operator_id, joined, peers, age, tripped, last_seq, applied, seq_from>>

-----------------------------------------------------------------------------
(* The leader gateways                                                     *)

\* The gateway's answer to l's offer has arrived and the channels are open.
LeaderConnects(l) ==
  /\ ~open[l]
  /\ Offer
  /\ open' = [open EXCEPT ![l] = TRUE]
  /\ UNCHANGED <<seq, flight, sent, troubled>>

\* Variant: the number is read before it is incremented.
next_leader_state_late(l) == [from |-> l, seq |-> seq[l], age |-> 0]

next_leader_state(l) == [from |-> l, seq |-> seq[l] + 1, age |-> 0]

\* The messenger drops p if its channel is not open.
Send(l, p) == flight' = IF open[l] THEN flight \cup {p} ELSE flight

\* One round of _publish_loop: the number is used up whether or not the packet is sent.
PublishState(l) ==
  /\ seq[l] < MaxSeq
  /\ Cardinality(flight) < MaxFlight
  /\ seq' = [seq EXCEPT ![l] = @ + 1]
  /\ sent' = [sent EXCEPT ![l] = TRUE]
  /\ Send(l, next_leader_state(l))
  /\ GatewayIdle
  /\ UNCHANGED <<open, troubled>>

\* The process ends and starts again; what it sent is still under way.
LeaderRestarts(l) ==
  /\ open[l]
  /\ seq' = [seq EXCEPT ![l] = 0]
  /\ open' = [open EXCEPT ![l] = FALSE]
  /\ sent' = [sent EXCEPT ![l] = FALSE]
  /\ troubled' = TRUE
  /\ GatewayIdle
  /\ UNCHANGED flight

-----------------------------------------------------------------------------
(* The channel                                                             *)

Loses(p) ==
  /\ flight' = flight \ {p}
  /\ troubled' = TRUE
  /\ GatewayIdle
  /\ UNCHANGED <<seq, open, sent>>

\* is_stale, by one clock.
Fresh(p) == p.age <= MaxAge

Acceptable(p) == Fresh(p) /\ FromOwner(p.from) /\ is_armed /\ Accepts(p.seq)

\* _on_peer_message: accepted, or refused with a teleop.error.
Delivers(p) ==
  /\ flight' = flight \ {p}
  /\ IF Acceptable(p) THEN LeaderState(p.from, p.seq) ELSE GatewayIdle
  /\ UNCHANGED <<seq, open, sent, troubled>>

-----------------------------------------------------------------------------
(* The follower gateway's other steps, and time                            *)

\* With l's channel open and no packet of an earlier run of it accepted or under way,
\* an enabled session has no reason to freeze yet.
Heard(l) ==
  /\ l \in Leaders /\ open[l]
  /\ last_seq = None \/ last_seq <= seq[l]
  /\ \A p \in flight : p.seq <= seq[p.from]

EnableFor(o) ==
  /\ Enable(o)
  /\ troubled' = ~Heard(o)
  /\ UNCHANGED <<seq, open, flight, sent>>

\* The other messages of the server and the operators' browsers.
Messages ==
  /\ \/ \E o \in Operators \cup {None}, s \in SessionState : Joined(s, o)
     \/ \E o \in Operators \cup {None} : OwnershipMessage(o)
     \/ \E engaged, reset \in BOOLEAN : Estop(engaged, reset)
     \/ \E o \in Operators : Disable(o) \/ Home(o) \/ Gripper(o)
     \/ \E o \in Operators, engaged \in BOOLEAN : Clutch(o, engaged)
     \/ WatchdogTimeout
  /\ UNCHANGED link

\* Time passes for the watchdog and for the packets under way.  A leader that has not
\* published, or a packet that takes longer than a tick, is a reason to freeze.
TimePasses ==
  /\ \/ Tick
     \/ (age = None \/ (Expired /\ tripped)) /\ GatewayIdle
  /\ flight' = {[p EXCEPT !.age = IF @ > MaxAge THEN @ ELSE @ + 1] : p \in flight}
  /\ sent' = [l \in Leaders |-> FALSE]
  /\ troubled' = (troubled \/ flight # {} \/ owner_operator_id \notin Leaders \/ ~sent[owner_operator_id])
  /\ UNCHANGED <<seq, open>>

LinkNext ==
  \/ \E l \in Leaders : LeaderConnects(l) \/ PublishState(l) \/ LeaderRestarts(l)
  \/ \E p \in flight : Loses(p) \/ Delivers(p)
  \/ \E o \in Operators : EnableFor(o)
  \/ Messages
  \/ TimePasses

LinkSpec == LinkInit /\ [][LinkNext]_linkVars

-----------------------------------------------------------------------------
(* Properties                                                              *)

\* Every variable of the link has its type; in particular, packets are numbered from 1.
LinkTypeOK ==
  /\ seq \in [Leaders -> 0..MaxSeq]
  /\ open \in [Leaders -> BOOLEAN]
  /\ flight \subseteq Packets
  /\ sent \in [Leaders -> BOOLEAN]
  /\ troubled \in BOOLEAN

\* The robot freezes for a reason: as long as its owner's leader gateway keeps sending
\* over a link that delivers in time, in whatever order, the packets it sends feed the
\* watchdog, through clutching, gripper commands and changes of owner.
FreezeHasCause == state = "FROZEN" => troubled
=============================================================================
