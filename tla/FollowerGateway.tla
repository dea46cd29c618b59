-------------------------- MODULE FollowerGateway --------------------------
(***************************************************************************)
(* The follower gateway: the messages it takes from the signaling server   *)
(* and from its WebRTC peers, the checks of the command handler, the       *)
(* packet watchdog, and the commands it publishes for follower.py.         *)
(*                                                                         *)
(* One asyncio thread; no handler of a peer message, an ownership or an    *)
(* e-stop suspends before it is done, so each is one step.  A message that *)
(* is refused (wrong protocol version, not the owner, wrong state, stale,  *)
(* replayed) changes nothing, so refusals are the steps not taken here.    *)
(***************************************************************************)
EXTENDS Naturals, TeleopStateMachine

CONSTANTS
  Timeout,     \* PACKET_TIMEOUT_S in ticks; a tick is a poll of the watchdog
  MaxSeq,      \* leader_state sequence numbers are 1..MaxSeq
  Reconnects   \* TRUE: the websocket to the signaling server may be lost and
               \* session.joined arrive again

Modes == {"IDLE", "TRACKING", "HOMING", "FROZEN", "ESTOPPED"}

ASSUME GatewayAssumption ==
  /\ Timeout \in Nat
  /\ MaxSeq \in Nat
  /\ Reconnects \in BOOLEAN
  /\ None \notin BOOLEAN /\ None \notin Modes /\ None \notin Nat

VARIABLES
  joined,         \* a session.joined has arrived
  peers,          \* an offer has been answered, so peer messages may arrive
  age,            \* watchdog: ticks since the last feed(), None when disarmed
  tripped,        \* watchdog: _tripped
  last_seq,       \* _leader_seq.last_seq
  command_state,  \* the ROS backend's _command_state
  published,      \* the commands the last step published
  applied,        \* history: the leader packets injected since the last enable
  seq_from        \* history: whose packet last_seq was accepted from

gateway == <<joined, peers, age, tripped, last_seq, command_state, published, applied, seq_from>>
vars == <<state, owner_operator_id, joined, peers, age, tripped, last_seq,
          command_state, published, applied, seq_from>>

Seqs == 1..MaxSeq
\* An injected command: a key that is missing or null is None.  joints stands for
\* leader_jointstates, by the seq of the packet they came in.  The keys follower.py
\* does not read (estopped, gripper, gripper_command) are left out.
Commands == [enabled : BOOLEAN \cup {None}, clutched : BOOLEAN \cup {None},
             mode : Modes \cup {None}, joints : Seqs \cup {None}]
CommandStates == [enabled : BOOLEAN, clutched : BOOLEAN, mode : Modes]

Command(enabled, clutched, mode, joints) ==
  [enabled |-> enabled, clutched |-> clutched, mode |-> mode, joints |-> joints]

\* Variant: null is folded like a value.
OrNull(new, old) == new

\* publish_injected_command folds the keys that are there into _command_state.
Or(new, old) == IF new = None THEN old ELSE new
Fold(cs, c) ==
  [enabled |-> Or(c.enabled, cs.enabled),
   clutched |-> Or(c.clutched, cs.clutched),
   mode |-> Or(c.mode, cs.mode)]

Publish(c) ==
  /\ published' = <<c>>
  /\ command_state' = Fold(command_state, c)

PublishNothing == published' = <<>> /\ UNCHANGED command_state

\* Variant: feeding does not clear the trip.
FeedTripped == age' = 0 /\ UNCHANGED tripped

feed == age' = 0 /\ tripped' = FALSE
disarm == age' = None /\ tripped' = FALSE

Init ==
  /\ FsmInit
  /\ joined = FALSE
  /\ peers = FALSE
  /\ age = None
  /\ tripped = FALSE
  /\ last_seq = None
  /\ command_state = [enabled |-> FALSE, clutched |-> FALSE, mode |-> "IDLE"]
  /\ published = <<>>
  /\ applied = {}
  /\ seq_from = None

-----------------------------------------------------------------------------
(* Signaling messages                                                      *)

\* The state the server tells a follower that joins: with a follower among its
\* participants it is never DISCONNECTED.
ServerStates(o) == {"ESTOPPED", IF o = None THEN "CONNECTED" ELSE "CLAIMED"}
                     \cup (IF o = None THEN {"READY"} ELSE {})

\* session.joined overwrites the owner and the state, whatever they were.
Joined(s, o) ==
  /\ ~joined \/ Reconnects
  /\ s \in ServerStates(o)
  /\ joined' = TRUE
  /\ state' = s
  /\ owner_operator_id' = o
  /\ PublishNothing
  /\ UNCHANGED <<peers, age, tripped, last_seq, applied, seq_from>>

OwnershipMessage(o) ==
  /\ joined
  /\ on_ownership(o)
  /\ PublishNothing
  /\ UNCHANGED <<joined, peers, age, tripped, last_seq, applied, seq_from>>

\* _handle_offer, as far as its answer.
Offer ==
  /\ joined
  /\ on_peer_connected
  /\ peers' = TRUE
  /\ PublishNothing
  /\ UNCHANGED <<joined, age, tripped, last_seq, applied, seq_from>>

-----------------------------------------------------------------------------
(* Commands.  The e-stop comes from either side, the rest from the peers.  *)

Estop(engaged, reset) ==
  /\ joined
  /\ on_estop(engaged, reset)
  /\ Publish(Command(is_armed', state' = "CLUTCHED", IF is_estopped' THEN "ESTOPPED" ELSE None, None))
  /\ last_seq' = IF is_estopped' THEN None ELSE last_seq
  /\ seq_from' = IF is_estopped' THEN None ELSE seq_from
  /\ UNCHANGED <<joined, peers, age, tripped, applied>>

\* _validate_owner, on a message of a peer.
FromOwner(o) == peers /\ ~is_estopped /\ o = owner_operator_id /\ owner_operator_id # None

Enable(o) ==
  /\ FromOwner(o)
  /\ on_enable
  /\ Publish(Command(TRUE, FALSE, "TRACKING", None))
  /\ feed
  /\ applied' = {}
  /\ UNCHANGED <<joined, peers, last_seq, seq_from>>

Disable(o) ==
  /\ FromOwner(o)
  /\ on_disable
  /\ last_seq' = None
  /\ seq_from' = None
  /\ Publish(Command(FALSE, FALSE, "IDLE", None))
  /\ disarm
  /\ UNCHANGED <<joined, peers, applied>>

Clutch(o, engaged) ==
  /\ FromOwner(o)
  /\ on_clutch(engaged)
  /\ Publish(Command(TRUE, engaged, "TRACKING", None))
  /\ IF engaged THEN disarm ELSE feed
  /\ UNCHANGED <<joined, peers, last_seq, applied, seq_from>>

Home(o) ==
  /\ FromOwner(o)
  /\ ~is_armed
  /\ Publish(Command(None, None, "HOMING", None))
  /\ UNCHANGED <<state, owner_operator_id, joined, peers, age, tripped, last_seq, applied, seq_from>>

Gripper(o) ==
  /\ FromOwner(o)
  /\ is_armed
  /\ Publish(Command(None, None, None, None))
  /\ UNCHANGED <<state, owner_operator_id, joined, peers, age, tripped, last_seq, applied, seq_from>>

\* Variant: not below the last accepted.
AcceptsAgain(q) == last_seq # None => q >= last_seq

\* SequenceTracker.accept: strictly greater than the last accepted.
Accepts(q) == last_seq # None => q > last_seq

\* A leader_state that is fresh by the two machines' clocks.
LeaderState(o, q) ==
  /\ FromOwner(o)
  /\ is_armed
  /\ Accepts(q)
  /\ last_seq' = q
  /\ seq_from' = o
  /\ applied' = applied \cup {q}
  /\ Publish(Command(TRUE, state = "CLUTCHED", "TRACKING", q))
  /\ feed
  /\ UNCHANGED <<state, owner_operator_id, joined, peers>>

-----------------------------------------------------------------------------
(* Time and the watchdog                                                   *)

\* Variant: the age reaches the timeout.
ExpiredEarly == age # None /\ age >= Timeout

Expired == age # None /\ age > Timeout

\* One poll interval passes; age stops counting at Timeout + 1.  The poll that is
\* due has run before the next interval is over.
Tick ==
  /\ age # None
  /\ ~Expired
  /\ age' = age + 1
  /\ PublishNothing
  /\ UNCHANGED <<state, owner_operator_id, joined, peers, tripped, last_seq, applied, seq_from>>

\* The poll that finds the watchdog newly tripped: _on_watchdog_timeout.
WatchdogTimeout ==
  /\ Expired
  /\ ~tripped
  /\ tripped' = TRUE
  /\ on_freeze
  /\ Publish(Command(FALSE, None, "FROZEN", None))
  /\ UNCHANGED <<joined, peers, age, last_seq, applied, seq_from>>

-----------------------------------------------------------------------------
Next ==
  \/ \E o \in Operators \cup {None}, s \in SessionState : Joined(s, o)
  \/ \E o \in Operators \cup {None} : OwnershipMessage(o)
  \/ Offer
  \/ \E engaged, reset \in BOOLEAN : Estop(engaged, reset)
  \/ \E o \in Operators : Enable(o) \/ Disable(o) \/ Home(o) \/ Gripper(o)
  \/ \E o \in Operators, engaged \in BOOLEAN : Clutch(o, engaged)
  \/ \E o \in Operators, q \in Seqs : LeaderState(o, q)
  \/ Tick
  \/ WatchdogTimeout

Spec == Init /\ [][Next]_vars

-----------------------------------------------------------------------------
(* Properties                                                              *)

\* Every variable has its type.
TypeOK ==
  /\ FsmTypeOK
  /\ joined \in BOOLEAN
  /\ peers \in BOOLEAN
  /\ age \in 0..(Timeout + 1) \cup {None}
  /\ tripped \in BOOLEAN
  /\ last_seq \in Seqs \cup {None}
  /\ command_state \in CommandStates
  /\ published \in {<<>>} \cup {<<c>> : c \in Commands}
  /\ applied \subseteq Seqs
  /\ seq_from \in Operators \cup {None}

\* The commands published so far let follower.py track leader packets.
Driving == command_state.enabled /\ ~command_state.clutched /\ command_state.mode = "TRACKING"

\* The robot is never left enabled with nobody watching: however the gateway left the
\* armed state (release, loss of ownership, a reconnect to the signaling server, an
\* e-stop), as long as the last commands let the arm track, the watchdog is running
\* and will disable it within Timeout + 1 ticks of the last accepted packet.
DriveIsWatched == Driving => age # None /\ ~tripped

\* The state machine and the commands agree: armed means tracking, clutched means
\* enabled but held, and frozen means disabled, whatever path led there.
CommandsMatchState ==
  /\ state = "ARMED" => Driving
  /\ state = "CLUTCHED" => command_state.enabled /\ command_state.clutched
  /\ state = "FROZEN" => ~command_state.enabled

\* Between one enable and the next leader packets are injected in the order of their
\* sequence numbers and no number twice, whatever the channel does to them and even though
\* disable and e-stop forget the last number.  As long as one run of the leader gateway
\* numbers them, the arm is not sent back to an older position; a packet that an earlier
\* run has left under way may have a higher number, and come after a newer one.
NoReplay ==
  [][\A q \in applied : \A i \in DOMAIN published' :
       published'[i].joints # None => q < published'[i].joints]_vars

\* A leader packet is compared with the packets of its own sender (validation.py:
\* "a monotonically increasing per-sender sequence number").
SequenceIsPerSender ==
  is_armed /\ last_seq # None => seq_from = owner_operator_id

=============================================================================
