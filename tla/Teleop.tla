------------------------------- MODULE Teleop -------------------------------
(***************************************************************************)
(* End to end: the session of the signaling server and the follower        *)
(* gateway, joined by the gateway's websocket.  The server's sends never   *)
(* suspend here (SessionManager covers that); what matters is that its     *)
(* messages to the follower arrive later, in order, and that the websocket *)
(* may be lost and made again while the operators' data channels to the    *)
(* gateway stay up.                                                        *)
(***************************************************************************)
EXTENDS FollowerGateway, SequencesExt

CONSTANTS
  Conns, RoleOf, OpOf,
  Names,            \* see SessionManager
  Follower,         \* the follower gateway's connection
  SignalingEstops,  \* the <<engaged, reset>> of the e-stops sent by websocket
  PeerEstops,       \* and of those sent by data channel
  MaxInbox          \* bound: no client acts that would make the inbox longer

ASSUME TeleopAssumption ==
  /\ Follower \in Conns /\ RoleOf[Follower] = "follower"
  /\ SignalingEstops \subseteq BOOLEAN \X BOOLEAN
  /\ PeerEstops \subseteq BOOLEAN \X BOOLEAN

VARIABLES
  participants, server_owner, server_estopped, server_state, release_task,
  task, draining, view,
  inbox             \* messages sent to the follower and not yet handled by it

Server == INSTANCE SessionManager
            WITH owner_operator_id <- server_owner, estopped <- server_estopped,
                 teleop_state <- server_state, Slow <- {}

server == <<participants, server_owner, server_estopped, server_state, release_task,
            task, draining, view>>
teleopVars == <<vars, server, inbox>>

JoinedMsg(o, s) == [type |-> "joined", owner |-> o, state |-> s]
OwnershipMsg(o) == [type |-> "ownership", owner |-> o]
EstopMsg(engaged, reset) == [type |-> "estop", engaged |-> engaged, reset |-> reset]

TeleopInit == Init /\ Server!Init /\ inbox = <<>>

Connected == Follower \in ToSet(participants)

\* The follower is sent ms and the ownership broadcast that follows them.
Sent(ms) ==
  inbox' = IF Follower \in ToSet(participants')
           THEN inbox \o ms \o <<OwnershipMsg(server_owner')>> ELSE inbox

-----------------------------------------------------------------------------
(* The server's steps                                                      *)

\* The gateway connects anew once it is done with its old connection.
FollowerJoins ==
  /\ inbox = <<>>
  /\ Server!Join(Follower)
  /\ Sent(<<JoinedMsg(server_owner', server_state')>>)

\* What was sent last may be lost with the connection.
FollowerLeaves ==
  /\ Server!Leave(Follower)
  /\ \E n \in 0..Len(inbox) : inbox' = SubSeq(inbox, 1, n)

OthersAct ==
  /\ \/ \E c \in Conns \ {Follower} : Server!Join(c) \/ Server!Leave(c)
     \/ \E c \in Conns \ {Follower}, o \in Operators : Server!Claim(c, o) \/ Server!Release(c, o)
     \/ \E o \in Operators : Server!HttpClaim(o) \/ Server!HttpRelease(o)
  /\ Sent(<<>>)
  /\ Len(inbox') <= MaxInbox

SignalingEstop ==
  \E c \in Conns \ {Follower}, flags \in SignalingEstops :
    /\ Server!Estop(c, flags[1], flags[2])
    /\ Sent(<<EstopMsg(flags[1], flags[2])>>)
    /\ Len(inbox') <= MaxInbox

\* Broadcasts only if it frees the claim.
GraceExpires ==
  /\ Server!ReleaseLater
  /\ IF server_owner' = server_owner THEN UNCHANGED inbox ELSE Sent(<<>>)

ServerStep ==
  /\ \/ FollowerJoins \/ FollowerLeaves
     \/ OthersAct \/ SignalingEstop \/ GraceExpires
  /\ UNCHANGED vars

-----------------------------------------------------------------------------
(* The gateway's steps                                                     *)

\* _on_signaling_message.
Receive ==
  /\ inbox # <<>>
  /\ inbox' = Tail(inbox)
  /\ LET m == Head(inbox)
     IN \/ m.type = "joined" /\ Joined(m.state, m.owner)
        \/ m.type = "ownership" /\ OwnershipMessage(m.owner)
        \/ m.type = "estop" /\ Estop(m.engaged, m.reset)
  /\ UNCHANGED server

PeerStep ==
  /\ \/ Connected /\ Offer
     \/ peers /\ \E flags \in PeerEstops : Estop(flags[1], flags[2])
     \/ \E o \in Operators : Enable(o) \/ Disable(o) \/ Home(o) \/ Gripper(o)
     \/ \E o \in Operators, engaged \in BOOLEAN : Clutch(o, engaged)
     \/ \E o \in Operators, q \in Seqs : LeaderState(o, q)
     \/ Tick
     \/ WatchdogTimeout
  /\ UNCHANGED <<server, inbox>>

TeleopNext == ServerStep \/ Receive \/ PeerStep

TeleopSpec == TeleopInit /\ [][TeleopNext]_teleopVars

\* asyncio wakes the server's grace timer, and the gateway reads its websocket.
TeleopFairness ==
  /\ WF_teleopVars(GraceExpires /\ UNCHANGED vars)
  /\ WF_teleopVars(Receive)

FairTeleop == TeleopSpec /\ TeleopFairness

-----------------------------------------------------------------------------
(* Properties                                                              *)

\* The owner the gateway will check commands against once it has read its inbox.
News == {i \in DOMAIN inbox : inbox[i].type # "estop"}
OwnerToBe == IF News = {} THEN owner_operator_id ELSE inbox[Max(News)].owner

\* While it is connected, the gateway either has the server's owner or is about to be
\* told: no order of claims, releases, grace periods and reconnects leaves the robot to
\* an operator who no longer holds the claim.
FollowerLearnsOwner == Connected => OwnerToBe = server_owner

\* When all e-stops go by the server, gateway and server agree on the e-stop as soon as
\* the gateway has read its inbox, also after a reconnect.
EstopAgrees == Connected /\ inbox = <<>> => (is_estopped <=> server_estopped)

\* An owner who stays away from the server is disarmed at the robot, although the data
\* channel to the gateway may outlive the websocket.
AwayOwnerIsDisarmed ==
  \A o \in Operators :
    (server_owner = o /\ ~Server!Online(participants, o))
      ~> \/ Server!Online(participants, o)
         \/ ~Connected
         \/ ~(is_armed /\ owner_operator_id = o)
=============================================================================
