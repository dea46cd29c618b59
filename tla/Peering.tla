------------------------------- MODULE Peering -------------------------------
(***************************************************************************)
(* How the peers find each other: the leader gateway and the browsers send *)
(* WebRTC offers through the signaling server, the follower gateway        *)
(* answers.  Every websocket may be lost at any time and is made anew, the *)
(* server notices later than the client, and each of the processes may end *)
(* and start again.                                                        *)
(*                                                                         *)
(* An offer is named by the connection it is sent on, since no client      *)
(* offers twice on one.                                                    *)
(***************************************************************************)
EXTENDS Naturals, Sequences, SequencesExt, FiniteSetsExt

CONSTANTS
  Leaders, Browsers, Follower,   \* the processes that run a signaling client
  MaxConns,                      \* bound: websocket connections ever made
  None

Offerers == Leaders \cup Browsers
Clients == Offerers \cup {Follower}
Ids == 1..MaxConns

ASSUME PeeringAssumption ==
  /\ MaxConns \in Nat
  /\ Leaders \cap Browsers = {} /\ Follower \notin Offerers
  /\ None \notin Nat

VARIABLES
  made,       \* how many connections were made; they are numbered in that order
  who,        \* whose they were
  members,    \* the server's participants
  ws,         \* each client's open connection, or None
  up, down,   \* the messages under way on each connection
  pc,         \* each offerer's peer connection
  answering   \* the offer the follower gateway is working on, or None

server == <<made, who, members>>
peeringVars == <<made, who, members, ws, up, down, pc, answering>>

JoinedMsg == [type |-> "session.joined"]
OfferMsg(i) == [type |-> "webrtc.offer", offer |-> i]
AnswerMsg(i) == [type |-> "webrtc.answer", offer |-> i]

\* signaling is the pc's signalingState, with "new" and "gathering" before a browser's
\* offer; offer is the one it waits for, remote the one whose answer it has applied.
NewPeerConnection == [signaling |-> "new", offer |-> None, remote |-> None]

PeeringInit ==
  /\ made = 0 /\ who = [i \in Ids |-> None] /\ members = {}
  /\ ws = [c \in Clients |-> None]
  /\ up = [i \in Ids |-> <<>>] /\ down = [i \in Ids |-> <<>>]
  /\ pc = [o \in Offerers |-> NewPeerConnection]
  /\ answering = None

-----------------------------------------------------------------------------
(* The signaling client                                                    *)

\* The client connects and joins.  The follower gateway finishes a handler first; what it
\* does with its session.joined is in FollowerGateway.
Connects(c) ==
  /\ ws[c] = None /\ made < MaxConns
  /\ c = Follower => answering = None
  /\ made' = made + 1
  /\ who' = [who EXCEPT ![made'] = c]
  /\ members' = members \cup {made'}
  /\ ws' = [ws EXCEPT ![c] = made']
  /\ down' = [down EXCEPT ![made'] = IF c = Follower THEN <<>> ELSE <<JoinedMsg>>]
  /\ UNCHANGED <<up, pc, answering>>

\* c's end is gone, with what it has not read and what it sent last.
LosesWebsocket(c) ==
  /\ ws[c] # None
  /\ ws' = [ws EXCEPT ![c] = None]
  /\ down' = [down EXCEPT ![ws[c]] = <<>>]
  /\ \E n \in 0..Len(up[ws[c]]) : up' = [up EXCEPT ![ws[c]] = SubSeq(@, 1, n)]
  /\ UNCHANGED <<server, pc, answering>>

\* The process ended with its websocket and starts again, or the page is loaded anew.
Restarts(c) ==
  /\ ws[c] = None
  /\ IF c = Follower THEN answering' = None /\ UNCHANGED pc
     ELSE pc' = [pc EXCEPT ![c] = NewPeerConnection] /\ UNCHANGED answering
  /\ UNCHANGED <<server, ws, up, down>>

Sends(c, m) == up' = [up EXCEPT ![ws[c]] = Append(@, m)]

\* c reads the next message m of its websocket.
Reads(c, m) ==
  /\ ws[c] # None /\ down[ws[c]] # <<>>
  /\ m = Head(down[ws[c]])
  /\ down' = [down EXCEPT ![ws[c]] = Tail(@)]

-----------------------------------------------------------------------------
(* The offerers                                                            *)

\* A leader gateway offers, on the same pc, whenever it has joined.
LeaderJoined(l) ==
  /\ Reads(l, JoinedMsg)
  /\ pc' = [pc EXCEPT ![l].signaling = "have-local-offer", ![l].offer = ws[l]]
  /\ Sends(l, OfferMsg(ws[l]))
  /\ UNCHANGED <<server, ws, answering>>

\* A page makes its peer connection when it first knows its participant id ...
BrowserJoined(b) ==
  /\ Reads(b, JoinedMsg)
  /\ pc' = [pc EXCEPT ![b].signaling = IF @ = "new" THEN "gathering" ELSE @]
  /\ UNCHANGED <<server, ws, up, answering>>

\* ... and offers once, on the websocket it has when the candidates are gathered, if any.
BrowserOffers(b) ==
  /\ pc[b].signaling = "gathering"
  /\ pc' = [pc EXCEPT ![b].signaling = "have-local-offer", ![b].offer = ws[b]]
  /\ IF ws[b] = None THEN UNCHANGED up ELSE Sends(b, OfferMsg(ws[b]))
  /\ UNCHANGED <<server, ws, down, answering>>

\* setRemoteDescription with the answer.
TakesAnswer(o) ==
  \E i \in Ids :
    /\ Reads(o, AnswerMsg(i))
    /\ pc' = [pc EXCEPT ![o] = [signaling |-> "stable", offer |-> None, remote |-> i]]
    /\ UNCHANGED <<server, ws, up, answering>>

-----------------------------------------------------------------------------
(* The follower gateway                                                    *)

\* _handle_offer makes a PeerSession, and suspends while the description is set and the
\* candidates are gathered; no other message is read meanwhile.
TakesOffer ==
  \E i \in Ids :
    /\ answering = None
    /\ Reads(Follower, OfferMsg(i))
    /\ answering' = i
    /\ UNCHANGED <<server, ws, up, pc>>

\* The answer is sent; on a websocket that is gone the handler fails.
Answers ==
  /\ answering # None
  /\ answering' = None
  /\ IF ws[Follower] = None THEN UNCHANGED up ELSE Sends(Follower, AnswerMsg(answering))
  /\ UNCHANGED <<server, ws, down, pc>>

-----------------------------------------------------------------------------
(* The server                                                              *)

InOrder(ids) == SetToSortSeq(ids, <)

Gateways == {i \in members : who[i] = Follower}

\* Variant: only the first participant of the role is sent the offer.
TargetsFirst(m) ==
  IF m.type = "webrtc.answer" THEN {m.offer} \cap members
  ELSE IF Gateways = {} THEN {} ELSE {Min(Gateways)}

\* Variant: an answer goes to all participants of the role of its offerer.
TargetsByRole(m) ==
  IF m.type = "webrtc.answer"
  THEN {i \in members : \E R \in {Leaders, Browsers} : who[i] \in R /\ who[m.offer] \in R}
  ELSE Gateways

\* route_webrtc: an answer names the participant it is for, an offer goes to the role.
Targets(m) == IF m.type = "webrtc.answer" THEN {m.offer} \cap members ELSE Gateways

\* Connection i is alive at its client's end.
Open(i) == \E c \in Clients : ws[c] = i

Delivered(m, ids) == [i \in Ids |-> IF i \in ids /\ Open(i) THEN Append(down[i], m) ELSE down[i]]

\* Participant i's handler relays its next message.  What is sent to a connection whose
\* other end is gone is lost without notice.
Relays(i) ==
  /\ i \in members /\ up[i] # <<>>
  /\ up' = [up EXCEPT ![i] = Tail(@)]
  /\ down' = Delivered(Head(up[i]), Targets(Head(up[i])))
  /\ UNCHANGED <<server, ws, pc, answering>>

\* Or the send fails, which ends the sender's handler and its connection; the targets
\* after the dead one are sent nothing.
RelayFails(i) ==
  /\ i \in members /\ up[i] # <<>>
  /\ LET m == Head(up[i])
     IN \E dead \in Targets(m) :
          /\ ~Open(dead)
          /\ down' = [Delivered(m, {t \in Targets(m) : t < dead}) EXCEPT ![i] = <<>>]
  /\ members' = members \ {i}
  /\ ws' = IF Open(i) THEN [ws EXCEPT ![who[i]] = None] ELSE ws
  /\ up' = [up EXCEPT ![i] = <<>>]
  /\ UNCHANGED <<made, who, pc, answering>>

\* The handler has read everything and finds the websocket closed.
Notices(i) ==
  /\ i \in members /\ ~Open(i) /\ up[i] = <<>>
  /\ members' = members \ {i}
  /\ UNCHANGED <<made, who, ws, up, down, pc, answering>>

-----------------------------------------------------------------------------
PeeringNext ==
  \/ \E c \in Clients : Connects(c) \/ LosesWebsocket(c) \/ Restarts(c)
  \/ \E l \in Leaders : LeaderJoined(l)
  \/ \E b \in Browsers : BrowserJoined(b) \/ BrowserOffers(b)
  \/ \E o \in Offerers : TakesAnswer(o)
  \/ TakesOffer \/ Answers
  \/ \E i \in Ids : Relays(i) \/ RelayFails(i) \/ Notices(i)

PeeringSpec == PeeringInit /\ [][PeeringNext]_peeringVars

\* Every process goes on with what it has: the server with the messages of each
\* participant, the gateways and pages with theirs.
PeeringFairness ==
  /\ \A i \in Ids : WF_peeringVars(Relays(i) \/ RelayFails(i))
  /\ \A l \in Leaders : WF_peeringVars(LeaderJoined(l) \/ TakesAnswer(l))
  /\ \A b \in Browsers : WF_peeringVars(BrowserJoined(b) \/ TakesAnswer(b))
  /\ WF_peeringVars(TakesOffer \/ Answers)

FairPeering == PeeringSpec /\ PeeringFairness

-----------------------------------------------------------------------------
(* Properties                                                              *)

\* An answer that is on its way to a leader gateway or a page is the answer to the offer
\* its pc waits for, and there is one of it: aiortc and the browser refuse an answer in
\* the stable state, and the leader gateway does not survive the exception (run catches
\* only ConnectionClosed and OSError).  Reconnects, restarts, repeated offers on the same
\* pc and ghosts of old connections never bring one to the wrong pc or twice.
AnswerIsExpected ==
  \A o \in Offerers : ws[o] # None =>
    \A n \in DOMAIN down[ws[o]] : down[ws[o]][n].type = "webrtc.answer" =>
      /\ pc[o].signaling = "have-local-offer"
      /\ down[ws[o]][n] = AnswerMsg(pc[o].offer)
      /\ \A k \in 1..(n - 1) : down[ws[o]][k].type # "webrtc.answer"

\* An offer that is sent while the follower gateway is connected is answered, unless one
\* of the two loses its websocket; old connections of the gateway, to which the server
\* relays the offer too, do not prevent it.
OfferIsAnswered ==
  \A o \in Offerers :
    (ws[o] \in members /\ OfferMsg(ws[o]) \in ToSet(up[ws[o]]) /\ ws[Follower] \in members)
      ~> (ws[o] = None \/ ws[Follower] = None \/ pc[o].remote = ws[o])
=============================================================================
