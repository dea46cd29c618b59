# TLA+ models of the teleoperation platform

TLA+ specifications of the teleoperation system in this repository: an operator's browser and a leader
arm drive a follower arm through WebRTC data channels; a signaling server decides who may. The modules
are written from the source, checked with TLC on small instances, and every safety property that a passing
run checks is also proved with TLAPS, for every instance.

Paths below are relative to the repository, with its files under `src/`.

## 1. The system

| Component | State it keeps | Operations | Talks to |
| --- | --- | --- | --- |
| Signaling server (`services/signaling-server/app`) | per session: participants, `owner_operator_id`, `estopped`, `teleop_state`, `release_task` | join, leave, claim, release (websocket and HTTP), e-stop, WebRTC relay, grace-period release | websockets of browser, leader gateway, follower gateway |
| Follower gateway (`services/follower-gateway`) | state machine (`state`, `owner_operator_id`), sequence tracker, watchdog, ROS `_command_state`, peers | `session.joined`, `teleop.ownership`, `teleop.estop`, offers; enable, disable, clutch, home, gripper, leader_state; watchdog timeout; telemetry | signaling websocket, data channels, ROS topic `/teleop_remote_command` |
| `follower.py` | `remote_enabled`, `remote_clutched`, `remote_mode` | remote command, local leader joint states | the topic; the servo bus |
| Leader gateway (`services/leader-gateway`) | outgoing `_seq`, last messages seen | offer, answer, periodic `teleop.leader_state` | signaling websocket, data channel |
| Operator UI (`apps/operator-ui`) | reducer state, peer connection, `seq` counter | claim, release, commands, selectors that lock controls | signaling websocket, data channels |
| Signaling client (`shared/gateway_common`) | connection, backoff | connect, dispatch, reconnect, stop | used by both gateways |
| Schemas, auth, config, video, telemetry, deployment | (none, or derived) | | |

What is hard here:

* *Delivery.* The server is one asyncio thread, but a broadcast suspends on a websocket whose client
  reads slowly, and other handlers change the session meanwhile.
* *Timers.* A grace period frees the claim of an operator whose websocket is gone; it races the
  operator's return, other claims, and several tabs of one operator.
* *Two copies of the truth.* Owner and e-stop are kept by the server and by the follower gateway, which
  overwrites its copy on every reconnect; the robot's command state is kept by the gateway and by
  `follower.py`.
* *A robot that must stop.* Armed states are left in many ways (release, takeover, reconnect, e-stop);
  several of them send the robot nothing, and the packet watchdog has to catch it.
* *Lossy inputs.* Leader packets come unordered and unreliably; the ROS topic drops the oldest commands.
* *Restarts.* Gateways and pages end and start again while the server, the robot's node and the other
  peers keep what they had: sequence numbers begin anew, old connections linger at the server, the robot
  keeps its last permission.
* *A view made of two sources.* The browser enables its buttons by the server's owner and the gateway's
  state, which come by different channels, lag apart and fail apart.

What makes each component correct:

* server: one owner at a time, never changed directly nor acquired during an e-stop; the grace timer
  belongs to the present owner and fires if it stays away; no order of broadcasts leaves anybody with an
  old owner; the stored session state is current;
* gateway: owned states have an owner, arming is personal, the robot may move only while the watchdog
  runs, commands agree with the state, no packet number is injected twice, an e-stop stays until a reset;
* robot: the arm follows only packets accepted while armed, and its permission to move expires;
* leader link: packets are injected in the order of their numbers, and a link that delivers in time never freezes the robot;
* peering: every answer reaches the peer connection that waits for it, once, and an offer made to a
  connected gateway is answered;
* operator UI: the buttons agree with the gateway's own checks once messages have settled (two places
  excepted), the robot is
  armed for the operator only if that is what was asked last, and a reset alone clears an e-stop;
* end to end: the gateway's owner and e-stop converge to the server's, and an absent owner is disarmed.

## 2. Modules

| Module | Models |
| --- | --- |
| `Ownership` | the abstract claim: owner and e-stop, with Claim, GiveUp and SetStop |
| `SessionManager` | `session_manager.py`, `ws_handlers.py`, `main.py` of the server, one session |
| `SessionDelivery` | `SessionManager` with a history variable, and what is promised of the delivery of broadcasts |
| `TeleopStateMachine` | the class of `state_machine.py`, one action per method |
| `FollowerGateway` | `command_handler.py`, `main.py`, `watchdog.py`, `validation.py`, command side of `ros_backend.py`; built from the actions of `TeleopStateMachine` |
| `FollowerNode` | `follower.py` |
| `RobotControl` | the gateway, the topic and `FollowerNode` |
| `LeaderLink` | the gateway, the leader gateways (`leader_gateway/main.py`, `state_publisher.py`) and the unordered, lossy data channel between them, with one clock |
| `Teleop` | `SessionManager` and the gateway, joined by the gateway's websocket |
| `Console` | `Teleop` and an operator's page: `sessionMachine.ts`, `App.tsx`, `useSignaling.ts`, `useWebRTCPeer.ts`, `ControlPanel.tsx`, with `telemetry.py` |
| `Peering` | offers and answers: `signaling_client.py`, `route_webrtc`, `peer_session.py`, the offerers of both kinds |
| `MC*` | constants of the TLC instances |
| `SessionManagerProofs`, `FollowerGatewayProofs`, `LeaderLinkProofs`, `RobotControlProofs`, `TeleopProofs`, `ConsoleProofs`, `PeeringProofs` | theorems about the module of that name, and their proofs |
| `SequenceLemmas` | what `Append`, `Tail`, `RemoveAt` and `ToSet` do to the elements of a sequence, their order and their uniqueness |

Definitions keep the source's names where TLA+ allows it. Definitions commented `Variant` are plausible
mistakes in the definition they stand before; they are used by nothing, and each one is there to show
that some property would notice.

### SessionManager

State: `participants` (a dict, so a sequence in join order), `owner_operator_id`, `estopped`,
`teleop_state`, and `release_task`, reduced to the operator for whose sake the task sleeps (the code
keeps the task; `GraceIsOwners` is about that operator). `task` holds what each sending task has left to
do while suspended: one handler per connection, one HTTP request, the release task. `draining` are the
tasks suspended on each connection, in the order in which the websocket library's drain lock wakes them.
`view` is the last ownership each participant was told.

A step runs one task from one suspension to the next. Sends to connections outside `Slow` never suspend.
Every handler is one action (`Join`, `Leave`, `Claim`, `Release`, `HttpClaim`, `HttpRelease`, `Estop`,
`ReleaseLater`), and its broadcast is part of it as far as it gets; `Resume` goes on when a buffer
drains, or when the connection is gone and the send fails, which `broadcast` catches. The `claimed` reply
is not caught (`ReplyFails`). A refused claim or release changes nothing and is no step. `Names` says
which operator each task may name: the server compares it with nothing. Heartbeats, state requests and
the WebRTC relay do not change the session.

A handler ends by an exception (`Leave`): its own websocket is lost, or a send that is not caught fails,
which may be the relay of its WebRTC message to a target whose websocket is lost (`ws_handlers.py:143-150`,
`main.py:142-147`). In the latter case the sender's own connection is alive and others may still be
suspended on it. Either way its departure is broadcast, and later claims too, before they go on
(`Leave` has no condition on `draining`), and a send to a connection that is no participant any more may
suspend or fail at once (`Clear`, `Suspend` leave it open).

`SessionDelivery` adds `overtaken`: a sender has been suspended on a connection that departed, and since
then not every participant has been told the present ownership with nobody suspended (`Settled`). What is
promised of delivery, `StaleIsPending`, holds while nothing is overtaken.

### TeleopStateMachine and FollowerGateway

The gateway is one asyncio thread and its handlers of peer and ownership messages do not suspend, so each
is one action; refusals are the steps not taken. `Joined` is `session.joined`, which assigns owner and
state; `ServerStates` is what the server can say. Leader packets carry a sequence number; staleness by
clock is left open (a packet is accepted or never arrives). `age` counts polls of the watchdog and stops
at `Timeout + 1`. `published` is what the last step published, `command_state` the ROS backend's fold of
it. `applied` and `seq_from` are history variables.

The methods `on_peer_lost`, `on_health_ok`, `on_health_lost` and `on_unfreeze` exist in the class but the
gateway never calls them; they are in `FsmNext` and the theorems about the class cover them.

### FollowerNode and RobotControl

Each gateway step appends what it publishes to the topic, which keeps the last `Depth` commands, so a node
that lags loses the oldest. Commands in the topic carry the gateway's state as a history stamp.
`GatewayRestart` replaces the gateway's process: a new state machine, watchdog, sequence tracker and
`_command_state`, while the topic and the node keep what they have. It is a loss for the node like a
dropped command, so `missed` records which kind of loss has happened since the last command that sets all
three fields (`Complete`); `FoldsAgree` and `DeadmanReachesRobot` are about what has not been lost. A write
to the servo bus may fail; the code logs it.

### LeaderLink

Each leader gateway numbers its packets with `seq`, also the ones it cannot send, and streams whoever owns
the session. `flight` is the set of packets under way: delivered in any order, lost, or grown older by a
tick of the one clock that packets and watchdog share (an age above `MaxAge` is refused by `is_stale`). A
restarted leader gateway counts from 1 again while its old packets are still under way. A refused packet is
a step that only removes it. `troubled` is a history variable: since the last enable, a leader has missed a
tick, been restarted, or a packet was lost or took longer than a tick.

### Peering

A connection is a number and `who` it belongs to; an offer is named by the connection it was sent on,
since no client offers twice on one. `ws` is the client's end of its connection, `members` what the server
knows, so a lost connection stays a ghost until the server's handler has read everything (`Notices`). A
leader gateway makes a new offer on the same `RTCPeerConnection` after every join; a page makes one peer
connection when it first has a participant id and offers once, when its candidates are gathered, on the
websocket it has then, if any. The follower gateway handles one signaling message at a time, hence
`answering`. The server's sends do not suspend; a send to a dead connection may be lost or may raise, which
ends the *sender's* handler (`RelayFails`). Gathering at the leader is part of the delay of its offer. ICE
candidates are not modelled: nothing in the repository sends one.

### Teleop

The server's sends do not suspend (`Slow = {}`). Messages to the follower wait in `inbox` in order. When
the websocket is lost the server's side leaves and any suffix of `inbox` is lost; the client finishes
what it received before it connects anew. Peers stay: a data channel outlives the websocket. `MaxInbox`
bounds the inbox: clients do not act when it would grow longer; the grace timer always may.

### Console

`ui` is what the selectors look at of `UIState`: the websocket, the participant id, the state and owner the
server told, whether the data channels are open, the last `teleop.status`, and whether telemetry was never
heard, is fresh or is stale. The selectors are operators of the same names, `Enabled(b)` is the condition
under which `ControlPanel` enables button `b`. `tab_inbox` holds the server's messages to the page, ended
by `closed` when the websocket is lost, `commands` the reliable channel. `Accepted(b)` are the guards of
the gateway's handlers. The page connects again by itself, keeps its peer connection when the websocket is
lost, and never offers a second time; `Reload` starts everything anew. `asked` is a history variable.

Abstractions: a click on Claim or Release reaches the server in the same step; a `teleop.status` is shown
when it is sent (the page keeps it until the next one, so its age is the same); Home and Gripper change
neither owner nor state, so only their conditions are here; the server notices the loss of the page's
websocket no later than the page does (`SessionManager` has the other order); the gateway keeps its
websocket (`Teleop` has its loss); both data channels open and close together. The other operators claim
and release over HTTP and command the gateway on peer connections of their own (`OtherPage`: connect,
enable, disable, clutch, e-stop, reset), so this page sees sessions that others have armed, clutched and
frozen; their websockets are left out, because nothing that the page is told depends on them.

`Mismatches` are the two places where the page's rules and the gateway's differ: a FROZEN session offers its
owner Enable, which the gateway refuses, and not Disable, which it would accept; a CLUTCHED session offers
"Release clutch" on every page (`ControlPanel.tsx:71`), and the gateway accepts it from the owner only.
`ButtonsMatchGateway` says that they differ exactly there.

## 3. Runs

| Run | Checks | Instance | States |
| --- | --- | --- | --- |
| `session_claims` | `TypeOK`, `StateIsCurrent`, `GraceIsOwners`, `ReleaseBroadcastIsTrue`, refinement `ImplementsOwnership` | a follower gateway and two tabs that claim for themselves, one of which reads slowly, HTTP requests for anybody | 273,432 |
| `session_grace` | `StaleIsPending`, `OfflineOwnerHasTimer`, `AwayOwnerIsReleased` | three tabs, two of one operator, two of them slow and free to depart with senders suspended on them, claims for oneself only, fairness | 388,970 |
| `session_stranded` | `GraceEnds`: violated | claims over HTTP | |
| `leader_link` | `TypeOK`, `LinkTypeOK`, `OwnedStates`, `DriveIsWatched`, `CommandsMatchState`, `FreezeHasCause`, `ArmingIsPersonal`, `NoReplay` | two operators, one at a leader arm; two packets under way, restarts of the leader, rejoins at any time | 1,042,645 |
| `gateway_new_owner` | `SequenceIsPerSender`: violated | packets of two operators, no rejoins | |
| `robot_topic` | `NodeTypeOK`, `DrivesOnlyArmed`, `RemoteStillWhenStopped`, `FoldsAgree`, `DeadmanReachesRobot` | a topic of 2 that overflows, restarts of the gateway, fairness | 193,842 |
| `teleop_owner` | `FollowerLearnsOwner`, `EstopAgrees`, `AwayOwnerIsDisarmed` | an operator who comes and goes, a gateway that reconnects, e-stops by websocket, fairness | 491,362 |
| `teleop_rejoin` | `OnlyResetClearsEstop`: violated | e-stops by data channel only | |
| `console` | `ButtonsMatchGateway`, `ArmedIsAsked`, `OnlyResetClearsEstop` | a page, and another operator who claims over HTTP and commands the gateway, too | 1,274,067 |
| `console_ready` | `FreeCanBeClaimed`: violated | the same | |
| `console_stop` | `StopIsSent`: violated | the same | |
| `peering` | `AnswerIsExpected`, `OfferIsAnswered` | a leader gateway, a page, a follower gateway, four connections, fairness | 628,154 |

Bounds. Two operators are what ownership needs: one to hold the claim, one to take it. Two tabs of one
operator make "another websocket remains" happen. One slow connection lets a broadcast be overtaken by
any number of others, since every other task can queue behind it; two, in `session_grace`, let broadcasts
wait on different connections at once. `MaxSeq = 3` gives a sequence number below, at and above the last accepted one,
and a fresh packet after a reset; two packets under way are what it takes to overtake. `Timeout = 1` and
`MaxAge = 1` let packets, clutch and e-stop come before, at and after expiry, and let a packet be late but
fresh, or stale. In `RobotControl` a `Depth` of 2 stands for 10: overflow needs one command more than the
depth. In `Teleop` the inbox holds the two messages of a join and one more, so that a message is always
overtaken by a change at the server; in `Console` both inboxes and the commands share that bound, and one
command is under way at a time, which claims, releases, freezes and the next telemetry can overtake. There TLC tells states apart by everything but the commands published to the robot
and the server's history of what it told whom (`VIEW AllThatMatters`): no guard of `ConsoleNext` reads them
and no property of that run is about them. `MaxConns = 4`
lets the leader gateway and the follower gateway both reconnect (an offer repeated to a gateway with a
ghost), or all three connect and one of them twice.

`robot_topic` has restarts of the gateway, after which it joins again, and no lost websocket: with both it is
too large.

Deadlock is checked everywhere. Each run takes at most about three minutes with two workers.

Fairness. `SessionManager`: weak fairness of the release task and of resuming a suspended sender, because
asyncio wakes what is ready and TCP drains or fails; clients owe nothing. `RobotControl`: the watchdog's
poll (an `asyncio.sleep` loop) and the node's callback (rclpy's executor). `Teleop`: the grace timer and
the gateway's reading of its websocket. `Peering`: the server's handler of each participant goes on with
its messages, and each client reads its own and finishes what it began; nobody owes a connection, a
restart, or the notice of a loss.

## 4. Proofs

The theorems hold for every set of operators, connections and clients and every value of the bounds. They
rest on the named assumptions on the constants, which TLC evaluates in every run, and in five theorems on
a hypothesis that the theorem states:

| Theorem | Hypothesis | Why it is there |
| --- | --- | --- |
| `OfflineOwnerAlwaysHasTimer` | clients name only their own operator | `session_stranded` shows what happens otherwise |
| `FreezesForAReason` | `Timeout >= 1` | with a time-out shorter than one poll a packet in time comes too late |
| `EstopAlwaysAgrees` | e-stops go by the server, and none has both flags set | sections 5 and 6: by data channel, or with both flags, gateway and server disagree |
| `GatewayEstopSticks`, `ConsoleResetsExplicitly` | `~Reconnects` | `teleop_rejoin` shows what happens otherwise |

### SessionManagerProofs

`StateAlwaysCurrent` and `GraceAlwaysOwners` come from one inductive invariant about the session alone:
each step of the session's variables is one of a few kinds (`SessionStep`). `ServerImplementsOwnership` maps
each of them to a step of `Ownership` or a stutter. `TypeCorrect` and `ReleaseBroadcastAlwaysTrue` add the
delivery state: every suspended sender is typed, and a suspended release task was cancelled by any claim.

`StaleIsPending` alone is not inductive: the present broadcast may be under way to a participant and an
older one, still suspended, may arrive after it. `BroadcastInv` says that this cannot be. `InLine`: a
suspended sender waits on a participant, is queued once, and has to go on to exactly a stretch of the
participants, in join order, right behind the one it waits on. `Corrected`: wherever an outdated broadcast
still goes, the present one is queued behind it, on the same connection or on an earlier one, unless some
task will broadcast afresh anyway. It is kept because a new broadcast starts at the first participant
and stops at the first connection with a queue, and because senders on one connection wake in order. It is
lost when a connection departs with senders suspended on it, for the broadcasts after the departure go past
them; `TrackInv` is `BroadcastInv` while nothing is overtaken, and `SettledSuffices` says that it holds again
as soon as a broadcast has reached everybody. `StaleAlwaysPending` is about any set of slow connections.

### FollowerGatewayProofs and LeaderLinkProofs

First the class on its own (`MachineStatesOwned`, `MachineEstopSticks`), whatever the order of its calls;
the gateway's steps are a join, one call of the class, or leave it alone (`GatewayCallsMachine`), from which
`GatewayStatesOwned`, `GatewayArmingPersonal` and `GatewayEstopSticks` follow. `DriveIsWatched` is not
inductive: an e-stop message with neither flag re-publishes "enabled" when armed, so `CommandsMatchState` is
needed with it, and it in turn needs the types. It cannot be about the state alone either, since the armed
states are left without a command to the robot. `NoReplay` rests on `SeqsBehind`: while armed, everything
injected since the last enable lies at or below `last_seq`. It is about numbers, with `LeaderLink` around it
as well (`LinkPacketsNeverReplayed`); what that says of positions is in section 5.

A step of `LinkNext` is a step of the gateway or leaves it idle (`LinkStepsGateway`), so the gateway's
invariants carry over to the composition with its leaders. `FreezesForAReason` is about both sides: while
there is no trouble, the owner of an armed session is a connected leader whose next packet will be accepted
in whatever order his packets arrive, and the watchdog is at most one tick old; if it is, and the
owner has sent since that tick, a packet that will feed it is under way (`KeepsFeeding`).

### RobotControlProofs

What the node will do is decided by the commands in the topic. `LastWord(q, k, old, new)` says that someone
who holds `old` for key `k` and folds the commands of `q` ends up with `new`; there is one lemma for a
command more and one for a command taken. `NodeCatchesUp` states it of the node's three keys as long as
nothing was lost; `PacketsCarryArming` says that every command with joints names its own permission, so
losing others changes nothing; `StopIsLast` that the newest command of a stopped gateway has no joints.
Dropping the oldest commands keeps the last one. From these: `ArmDrivesOnlyArmed`, `StoppedArmIsStill`,
`FoldsAlwaysAgree`.

### TeleopProofs and ConsoleProofs

The same notion of a last word, on the owner and on the e-stop, for the messages to the follower.
`OwnerLearned` (the last word of the inbox on the owner is the server's owner) and the server's own
invariant are inductive: every step of the server that changes the owner, and every join, ends with an
ownership broadcast to a connected follower (`ServerTells`), and every message read moves the gateway
along (`ReceiveBelieves`). `StopLearned` does the same for the e-stop. Two refinements: end to end, the
gateway does only what `FollowerGateway` allows (`TeleopImplementsGateway`: what `ServerStates` says the
server may tell is all it does tell) and the server only what `SessionManager` allows
(`TeleopImplementsServer`), so what is proved of each module holds in the composition.

`ConsoleInv` has the gateway's side (`GatewaySound`: after the join the state fits the owner; `FollowerTold`), the page's (`TabTold`: as long as the server
has it among its participants, the last word of its messages is the server's owner; afterwards its
messages end with the end of the websocket) and the channel's (`PageSound`). Once all is read, both have
the server's owner and `ButtonsAlwaysMatch` is a comparison of the two sets of rules, with their two
`Mismatches`. `ArmedWhenAsked` adds
`StopSent`: a stop asked last is under way with no Enable behind it, or has had its effect with no Enable
under way. `ConsoleImplementsServer` is the refinement of `SessionManager` with a page around the server.

### PeeringProofs

An offer, once sent, is in one place at a time: in one queue, as the work of the follower gateway, or as its
answer in one queue (`OffersInOnePlace`), and nowhere before its connection is made or its leader gateway
has read `session.joined` (`FutureIsBlank`, `JoiningIsBlank`). While it is anywhere and its connection is
still open, its `RTCPeerConnection` waits for it (`OffersAwaited`). `AnswersExpected` follows.

### Only model-checked

Liveness under fairness, which TLAPS does not prove: `AwayOwnerIsReleased`, `DeadmanReachesRobot`,
`AwayOwnerIsDisarmed`, `OfferIsAnswered`. The properties of the runs that expect a violation are refuted, not
proved.

## 5. What does not hold where one might expect it

* `StaleIsPending` has an exception: a connection that departs while senders are suspended on it. If the
  reply to a slow claimant fails with other broadcasts queued behind it, or a participant whose websocket is
  alive but slow is dropped because a WebRTC message of its own met a dead target, the departure and what
  follows are broadcast past the suspended senders. They deliver an older ownership after it, and a
  participant can hold an old owner until the next broadcast.
* `NoReplay` is about numbers. They order the arm's positions as long as one run of the leader gateway numbers
  them. After `LeaderRestarts` a packet of the earlier run may still be under way with a higher number: it
  can be injected after a packet of the new run and send the arm back, and the new run is refused from then on.
* When the topic drops the command that withdraws a permission (a disable, a freeze), or the gateway's
  process is restarted while armed, the robot keeps its permission until the next command that sets all of
  enabled, clutched and mode: `DeadmanReachesRobot` excepts it. It does not move meanwhile, because it
  moves only with a packet, and each packet carries the flags it was accepted with (`DrivesOnlyArmed`). A
  restart also forgets an e-stop that came by data channel.
* `OnlyResetClearsEstop` needs a gateway that keeps its websocket (`console`); see `teleop_rejoin`.
* `FreezeHasCause` needs more than an open channel: a restarted leader gateway streams into refusals
  (`sequence_replay`) until the operator disables, and the robot freezes.
* `ButtonsMatchGateway` has the two `Mismatches` (section 2), and says nothing of a page whose data
  channel is closed or whose `ui.open` was cleared with the websocket: its controls stay locked, while the
  channel is open, until it is loaded anew.
* `OfferIsAnswered` is about offers that meet a connected follower gateway. An offer made while the gateway
  is away is never answered. A leader gateway repeats it when its own websocket is made anew, a page never.
* `EstopAgrees` needs e-stops that go by the server, none with both flags set. With both flags the server
  looks at `reset` first (`session_manager.py:149`) and the gateway at `engaged` (`state_machine.py:130`).

## 6. Disagreements between documents and code

* An owner's claim renewed over HTTP during its grace period is never released (`session_stranded`,
  `config.py:15-16`).
* Sequence numbers are kept per gateway, not per sender (`gateway_new_owner`, `validation.py:19`).
* An e-stop sent by data channel is cleared by a lost and rejoined signaling websocket
  (`teleop_rejoin`, `state_machine.py:13-15`). The operator UI sends its e-stop by data channel only.

* On a page that is connected to a gateway in CONNECTED, nobody can claim a session that is free
  (`console_ready`, `operations.md:63-68`): telemetry overrides the server's READY, and `on_health_ok` has
  no caller.
* The e-stop button sends nothing while the data channel is closed (`console_stop`,
  `operations.md:177-178`).

Also seen while modelling, without a run of its own:

* Leader packets are injected while CLUTCHED, with the clutch flag that holds the arm, and feed the
  watchdog (`command_handler.py:206`); `messages.md:113-114` says they are acted on "not `CLUTCHED`".
* The local leader arm moves the follower during an e-stop (`follower.py:80`); `context.txt:421` says "if
  estop received, no motion commands should be accepted until reset".
* `messages.md:200-201` says of FROZEN that "`teleop.disable` recovers to `CLAIMED`"; the gateway does so, but
  `ControlPanel.tsx:63` disables the button unless armed, and offers Enable, which the gateway refuses.
* `messages.md:86` says that `teleop.home` requires armed, the handler refuses it when armed
  (`command_handler.py:174`).
* `messages.md:138-140` says that `packet_age_ms` is the age of the last accepted packet and flags staleness
  in the UI; `main.py:142` of the gateway takes the time of every packet, and `sessionMachine.ts:172-175`
  goes by the arrival of telemetry. A page that never heard any is not stale.
* "Release clutch" is enabled on every page that sees CLUTCHED, the owner's or not (`ControlPanel.tsx:71`); the
  gateway refuses it from anybody but the owner (`Mismatches`).

## 7. Not modelled, and plan

Not modelled: authentication, configuration, schemas and parsing (data), video and images, joint states
and `leader.py` (I/O), the mock ROS backend, deployment. Several sessions: they share nothing. Skew between
the clocks of two machines: `is_stale` compares them, `LeaderLink` has one clock. A composition of all
modules at once is beyond TLC; each composition keeps what its properties need, and what it leaves out is
in another (suspended broadcasts in `SessionManager`, lost gateway websockets in `Teleop` and `Peering`, the
page in `Console`, packets in `LeaderLink`, the robot in `RobotControl`).

Every safety property that a passing run checks has its theorem. What is left to prove is about the
composition: that `Console` and `LeaderLink` take only steps of `FollowerGateway` up to the reset of
`published`, so that they inherit every theorem about it; and that the gateway's state machine follows the
server's `Ownership` with a delay.
