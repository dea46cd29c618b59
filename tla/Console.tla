------------------------------- MODULE Console -------------------------------
(***************************************************************************)
(* One operator's browser tab with the signaling server and the follower   *)
(* gateway.  The tab's view comes from two sources, the server's messages  *)
(* on its websocket and the gateway's teleop.status on the data channel,   *)
(* which lag behind each other and fail apart; its buttons are enabled by  *)
(* that view and answered by the gateway's own checks.                     *)
(*                                                                         *)
(* The gateway keeps its websocket here (Teleop loses it).  A click on     *)
(* Claim or Release and its way to the server are one step.  The other     *)
(* operators claim over HTTP and command the gateway on peer connections   *)
(* of their own; what they send arrives at once, and whether a websocket   *)
(* of theirs is left makes no difference to what this page is told.        *)
(***************************************************************************)
EXTENDS Teleop

CONSTANTS
  Tab, Me,      \* the tab's connection and its operator
  MaxCommands   \* bound: commands under way to the gateway at a time; they count for
                \* MaxInbox, as do the messages to the tab

ASSUME ConsoleAssumption ==
  /\ Tab \in Conns \ {Follower} /\ Me \in Operators
  /\ OpOf[Tab] = Me /\ RoleOf[Tab] = "operator"
  /\ MaxCommands \in Nat
  /\ None \notin SessionState

VARIABLES
  ui,           \* UIState, as far as the selectors look at it
  tab_inbox,    \* the server's messages to the tab, and its websocket's end
  channel,      \* the peer connection of this page: "new", "answered", "open", "closed"
  commands,     \* teleop-reliable, from the tab
  asked         \* history: what the operator last asked of the robot, "drive" or "stop",
                \* or a "dropped stop" that the page did not send

tab == <<ui, tab_inbox, channel, commands, asked>>
consoleVars == <<teleopVars, tab>>

createInitialState ==
  [ws |-> "disconnected", participant |-> FALSE, signaling |-> "DISCONNECTED", owner |-> None,
   open |-> FALSE, status |-> None, heard |-> "never"]

ConsoleInit ==
  /\ TeleopInit
  /\ ui = createInitialState
  /\ tab_inbox = <<>>
  /\ channel = "new"
  /\ commands = <<>>
  /\ asked = "drive"

\* Nothing happens at the gateway.
GatewayIdle ==
  /\ PublishNothing
  /\ UNCHANGED <<state, owner_operator_id, joined, peers, age, tripped, last_seq, applied, seq_from>>

-----------------------------------------------------------------------------
(* The selectors, and the buttons of ControlPanel                          *)

selectSessionState == IF ui.status # None THEN ui.status ELSE ui.signaling
selectIsOwner == ui.owner = Me
selectIsEstopped == selectSessionState = "ESTOPPED"

\* Variant: a clutched session does not count as armed.
selectIsTracking == selectSessionState = "ARMED"

selectIsArmed == selectSessionState \in {"ARMED", "CLUTCHED"}
selectIsClutched == selectSessionState = "CLUTCHED"
selectIsStale == ui.heard = "stale"

selectCanClaim == ~selectIsOwner /\ selectSessionState \in {"READY", "CLAIMED"}
selectCanRelease == selectIsOwner
selectControlsLocked == ~selectIsOwner \/ ~ui.open \/ selectIsEstopped \/ selectIsStale
selectMotionLocked == selectControlsLocked \/ ~selectIsArmed

Buttons == {"enable", "disable", "clutch", "unclutch", "home", "gripper", "estop", "reset"}

Enabled(b) ==
  \/ b \in {"enable", "home"} /\ ~selectControlsLocked /\ ~selectIsArmed
  \/ b = "disable" /\ ~selectControlsLocked /\ selectIsArmed
  \/ b = "clutch" /\ ~selectMotionLocked /\ ~selectIsClutched
  \/ b = "unclutch" /\ selectIsClutched
  \/ b = "gripper" /\ ~selectMotionLocked
  \/ b = "estop"
  \/ b = "reset" /\ selectIsEstopped

-----------------------------------------------------------------------------
(* The server and the tab's websocket                                      *)

\* The server's news of these types reach the tab behind what is under way.
Tells(types) ==
  /\ tab_inbox' = IF Tab \in ToSet(participants')
                  THEN tab_inbox \o [i \in DOMAIN types |->
                         [type |-> types[i], owner |-> server_owner', state |-> server_state']]
                  ELSE tab_inbox
  /\ Len(tab_inbox') + Len(inbox') + Len(commands) <= MaxInbox

\* ws.onopen, session.join and the server's welcome.
TabJoins ==
  /\ ui.ws = "disconnected"
  /\ Server!Join(Tab)
  /\ Sent(<<>>)
  /\ Tells(<<"joined", "ownership">>)
  /\ ui' = [ui EXCEPT !.ws = "open"]
  /\ UNCHANGED <<channel, commands, asked>>

\* The websocket is lost, with what was sent last.
TabLeaves ==
  /\ Server!Leave(Tab)
  /\ Sent(<<>>)
  /\ \E n \in 0..Len(tab_inbox) : tab_inbox' = SubSeq(tab_inbox, 1, n) \o <<[type |-> "closed"]>>
  /\ UNCHANGED <<ui, channel, commands, asked>>

ClickClaim == ui.ws = "open" /\ selectCanClaim /\ Server!Claim(Tab, Me)
ClickRelease == ui.ws = "open" /\ selectCanRelease /\ Server!Release(Tab, Me)

\* Whatever else makes the server broadcast the ownership.
ServerActs ==
  /\ \/ ClickClaim \/ ClickRelease
     \/ \E o \in Operators : Server!HttpClaim(o) \/ Server!HttpRelease(o)
     \/ Server!ReleaseLater
  /\ IF server_owner' = server_owner THEN UNCHANGED <<inbox, tab_inbox>>
     ELSE Sent(<<>>) /\ Tells(<<"ownership">>)
  /\ UNCHANGED <<ui, channel, commands, asked>>

GatewayJoins ==
  /\ ~joined
  /\ FollowerJoins
  /\ Tells(<<"ownership">>)
  /\ UNCHANGED <<ui, channel, commands, asked>>

\* ws/closed: the peer connection itself is left alone.
AfterClose ==
  [ui EXCEPT !.ws = "disconnected", !.signaling = "DISCONNECTED", !.open = FALSE, !.status = None]

\* sessionReducer, on what the websocket brings.
TabReads ==
  /\ tab_inbox # <<>>
  /\ tab_inbox' = Tail(tab_inbox)
  /\ LET m == Head(tab_inbox)
     IN ui' = IF m.type = "closed" THEN AfterClose
              ELSE [ui EXCEPT !.signaling = m.state, !.owner = m.owner,
                              !.participant = @ \/ m.type = "joined"]
  /\ UNCHANGED <<channel, commands, asked>>

-----------------------------------------------------------------------------
(* The peer connection                                                     *)

\* The page offers once, when it has learned its participant id; the offer is relayed to
\* the gateway, which answers it.
OfferAnswered ==
  /\ channel = "new" /\ ui.participant /\ ui.ws = "open"
  /\ Tab \in ToSet(participants)
  /\ Offer
  /\ channel' = "answered"
  /\ UNCHANGED <<ui, tab_inbox, commands, asked>>

ChannelOpens ==
  /\ channel = "answered"
  /\ channel' = "open"
  /\ ui' = [ui EXCEPT !.open = TRUE]
  /\ UNCHANGED <<tab_inbox, commands, asked>>

\* For good: the page does not offer again.  What is under way is lost.
ChannelCloses ==
  /\ channel = "open"
  /\ channel' = "closed"
  /\ ui' = [ui EXCEPT !.open = FALSE]
  /\ commands' = <<>>
  /\ asked' = IF commands = <<>> THEN asked ELSE "drive"
  /\ UNCHANGED tab_inbox

\* The operator loads the page anew; the robot is taken as it is found.
Reload ==
  /\ IF Tab \in ToSet(participants) THEN Server!Leave(Tab) /\ Sent(<<>>)
     ELSE UNCHANGED <<server, inbox>>
  /\ ui' = createInitialState
  /\ channel' = "new"
  /\ tab_inbox' = <<>> /\ commands' = <<>>
  /\ asked' = "drive"

\* sendCommand: dropped without a word unless the channel is open.
Click(b) ==
  /\ Enabled(b)
  /\ IF channel = "open"
     THEN /\ Len(commands) < MaxCommands
          /\ Len(tab_inbox) + Len(inbox) < MaxInbox
          /\ commands' = Append(commands, b)
          /\ asked' = CASE b = "enable" -> "drive" [] b \in {"disable", "estop"} -> "stop"
                        [] OTHER -> asked
     ELSE /\ UNCHANGED commands
          /\ asked' = IF b = "estop" THEN "dropped stop" ELSE asked
  /\ UNCHANGED <<ui, tab_inbox, channel>>

\* What the selectors read of a teleop.status.
build_status == state

\* A teleop.status of the gateway's telemetry loop; the tab shows it until the next one
\* arrives, so its way is part of the step.
Telemetry ==
  /\ peers /\ channel = "open"
  /\ ui' = [ui EXCEPT !.status = build_status, !.heard = "fresh"]
  /\ UNCHANGED <<tab_inbox, channel, commands, asked>>

\* More than TELEMETRY_STALE_MS have passed since.
GoesStale ==
  /\ ui.heard = "fresh"
  /\ ui' = [ui EXCEPT !.heard = "stale"]
  /\ UNCHANGED <<tab_inbox, channel, commands, asked>>

-----------------------------------------------------------------------------
(* The gateway                                                             *)

\* The gateway does what the button b asks for, on a page of operator o.
Performs(o, b) ==
  \/ b = "enable" /\ Enable(o)
  \/ b = "disable" /\ Disable(o)
  \/ b = "clutch" /\ Clutch(o, TRUE)
  \/ b = "unclutch" /\ Clutch(o, FALSE)
  \/ b = "estop" /\ Estop(TRUE, FALSE)
  \/ b = "reset" /\ Estop(FALSE, TRUE)

\* The guards of these handlers, for Me.
Accepted(b) ==
  \/ b \in {"estop", "reset"}
  \/ /\ FromOwner(Me)
     /\ \/ b = "enable" /\ state = "CLAIMED"
        \/ b = "disable" /\ state \in {"ARMED", "CLUTCHED", "FROZEN"}
        \/ b = "clutch" /\ state = "ARMED"
        \/ b = "unclutch" /\ state = "CLUTCHED"
        \/ b = "home" /\ ~is_armed
        \/ b = "gripper" /\ is_armed

HandlesCommand ==
  /\ commands # <<>>
  /\ commands' = Tail(commands)
  /\ IF Accepted(Head(commands)) THEN Performs(Me, Head(commands)) ELSE GatewayIdle
  /\ UNCHANGED <<ui, tab_inbox, channel, asked>>

\* The page of another operator connects to the gateway, or commands it.
OtherPage ==
  /\ \/ Offer
     \/ peers /\ \E o \in Operators \ {Me}, b \in Buttons : Performs(o, b)
  /\ UNCHANGED tab

Watch == (Tick \/ WatchdogTimeout) /\ UNCHANGED tab

\* Home and gripper commands leave owner and state alone, so clicks on those buttons are
\* left out.
TabActs ==
  \/ TabReads \/ ChannelOpens \/ ChannelCloses \/ GoesStale
  \/ Telemetry
  \/ \E b \in Buttons \ {"home", "gripper"} : Click(b)

ConsoleNext ==
  \/ (TabJoins \/ TabLeaves \/ ServerActs \/ GatewayJoins \/ Reload) /\ GatewayIdle
  \/ TabActs /\ GatewayIdle /\ UNCHANGED <<server, inbox>>
  \/ (OfferAnswered \/ HandlesCommand \/ OtherPage \/ Watch) /\ UNCHANGED <<server, inbox>>
  \/ Receive /\ UNCHANGED tab

ConsoleSpec == ConsoleInit /\ [][ConsoleNext]_consoleVars

-----------------------------------------------------------------------------
(* Properties                                                              *)

Quiet == inbox = <<>> /\ tab_inbox = <<>> /\ commands = <<>> /\ ui.ws = "open"

\* Where the page's rules and the gateway's differ: a FROZEN session offers its owner Enable
\* in place of Disable, and a CLUTCHED one offers Release clutch to everybody.
Mismatches ==
  CASE state = "FROZEN" /\ owner_operator_id = Me -> {"enable", "disable"}
    [] state = "CLUTCHED" /\ owner_operator_id # Me -> {"unclutch"}
    [] OTHER -> {}

\* The browser and the gateway judge a command by rules of their own, from copies of the
\* owner and the state that reach them on different ways.  Once all messages are read, and
\* with its channel open and fresh telemetry, the page enables a button if and only if the
\* gateway accepts what it sends, but for the Mismatches, and there they do differ.  (The
\* e-stop and its reset are accepted from everybody.)
ButtonsMatchGateway ==
  Quiet /\ ui.open /\ ui.heard = "fresh" /\ ui.status = state =>
    {b \in Buttons \ {"estop", "reset"} : Enabled(b) # Accepted(b)} = Mismatches

\* The robot is armed for this operator only as long as Enable is the last of Enable,
\* Disable and E-stop that the page has sent: no release, takeover, freeze, reset or lost
\* websocket in between arms it again or keeps it armed.
ArmedIsAsked ==
  channel = "open" /\ commands = <<>> /\ is_armed /\ owner_operator_id = Me => asked # "stop"

\* The e-stop button always stops the robot (operations.md: "The operator UI's EMERGENCY
\* STOP button always sends this, regardless of UI lock state").
StopIsSent == is_armed /\ owner_operator_id = Me => asked # "dropped stop"

\* With nobody owning the session, an operator whose page is connected to server and
\* gateway can claim it (operations.md: "Once connected you should see ...
\* `session_state: READY`", "Click Claim control").
FreeCanBeClaimed ==
  Quiet /\ channel = "open" /\ server_owner = None /\ ~is_estopped => selectCanClaim
=============================================================================
