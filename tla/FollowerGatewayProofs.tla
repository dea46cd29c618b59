----------------------- MODULE FollowerGatewayProofs -----------------------
(***************************************************************************)
(* Proofs about the follower gateway, for every set of operators, every    *)
(* timeout and every bound on sequence numbers.  The class                 *)
(* TeleopStateMachine comes first, on its own: what it promises whatever   *)
(* the order in which its methods are called.  Then the gateway.           *)
(***************************************************************************)
EXTENDS FollowerGateway, TLAPS

(* The class TeleopStateMachine                                            *)

\* One call of a method keeps the type and keeps owned states owned.
LEMMA FsmStep ==
  ASSUME FsmTypeOK, OwnedStates, FsmNext
  PROVE  FsmTypeOK' /\ OwnedStates'
<1> USE NoneIsNoOperator
<1> USE DEF FsmTypeOK, OwnedStates, SessionState, Goto, fsm, is_estopped, is_armed
<1>1. CASE on_peer_connected
  BY <1>1 DEF on_peer_connected
<1>2. CASE on_peer_lost
  BY <1>2 DEF on_peer_lost
<1>3. CASE on_health_ok
  BY <1>3 DEF on_health_ok, Idle
<1>4. CASE on_enable \/ on_disable \/ on_freeze \/ on_unfreeze
  BY <1>4 DEF on_enable, on_disable, on_freeze, on_unfreeze
<1>5. ASSUME NEW o \in Operators \cup {None}, on_ownership(o)
      PROVE  FsmTypeOK' /\ OwnedStates'
  BY <1>5 DEF on_ownership, StateAfterOwner
<1>6. ASSUME NEW engaged \in BOOLEAN, on_clutch(engaged)
      PROVE  FsmTypeOK' /\ OwnedStates'
  BY <1>6 DEF on_clutch
<1>7. ASSUME NEW engaged \in BOOLEAN, NEW reset \in BOOLEAN, on_estop(engaged, reset)
      PROVE  FsmTypeOK' /\ OwnedStates'
  BY <1>7 DEF on_estop, StateAfterEstop, Idle
<1> QED BY <1>1, <1>2, <1>3, <1>4, <1>5, <1>6, <1>7 DEF FsmNext

\* TeleopStateMachine keeps claimed, armed, clutched and frozen states owned, in
\* whatever order its methods are called, on_health_ok and on_unfreeze included.
THEOREM MachineStatesOwned == FsmSpec => []OwnedStates
<1>1. FsmInit => FsmTypeOK /\ OwnedStates
  BY DEF FsmInit, FsmTypeOK, OwnedStates, SessionState
<1>2. FsmTypeOK /\ OwnedStates /\ [FsmNext]_fsm => FsmTypeOK' /\ OwnedStates'
  BY FsmStep DEF fsm, FsmTypeOK, OwnedStates
<1> QED BY <1>1, <1>2, PTL DEF FsmSpec

\* No order of calls clears the e-stop of TeleopStateMachine but on_estop with reset.
THEOREM MachineEstopSticks == FsmSpec => OnlyResetClearsEstop
<1>1. ASSUME FsmNext, is_estopped, state' # "ESTOPPED"
      PROVE  on_estop(FALSE, TRUE)
  BY <1>1 DEF FsmNext, is_estopped, is_armed, on_peer_connected, on_peer_lost, on_health_ok,
     on_enable, on_disable, on_freeze, on_unfreeze, on_ownership, StateAfterOwner, on_clutch,
     on_estop, StateAfterEstop, Goto, fsm
<1>2. [FsmNext]_fsm => [is_estopped /\ state' # "ESTOPPED" => on_estop(FALSE, TRUE)]_fsm
  BY <1>1 DEF fsm
<1> QED BY <1>2, PTL DEF FsmSpec, OnlyResetClearsEstop

-----------------------------------------------------------------------------
(* The gateway: types and owners                                           *)

\* What the server may tell a follower that joins: an owned state has an owner and
\* nobody is armed, clutched or frozen by it.
LEMMA ServerStatesFacts ==
  ASSUME NEW o \in Operators \cup {None}, NEW s \in ServerStates(o)
  PROVE  /\ s \in SessionState
         /\ s \in {"CLAIMED", "ARMED", "CLUTCHED", "FROZEN"} => o # None
         /\ s \notin {"DISCONNECTED", "ARMED", "CLUTCHED", "FROZEN"}
  BY DEF ServerStates, SessionState

\* A step of the gateway joins, calls one method of the state machine, or leaves the
\* state machine alone.
LEMMA GatewayCallsMachine ==
  ASSUME Next
  PROVE  \/ \E o \in Operators \cup {None}, s \in SessionState : Joined(s, o)
         \/ FsmNext
         \/ UNCHANGED fsm
  BY DEF Next, OwnershipMessage, Offer, Estop, Enable, Disable, Clutch, Home, Gripper,
     LeaderState, Tick, WatchdogTimeout, FsmNext, fsm

\* The machine's type and owners, through a step of the gateway.
LEMMA GatewayOwned ==
  ASSUME FsmTypeOK, OwnedStates, [Next]_vars
  PROVE  FsmTypeOK' /\ OwnedStates'
<1>1. CASE UNCHANGED fsm
  BY <1>1 DEF fsm, FsmTypeOK, OwnedStates
<1>2. ASSUME NEW o \in Operators \cup {None}, NEW s \in SessionState, Joined(s, o)
      PROVE  FsmTypeOK' /\ OwnedStates'
  BY <1>2, ServerStatesFacts DEF Joined, FsmTypeOK, OwnedStates
<1>3. CASE FsmNext
  BY <1>3, FsmStep
<1>4. UNCHANGED vars => UNCHANGED fsm
  BY DEF vars, fsm
<1> QED BY <1>1, <1>2, <1>3, <1>4, GatewayCallsMachine

\* Through reconnects, transfers and e-stops the gateway never believes a session
\* without an owner to be claimed, armed, clutched or frozen.
THEOREM GatewayStatesOwned == Spec => []OwnedStates
<1>1. Init => FsmTypeOK /\ OwnedStates
  BY DEF Init, FsmInit, FsmTypeOK, OwnedStates, SessionState
<1>2. FsmTypeOK /\ OwnedStates /\ [Next]_vars => FsmTypeOK' /\ OwnedStates'
  BY GatewayOwned
<1> QED BY <1>1, <1>2, PTL DEF Spec

\* A step that changes the owner leaves no armed, clutched or frozen session behind.
LEMMA StepArmsNobodyElse ==
  ASSUME Next, owner_operator_id' # owner_operator_id
  PROVE  state' \notin {"ARMED", "CLUTCHED", "FROZEN"}
<1>1. ASSUME NEW o \in Operators \cup {None}, NEW s \in SessionState, Joined(s, o)
      PROVE  state' \notin {"ARMED", "CLUTCHED", "FROZEN"}
  BY <1>1, ServerStatesFacts DEF Joined
<1>2. CASE FsmNext
  BY <1>2 DEF FsmNext, on_peer_connected, on_peer_lost, on_health_ok, on_enable,
     on_disable, on_freeze, on_unfreeze, on_ownership, StateAfterOwner, on_clutch, on_estop,
     Goto, fsm, is_armed
<1>3. CASE UNCHANGED fsm
  BY <1>3 DEF fsm
<1> QED BY <1>1, <1>2, <1>3, GatewayCallsMachine

\* No step of the gateway, a rejoin included, hands an armed session to another owner.
THEOREM GatewayArmingPersonal == Spec => ArmingIsPersonal
<1>1. [Next]_vars => [owner_operator_id' # owner_operator_id
                        => state' \notin {"ARMED", "CLUTCHED", "FROZEN"}]_fsm
  BY StepArmsNobodyElse DEF vars, fsm
<1> QED BY <1>1, PTL DEF Spec, ArmingIsPersonal

\* As long as the websocket to the server lasts, the gateway's e-stop is cleared by a
\* reset and by nothing else.
THEOREM GatewayEstopSticks ==
  ASSUME ~Reconnects
  PROVE  Spec => OnlyResetClearsEstop
<1> DEFINE Fresh == ~joined => state = "DISCONNECTED"
<1>1. Init => Fresh
  BY DEF Init, FsmInit
<1>2. Fresh /\ [Next]_vars => Fresh'
  <2> SUFFICES ASSUME Fresh, Next
               PROVE  Fresh'
    BY DEF vars
  <2>1. ASSUME NEW o \in Operators \cup {None}, NEW s \in SessionState, Joined(s, o)
        PROVE  Fresh'
    BY <2>1 DEF Joined
  <2>2. ASSUME NEW o \in Operators \cup {None}, OwnershipMessage(o)
        PROVE  Fresh'
    BY <2>2 DEF OwnershipMessage
  <2>3. CASE Offer
    BY <2>3 DEF Offer
  <2>4. ASSUME NEW engaged \in BOOLEAN, NEW reset \in BOOLEAN, Estop(engaged, reset)
        PROVE  Fresh'
    BY <2>4 DEF Estop
  <2>5. ASSUME NEW o \in Operators, Enable(o) \/ Disable(o) \/ Home(o) \/ Gripper(o)
        PROVE  Fresh'
    BY <2>5 DEF Enable, Disable, Home, Gripper, on_enable, on_disable
  <2>6. ASSUME NEW o \in Operators, NEW engaged \in BOOLEAN, Clutch(o, engaged)
        PROVE  Fresh'
    BY <2>6 DEF Clutch, on_clutch
  <2>7. ASSUME NEW o \in Operators, NEW q \in Seqs, LeaderState(o, q)
        PROVE  Fresh'
    BY <2>7 DEF LeaderState
  <2>8. CASE Tick
    BY <2>8 DEF Tick
  <2>9. CASE WatchdogTimeout
    BY <2>9 DEF WatchdogTimeout, on_freeze, is_armed, fsm
  <2> QED BY <2>1, <2>2, <2>3, <2>4, <2>5, <2>6, <2>7, <2>8, <2>9 DEF Next
<1>3. ASSUME Fresh, Next, is_estopped, state' # "ESTOPPED"
      PROVE  on_estop(FALSE, TRUE)
  <2>1. ~\E o \in Operators \cup {None}, s \in SessionState : Joined(s, o)
    BY <1>3 DEF Joined, is_estopped
  <2>2. ~UNCHANGED fsm
    BY <1>3 DEF fsm, is_estopped
  <2>3. FsmNext
    BY <1>3, <2>1, <2>2, GatewayCallsMachine
  <2> QED
    BY <1>3, <2>3 DEF FsmNext, is_estopped, is_armed, on_peer_connected, on_peer_lost,
       on_health_ok, on_enable, on_disable, on_freeze, on_unfreeze, on_ownership,
       StateAfterOwner, on_clutch, on_estop, StateAfterEstop, Goto, fsm
<1>4. Fresh /\ [Next]_vars => [is_estopped /\ state' # "ESTOPPED" => on_estop(FALSE, TRUE)]_fsm
  BY <1>3 DEF vars, fsm
<1> QED BY <1>1, <1>2, <1>4, PTL DEF Spec, OnlyResetClearsEstop
-----------------------------------------------------------------------------
(* The gateway: types                                                      *)

\* A key that is there replaces the folded value, a missing or null one keeps it.
LEMMA PublishedEnabled ==
  ASSUME NEW enabled \in BOOLEAN, NEW clutched, NEW mode, NEW joints,
         Publish(Command(enabled, clutched, mode, joints))
  PROVE  command_state'.enabled = enabled
<1>1. enabled # None
  BY GatewayAssumption, Zenon
<1>2. Or(enabled, command_state.enabled) = enabled
  BY <1>1, Zenon DEF Or
<1> QED BY <1>2 DEF Publish, Fold, Command

LEMMA PublishedClutched ==
  ASSUME NEW enabled, NEW clutched \in BOOLEAN, NEW mode, NEW joints,
         Publish(Command(enabled, clutched, mode, joints))
  PROVE  command_state'.clutched = clutched
<1>1. clutched # None
  BY GatewayAssumption, Zenon
<1>2. Or(clutched, command_state.clutched) = clutched
  BY <1>1, Zenon DEF Or
<1> QED BY <1>2 DEF Publish, Fold, Command

LEMMA PublishedMode ==
  ASSUME NEW enabled, NEW clutched, NEW mode \in Modes, NEW joints,
         Publish(Command(enabled, clutched, mode, joints))
  PROVE  command_state'.mode = mode
  BY GatewayAssumption DEF Publish, Fold, Command, Or

LEMMA PublishedNull ==
  ASSUME NEW enabled, NEW clutched, NEW mode, NEW joints,
         Publish(Command(enabled, clutched, mode, joints))
  PROVE  /\ enabled = None => command_state'.enabled = command_state.enabled
         /\ clutched = None => command_state'.clutched = command_state.clutched
         /\ mode = None => command_state'.mode = command_state.mode
  BY DEF Publish, Fold, Command, Or

\* What an injected command leaves in _command_state is typed, and the fold of a key
\* that is there is its value.
LEMMA FoldType ==
  ASSUME NEW cs \in CommandStates, NEW c \in Commands
  PROVE  Fold(cs, c) \in CommandStates
  BY GatewayAssumption DEF Fold, Or, CommandStates, Commands

LEMMA CommandType ==
  ASSUME NEW enabled \in BOOLEAN \cup {None}, NEW clutched \in BOOLEAN \cup {None},
         NEW mode \in Modes \cup {None}, NEW joints \in Seqs \cup {None}
  PROVE  Command(enabled, clutched, mode, joints) \in Commands
  BY DEF Command, Commands

\* Publishing a typed command, or nothing, keeps the types of what it touches.
LEMMA PublishType ==
  ASSUME command_state \in CommandStates,
         PublishNothing \/ \E c \in Commands : Publish(c)
  PROVE  /\ command_state' \in CommandStates
         /\ published' \in {<<>>} \cup {<<c>> : c \in Commands}
  BY FoldType DEF PublishNothing, Publish

\* The variables of the gateway that are neither the machine's nor the robot's.
FlagTypes ==
  /\ joined \in BOOLEAN
  /\ peers \in BOOLEAN
  /\ age \in 0..(Timeout + 1) \cup {None}
  /\ tripped \in BOOLEAN
  /\ last_seq \in Seqs \cup {None}
  /\ applied \subseteq Seqs
  /\ seq_from \in Operators \cup {None}

\* Every step publishes typed commands and keeps the gateway's own variables typed.
LEMMA GatewayTypeStep ==
  ASSUME TypeOK, Next
  PROVE  /\ FlagTypes'
         /\ PublishNothing \/ \E c \in Commands : Publish(c)
<1> DEFINE Goal == FlagTypes' /\ (PublishNothing \/ \E c \in Commands : Publish(c))
<1> USE GatewayAssumption
<1> USE DEF TypeOK, FlagTypes
<1>0. 0 \in 0..(Timeout + 1)
  OBVIOUS
<1>1. ASSUME NEW o \in Operators \cup {None}, NEW s \in SessionState, Joined(s, o)
      PROVE  Goal
  BY <1>1 DEF Joined
<1>2. ASSUME NEW o \in Operators \cup {None}, OwnershipMessage(o)
      PROVE  Goal
  BY <1>2 DEF OwnershipMessage
<1>3. CASE Offer
  BY <1>3 DEF Offer
<1>4. ASSUME NEW engaged \in BOOLEAN, NEW reset \in BOOLEAN, Estop(engaged, reset)
      PROVE  Goal
  <2>1. Command(is_armed', state' = "CLUTCHED", IF is_estopped' THEN "ESTOPPED" ELSE None, None)
          \in Commands
    <3>1. is_armed' \in BOOLEAN /\ (state' = "CLUTCHED") \in BOOLEAN
      BY DEF is_armed
    <3>2. (IF is_estopped' THEN "ESTOPPED" ELSE None) \in Modes \cup {None}
      BY DEF Modes
    <3> QED BY <3>1, <3>2, CommandType
  <2> QED BY <1>4, <2>1 DEF Estop
<1>5. ASSUME NEW o \in Operators, Enable(o)
      PROVE  Goal
  <2>1. Command(TRUE, FALSE, "TRACKING", None) \in Commands
    BY CommandType DEF Modes
  <2> QED BY <1>0, <1>5, <2>1 DEF Enable, feed
<1>6. ASSUME NEW o \in Operators, Disable(o)
      PROVE  Goal
  <2>1. Command(FALSE, FALSE, "IDLE", None) \in Commands
    BY CommandType DEF Modes
  <2> QED BY <1>6, <2>1 DEF Disable, disarm
<1>7. ASSUME NEW o \in Operators, Home(o)
      PROVE  Goal
  <2>1. Command(None, None, "HOMING", None) \in Commands
    BY CommandType DEF Modes
  <2> QED BY <1>7, <2>1 DEF Home
<1>8. ASSUME NEW o \in Operators, Gripper(o)
      PROVE  Goal
  <2>1. Command(None, None, None, None) \in Commands
    BY CommandType
  <2> QED BY <1>8, <2>1 DEF Gripper
<1>9. ASSUME NEW o \in Operators, NEW engaged \in BOOLEAN, Clutch(o, engaged)
      PROVE  Goal
  <2>1. Command(TRUE, engaged, "TRACKING", None) \in Commands
    BY CommandType DEF Modes
  <2> QED BY <1>0, <1>9, <2>1 DEF Clutch, feed, disarm
<1>10. ASSUME NEW o \in Operators, NEW q \in Seqs, LeaderState(o, q)
       PROVE  Goal
  <2>1. Command(TRUE, state = "CLUTCHED", "TRACKING", q) \in Commands
    <3>1. (state = "CLUTCHED") \in BOOLEAN
      BY Zenon
    <3> QED BY <3>1, CommandType DEF Modes
  <2> QED BY <1>0, <1>10, <2>1 DEF LeaderState, feed
<1>11. CASE Tick
  BY <1>11 DEF Tick, Expired
<1>12. CASE WatchdogTimeout
  <2>1. Command(FALSE, None, "FROZEN", None) \in Commands
    BY CommandType DEF Modes
  <2> QED BY <1>12, <2>1 DEF WatchdogTimeout
<1> QED
  BY <1>1, <1>2, <1>3, <1>4, <1>5, <1>6, <1>7, <1>8, <1>9, <1>10, <1>11, <1>12 DEF Next

\* TypeOK and OwnedStates are inductive together: what the server hands over at a join
\* depends on its owner.
LEMMA GatewayTypeInit == Init => TypeOK /\ OwnedStates
<1> SUFFICES ASSUME Init
             PROVE  TypeOK /\ OwnedStates
  OBVIOUS
<1>1. FsmTypeOK /\ OwnedStates
  BY DEF Init, FsmInit, FsmTypeOK, OwnedStates, SessionState
<1>2. command_state \in CommandStates
  BY DEF Init, CommandStates, Modes
<1>3. published \in {<<>>} \cup {<<c>> : c \in Commands}
  BY DEF Init
<1> QED BY <1>1, <1>2, <1>3 DEF Init, TypeOK

\* One step of the gateway keeps its types.
LEMMA GatewayTypeKept ==
  ASSUME TypeOK, OwnedStates, Next
  PROVE  TypeOK'
  BY GatewayTypeStep, GatewayOwned, PublishType DEF TypeOK, FlagTypes

LEMMA GatewayTypeInvariant == Spec => [](TypeOK /\ OwnedStates)
<1>1. TypeOK /\ OwnedStates /\ [Next]_vars => TypeOK' /\ OwnedStates'
  <2>1. TypeOK /\ UNCHANGED vars => TypeOK'
    BY DEF vars, TypeOK, FsmTypeOK
  <2> QED BY <2>1, GatewayTypeKept, GatewayOwned DEF TypeOK
<1> QED BY <1>1, GatewayTypeInit, PTL DEF Spec

\* Every variable of the gateway keeps its type; in particular the watchdog's age never
\* runs past Timeout + 1 and a null key never reaches _command_state.
THEOREM GatewayTypeCorrect == Spec => []TypeOK
<1> QED BY GatewayTypeInvariant, PTL

-----------------------------------------------------------------------------
(* The gateway: the robot is watched while it may move                     *)

\* Commands agree with the state and the watchdog runs: an armed state may be left by
\* the server or by a reconnect without a command to the robot, so what is inductive is
\* about the last commands, not about the state.
Watched == CommandsMatchState /\ DriveIsWatched

LEMMA WatchedStep ==
  ASSUME TypeOK, Watched, Next
  PROVE  Watched'
<1> USE GatewayAssumption
<1> USE DEF TypeOK, FsmTypeOK, CommandStates, Watched, CommandsMatchState, DriveIsWatched, Driving
<1>1. ASSUME NEW o \in Operators \cup {None}, NEW s \in SessionState, Joined(s, o)
      PROVE  Watched'
  BY <1>1, ServerStatesFacts DEF Joined, PublishNothing
<1>2. ASSUME NEW o \in Operators \cup {None}, OwnershipMessage(o)
      PROVE  Watched'
  BY <1>2 DEF OwnershipMessage, PublishNothing, on_ownership, StateAfterOwner
<1>3. CASE Offer
  BY <1>3 DEF Offer, PublishNothing, on_peer_connected, Goto, fsm
<1>4. ASSUME NEW engaged \in BOOLEAN, NEW reset \in BOOLEAN, Estop(engaged, reset)
      PROVE  Watched'
  <2>1. /\ command_state'.enabled = is_armed'
        /\ command_state'.clutched = (state' = "CLUTCHED")
        /\ ~is_estopped' => command_state'.mode = command_state.mode
        /\ UNCHANGED <<age, tripped>>
    <3>1. is_armed' \in BOOLEAN /\ (state' = "CLUTCHED") \in BOOLEAN
      BY DEF is_armed
    <3>2. Publish(Command(is_armed', state' = "CLUTCHED",
                          IF is_estopped' THEN "ESTOPPED" ELSE None, None))
      BY <1>4 DEF Estop
    <3>3. /\ command_state'.enabled = is_armed'
          /\ command_state'.clutched = (state' = "CLUTCHED")
      BY <3>1, <3>2, PublishedEnabled, PublishedClutched
    <3>4. ~is_estopped' => command_state'.mode = command_state.mode
      BY <3>2, PublishedNull
    <3> QED BY <1>4, <3>3, <3>4 DEF Estop
  <2>2. /\ is_armed' => state' = state
        /\ is_armed' <=> state' \in {"ARMED", "CLUTCHED"}
        /\ is_armed' => ~is_estopped'
    BY <1>4 DEF Estop, on_estop, StateAfterEstop, Goto, is_armed, is_estopped, Idle
  <2> QED BY <2>1, <2>2
<1>5. ASSUME NEW o \in Operators, Enable(o)
      PROVE  Watched'
  <2>1. command_state'.enabled = TRUE /\ command_state'.clutched = FALSE /\ command_state'.mode = "TRACKING"
    BY <1>5, PublishedEnabled, PublishedClutched, PublishedMode DEF Enable, Modes
  <2> QED BY <1>5, <2>1 DEF Enable, on_enable, Goto, feed
<1>6. ASSUME NEW o \in Operators, Disable(o)
      PROVE  Watched'
  <2>1. command_state'.enabled = FALSE
    BY <1>6, PublishedEnabled DEF Disable
  <2> QED BY <1>6, <2>1 DEF Disable, on_disable, Goto
<1>7. ASSUME NEW o \in Operators, Home(o)
      PROVE  Watched'
  <2>1. /\ command_state'.enabled = command_state.enabled
        /\ command_state'.mode = "HOMING"
    BY <1>7, PublishedNull, PublishedMode DEF Home, Modes
  <2> QED BY <1>7, <2>1 DEF Home, is_armed
<1>8. ASSUME NEW o \in Operators, Gripper(o)
      PROVE  Watched'
  <2>1. /\ command_state'.enabled = command_state.enabled
        /\ command_state'.clutched = command_state.clutched
        /\ command_state'.mode = command_state.mode
    BY <1>8, PublishedNull DEF Gripper
  <2> QED BY <1>8, <2>1 DEF Gripper
<1>9. ASSUME NEW o \in Operators, NEW engaged \in BOOLEAN, Clutch(o, engaged)
      PROVE  Watched'
  <2>1. command_state'.enabled = TRUE /\ command_state'.clutched = engaged /\ command_state'.mode = "TRACKING"
    BY <1>9, PublishedEnabled, PublishedClutched, PublishedMode DEF Clutch, Modes
  <2> QED BY <1>9, <2>1 DEF Clutch, on_clutch, Goto, feed
<1>10. ASSUME NEW o \in Operators, NEW q \in Seqs, LeaderState(o, q)
       PROVE  Watched'
  <2>1. /\ command_state'.enabled = TRUE
        /\ command_state'.clutched = (state = "CLUTCHED")
        /\ command_state'.mode = "TRACKING"
    <3>1. (state = "CLUTCHED") \in BOOLEAN
      BY Zenon
    <3> QED BY <1>10, <3>1, PublishedEnabled, PublishedClutched, PublishedMode DEF LeaderState, Modes
  <2> QED BY <1>10, <2>1 DEF LeaderState, is_armed, feed
<1>11. CASE Tick
  BY <1>11 DEF Tick, PublishNothing
<1>12. CASE WatchdogTimeout
  <2>1. command_state'.enabled = FALSE
    BY <1>12, PublishedEnabled DEF WatchdogTimeout
  <2> QED BY <1>12, <2>1 DEF WatchdogTimeout, on_freeze, is_armed, Goto, fsm
<1> QED BY <1>1, <1>2, <1>3, <1>4, <1>5, <1>6, <1>7, <1>8, <1>9, <1>10, <1>11, <1>12 DEF Next

LEMMA WatchedInvariant == Spec => []Watched
<1>1. Init => Watched
  BY DEF Init, FsmInit, Watched, CommandsMatchState, DriveIsWatched, Driving
<1>2. TypeOK /\ Watched /\ [Next]_vars => Watched'
  <2>1. Watched /\ UNCHANGED vars => Watched'
    BY DEF vars, Watched, CommandsMatchState, DriveIsWatched, Driving
  <2> QED BY <2>1, WatchedStep
<1> QED BY <1>1, <1>2, GatewayTypeCorrect, PTL DEF Spec

\* Whenever the last commands let the arm track, the watchdog is running.
THEOREM DriveAlwaysWatched == Spec => []DriveIsWatched
<1>1. Watched => DriveIsWatched
  BY DEF Watched
<1> QED BY <1>1, WatchedInvariant, PTL

\* Armed means tracking, clutched held and frozen disabled, in the last commands.
THEOREM CommandsAlwaysMatch == Spec => []CommandsMatchState
<1>1. Watched => CommandsMatchState
  BY DEF Watched
<1> QED BY <1>1, WatchedInvariant, PTL

-----------------------------------------------------------------------------
(* The gateway: no packet twice                                            *)

\* While armed, the sequence numbers injected since the last enable lie at or below the
\* last accepted one.  Disable and e-stop forget last_seq, but both leave the armed
\* states, and the only way back is an enable.
SeqsBehind == is_armed => \A q \in applied : last_seq # None /\ q <= last_seq

LEMMA SeqsBehindStep ==
  ASSUME TypeOK, SeqsBehind, Next
  PROVE  SeqsBehind'
<1> USE GatewayAssumption
<1> USE DEF TypeOK, SeqsBehind, is_armed
<1>1. ASSUME NEW o \in Operators \cup {None}, NEW s \in SessionState, Joined(s, o)
      PROVE  SeqsBehind'
  BY <1>1, ServerStatesFacts DEF Joined
<1>2. ASSUME NEW o \in Operators \cup {None}, OwnershipMessage(o)
      PROVE  SeqsBehind'
  BY <1>2 DEF OwnershipMessage, on_ownership, StateAfterOwner
<1>3. CASE Offer
  BY <1>3 DEF Offer, on_peer_connected, Goto, fsm
<1>4. ASSUME NEW engaged \in BOOLEAN, NEW reset \in BOOLEAN, Estop(engaged, reset)
      PROVE  SeqsBehind'
  BY <1>4 DEF Estop, on_estop, StateAfterEstop, Goto, is_estopped, Idle
<1>5. ASSUME NEW o \in Operators, Enable(o) \/ Disable(o)
      PROVE  SeqsBehind'
  BY <1>5 DEF Enable, Disable, on_enable, on_disable, Goto
<1>6. ASSUME NEW o \in Operators, Home(o) \/ Gripper(o)
      PROVE  SeqsBehind'
  BY <1>6 DEF Home, Gripper
<1>7. ASSUME NEW o \in Operators, NEW engaged \in BOOLEAN, Clutch(o, engaged)
      PROVE  SeqsBehind'
  BY <1>7 DEF Clutch, on_clutch, Goto
<1>8. ASSUME NEW o \in Operators, NEW q \in Seqs, LeaderState(o, q)
      PROVE  SeqsBehind'
  BY <1>8 DEF LeaderState, Accepts, Seqs
<1>9. CASE Tick
  BY <1>9 DEF Tick
<1>10. CASE WatchdogTimeout
  BY <1>10 DEF WatchdogTimeout, on_freeze, Goto, fsm
<1> QED BY <1>1, <1>2, <1>3, <1>4, <1>5, <1>6, <1>7, <1>8, <1>9, <1>10 DEF Next

\* A packet that is injected is newer than all that were injected since the enable.
InjectsForward == \A q \in applied : \A i \in DOMAIN published' :
                    published'[i].joints # None => q < published'[i].joints

LEMMA StepInjectsForward ==
  ASSUME TypeOK, SeqsBehind, Next
  PROVE  InjectsForward
<1> SUFFICES ASSUME NEW p \in applied, NEW i \in DOMAIN published'
             PROVE  published'[i].joints # None => p < published'[i].joints
  BY DEF InjectsForward
<1>1. p \in Seqs /\ p # None
  BY GatewayAssumption DEF TypeOK, Seqs
<1>2. ASSUME NEW o \in Operators, NEW q \in Seqs, LeaderState(o, q)
      PROVE  p < published'[i].joints
  <2>1. published'[i].joints = q
    BY <1>2 DEF LeaderState, Publish, Command
  <2>2. p < q
    BY <1>1, <1>2, GatewayAssumption DEF LeaderState, Accepts, SeqsBehind, TypeOK, Seqs
  <2> QED BY <2>1, <2>2
<1>3. ASSUME PublishNothing
      PROVE  FALSE
  BY <1>3 DEF PublishNothing
<1>4. ASSUME NEW enabled, NEW clutched, NEW mode, Publish(Command(enabled, clutched, mode, None))
      PROVE  published'[i].joints = None
  BY <1>4 DEF Publish, Command
<1> QED
  BY <1>2, <1>3, <1>4 DEF Next, Joined, OwnershipMessage, Offer, Estop, Enable, Disable,
     Clutch, Home, Gripper, Tick, WatchdogTimeout

\* Between one enable and the next, leader packets are injected in the order of their numbers,
\* and no number twice.
THEOREM PacketsNeverReplayed == Spec => NoReplay
<1>1. Init => SeqsBehind
  BY DEF Init, SeqsBehind
<1>2. TypeOK /\ SeqsBehind /\ [Next]_vars => SeqsBehind'
  <2>1. SeqsBehind /\ UNCHANGED vars => SeqsBehind'
    BY DEF vars, SeqsBehind, is_armed
  <2> QED BY <2>1, SeqsBehindStep
<1>3. TypeOK /\ SeqsBehind /\ [Next]_vars => [InjectsForward]_vars
  BY StepInjectsForward
<1> QED BY <1>1, <1>2, <1>3, GatewayTypeCorrect, PTL DEF Spec, NoReplay, InjectsForward
=============================================================================
