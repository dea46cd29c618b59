---------------------------- MODULE RobotControl ----------------------------
(***************************************************************************)
(* The robot's machine: the follower gateway, the topic it publishes its   *)
(* commands on, and the node follower.py that moves the arm.  The node may *)
(* lag until the topic drops commands, and the gateway's process may end   *)
(* and start again while the node keeps what it was told.                  *)
(***************************************************************************)
EXTENDS FollowerGateway, SequencesExt

CONSTANTS
  Local,
  Depth,     \* history depth of /teleop_remote_command, keep last
  Restarts   \* TRUE: the gateway's process may end and start again

VARIABLES
  topic, remote_enabled, remote_clutched, remote_mode, driven,
  missed     \* history: what has been lost since the last complete command:
             \* "nothing", a "command" of the topic, or the "gateway" itself

Node == INSTANCE FollowerNode

node == <<topic, remote_enabled, remote_clutched, remote_mode, driven>>

ASSUME RobotAssumption == Depth \in Nat \ {0} /\ Restarts \in BOOLEAN

\* A command as it lies in the topic, stamped with the state that published it
\* (the stamp is history: the node does not read it).
Stamped(c) ==
  [enabled |-> c.enabled, clutched |-> c.clutched, mode |-> c.mode, joints |-> c.joints,
   at |-> state']

\* Variant: the newest commands are dropped.
KeepFirst(s) == SubSeq(s, 1, IF Len(s) > Depth THEN Depth ELSE Len(s))

\* The topic keeps the last Depth commands.
KeepLast(s) == SubSeq(s, IF Len(s) > Depth THEN Len(s) - Depth + 1 ELSE 1, Len(s))

RobotInit == Init /\ Node!NodeInit /\ missed = "nothing"

\* A command that tells the node everything it keeps.
Complete(c) == None \notin {c.enabled, c.clutched, c.mode}

\* One step of the gateway; what it publishes joins the topic.
Gateway ==
  /\ Next
  /\ LET queue == topic \o [i \in DOMAIN published' |-> Stamped(published'[i])]
     IN /\ topic' = KeepLast(queue)
        /\ missed' = IF \E i \in DOMAIN published' : Complete(published'[i]) THEN "nothing"
                     ELSE IF Len(queue) > Depth /\ missed = "nothing" THEN "command"
                     ELSE missed
  /\ driven' = None
  /\ UNCHANGED <<remote_enabled, remote_clutched, remote_mode>>

\* The gateway's process ends and starts again: a new state machine, watchdog and
\* command state.  What it had published still reaches the node.
GatewayRestart ==
  /\ Restarts
  /\ joined
  /\ state' = "DISCONNECTED" /\ owner_operator_id' = None
  /\ joined' = FALSE /\ peers' = FALSE
  /\ disarm
  /\ last_seq' = None /\ seq_from' = None /\ applied' = {}
  /\ command_state' = [enabled |-> FALSE, clutched |-> FALSE, mode |-> "IDLE"]
  /\ published' = <<>>
  /\ missed' = "gateway"
  /\ driven' = None
  /\ UNCHANGED <<topic, remote_enabled, remote_clutched, remote_mode>>

\* The gateway is not in a step of the node.
GatewayIdle ==
  /\ PublishNothing
  /\ UNCHANGED <<state, owner_operator_id, joined, peers, age, tripped, last_seq,
                 applied, seq_from, missed>>

NodeTakes == Node!RemoteCommand /\ GatewayIdle
NodeLocal == Node!JointStates /\ GatewayIdle

RobotNext == Gateway \/ GatewayRestart \/ NodeTakes \/ NodeLocal

robotVars == <<vars, node, missed>>

RobotSpec == RobotInit /\ [][RobotNext]_robotVars

\* asyncio wakes the watchdog's poll, and rclpy spins the node's callbacks.
RobotFairness ==
  /\ WF_robotVars(Gateway /\ (Tick \/ WatchdogTimeout))
  /\ WF_robotVars(NodeTakes)

FairRobot == RobotSpec /\ RobotFairness

-----------------------------------------------------------------------------
(* Properties                                                              *)

\* What follower.py keeps of the commands has its type; a null never reaches it.
NodeTypeOK == Node!NodeTypeOK

\* The arm tracks the remote operator only with packets the gateway accepted while
\* ARMED (follower.py: "so the arm only tracks the remote operator while the session is
\* armed"), whatever commands the topic has dropped, and also while a gateway that was
\* restarted has not yet told the node anything.
DrivesOnlyArmed == driven \notin {None, Local} => driven.at = "ARMED"

\* Once the commands of a gateway that was stopped by a teleop.estop have reached the
\* node, no remote packet moves the arm: the e-stop is not overtaken or dropped.
RemoteStillWhenStopped ==
  is_estopped /\ command_state.mode = "ESTOPPED" /\ topic = <<>> => driven \in {None, Local}

\* The node and the gateway fold the same commands into the same state, each in its own
\* way, so telemetry's get_command_state tells what the robot does; one complete command
\* brings them together again after a loss or a restart.
FoldsAgree ==
  topic = <<>> /\ missed = "nothing" =>
    command_state = [enabled |-> remote_enabled, clutched |-> remote_clutched, mode |-> remote_mode]

NodeDriving == remote_enabled /\ ~remote_clutched /\ remote_mode = "TRACKING"

\* The robot's permission to move runs out unless it is renewed: wherever the leader
\* stops, and whoever owns the session meanwhile, the node holds in the end or a packet has
\* fed the watchdog again.  (A permission whose withdrawal the
\* topic dropped, or that a gateway left behind when it died, runs out only with the
\* next complete command.)
DeadmanReachesRobot == []<>(~NodeDriving \/ age = 0 \/ missed # "nothing")
=============================================================================
