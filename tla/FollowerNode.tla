---------------------------- MODULE FollowerNode ----------------------------
(***************************************************************************)
(* follower.py: the ROS node that moves the arm.  It takes the gateway's   *)
(* commands from the topic /teleop_remote_command and the positions of a   *)
(* leader arm on its own machine from /leader_joint_states.                *)
(*                                                                         *)
(* A command is a record with the keys the node reads: enabled, clutched,  *)
(* mode and joints (leader_jointstates), None for a key that is not there. *)
(* The gateway sends null for no key but mode, and a null mode is ignored. *)
(***************************************************************************)
EXTENDS Sequences

CONSTANTS None, Local  \* Local: the joints came from the leader arm next to the robot

HOLD_MODES == {"ESTOPPED", "FROZEN", "IDLE", "HOMING"}

VARIABLES
  topic,            \* commands published and not yet taken
  remote_enabled,
  remote_clutched,
  remote_mode,
  driven            \* what the last step sent to the arm: None, Local or the
                    \* command its joints came in

remote == <<remote_enabled, remote_clutched, remote_mode>>

\* What the node keeps of the commands has its type.
NodeTypeOK ==
  /\ remote_enabled \in BOOLEAN
  /\ remote_clutched \in BOOLEAN
  /\ remote_mode \in HOLD_MODES \cup {"TRACKING"}

NodeInit ==
  /\ topic = <<>>
  /\ remote_enabled = FALSE
  /\ remote_clutched = FALSE
  /\ remote_mode = "IDLE"
  /\ driven = None

\* Variant: a missing key counts as false.
KeyOrFalse(new, old) == IF new = None THEN FALSE ELSE new

\* Variant: the mode is taken as it is.
ModeOrNull(new, old) == new

Key(new, old) == IF new = None THEN old ELSE new
Mode(new, old) == IF new = None THEN old ELSE new

\* Variant: the clutch is not looked at.
HoldsUnlessClutched == ~remote_enabled' \/ remote_mode' \in HOLD_MODES

Holds == ~remote_enabled' \/ remote_clutched' \/ remote_mode' \in HOLD_MODES

\* A write to the servo bus that raises is caught and logged.
DriveAndReport(joints) == driven' \in {joints, None}

RemoteCommand ==
  /\ topic # <<>>
  /\ topic' = Tail(topic)
  /\ LET command == Head(topic)
     IN /\ remote_enabled' = Key(command.enabled, remote_enabled)
        /\ remote_clutched' = Key(command.clutched, remote_clutched)
        /\ remote_mode' = Mode(command.mode, remote_mode)
        /\ IF Holds \/ command.joints = None
           THEN driven' = None
           ELSE DriveAndReport(command)

\* The local path is gated by nothing.
JointStates ==
  /\ DriveAndReport(Local)
  /\ UNCHANGED <<topic, remote>>
=============================================================================
