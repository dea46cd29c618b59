------------------------- MODULE TeleopStateMachine -------------------------
(***************************************************************************)
(* The follower gateway's session/teleop state machine: the class          *)
(* TeleopStateMachine, one action per method.  FollowerGateway's handlers  *)
(* are built from these actions, and FsmSpec, in which the methods are     *)
(* called in any order, is what the class itself promises.                 *)
(***************************************************************************)
CONSTANTS Operators,  \* operator ids
          None        \* Python's None

VARIABLES state, owner_operator_id

fsm == <<state, owner_operator_id>>

SessionState ==
  {"DISCONNECTED", "CONNECTED", "READY", "CLAIMED", "ARMED", "CLUTCHED", "FROZEN", "ESTOPPED"}

ASSUME NoneIsNoOperator == None \notin Operators

FsmTypeOK == state \in SessionState /\ owner_operator_id \in Operators \cup {None}

is_armed == state \in {"ARMED", "CLUTCHED"}
is_estopped == state = "ESTOPPED"

FsmInit == state = "DISCONNECTED" /\ owner_operator_id = None

Goto(s) == state' = s /\ UNCHANGED owner_operator_id

\* The resting state of a session without, and with, an owner.
Idle == IF owner_operator_id = None THEN "READY" ELSE "CLAIMED"

on_peer_connected ==
  IF state = "DISCONNECTED" THEN Goto("CONNECTED") ELSE UNCHANGED fsm

\* on_health_lost is the same operation.
on_peer_lost ==
  IF is_estopped THEN UNCHANGED fsm ELSE Goto("DISCONNECTED")

on_health_ok ==
  IF state = "DISCONNECTED" \/ (state = "CONNECTED" /\ owner_operator_id = None)
  THEN Goto(Idle) ELSE UNCHANGED fsm

\* Variant: a transfer between owners leaves the state alone.
StateAfterKeptArm(o) ==
  IF o = None /\ state \in {"CLAIMED", "ARMED", "CLUTCHED", "FROZEN"} THEN "READY"
  ELSE IF o # None /\ state \in {"CONNECTED", "READY"} THEN "CLAIMED"
  ELSE state

\* Variant: a loss of the owner readies the session whatever its state.
StateAfterAnyLoss(o) ==
  IF o = None THEN "READY"
  ELSE IF o # None /\ state \in {"CONNECTED", "READY", "ARMED", "CLUTCHED", "FROZEN"} THEN "CLAIMED"
  ELSE state

\* Variant: only an armed session loses its state with its owner.
StateAfterArmedLoss(o) ==
  IF o = None /\ is_armed THEN "READY"
  ELSE IF o # None /\ state \in {"CONNECTED", "READY", "ARMED", "CLUTCHED", "FROZEN"} THEN "CLAIMED"
  ELSE state

\* The state after the owner changes to o; the e-stop and a missing peer stay.
StateAfterOwner(o) ==
  IF o = None /\ state \in {"CLAIMED", "ARMED", "CLUTCHED", "FROZEN"} THEN "READY"
  ELSE IF o # None /\ state \in {"CONNECTED", "READY", "ARMED", "CLUTCHED", "FROZEN"} THEN "CLAIMED"
  ELSE state

\* Variant: an ownership message is ignored during an e-stop.
on_ownership_unless_estopped(o) ==
  /\ owner_operator_id' = IF is_estopped THEN owner_operator_id ELSE o
  /\ state' = IF o = owner_operator_id THEN state ELSE StateAfterOwner(o)

on_ownership(o) ==
  /\ owner_operator_id' = o
  /\ state' = IF o = owner_operator_id THEN state ELSE StateAfterOwner(o)

\* The methods that return a bool are the cases in which they return True;
\* otherwise they change nothing.
on_enable == state = "CLAIMED" /\ Goto("ARMED")

on_disable == state \in {"ARMED", "CLUTCHED", "FROZEN"} /\ Goto("CLAIMED")

on_clutch(engaged) ==
  \/ engaged /\ state = "ARMED" /\ Goto("CLUTCHED")
  \/ ~engaged /\ state = "CLUTCHED" /\ Goto("ARMED")

\* Variant: a clutched session is not frozen.
on_freeze_unless_clutched ==
  IF state = "ARMED" THEN Goto("FROZEN") ELSE UNCHANGED fsm

on_freeze ==
  IF is_armed THEN Goto("FROZEN") ELSE UNCHANGED fsm

on_unfreeze == state = "FROZEN" /\ Goto("CLAIMED")

\* Variant: a reset resumes the owner's session.
StateAfterResume(engaged, reset) ==
  IF engaged THEN "ESTOPPED"
  ELSE IF reset /\ is_estopped THEN IF owner_operator_id = None THEN "READY" ELSE "ARMED"
  ELSE state

\* engaged is looked at first.
StateAfterEstop(engaged, reset) ==
  IF engaged THEN "ESTOPPED"
  ELSE IF reset /\ is_estopped THEN Idle ELSE state

on_estop(engaged, reset) == Goto(StateAfterEstop(engaged, reset))

FsmNext ==
  \/ on_peer_connected \/ on_peer_lost \/ on_health_ok
  \/ on_enable \/ on_disable \/ on_freeze \/ on_unfreeze
  \/ \E o \in Operators \cup {None} : on_ownership(o)
  \/ \E engaged \in BOOLEAN : on_clutch(engaged)
  \/ \E engaged, reset \in BOOLEAN : on_estop(engaged, reset)

FsmSpec == FsmInit /\ [][FsmNext]_fsm

-----------------------------------------------------------------------------
(* Properties                                                              *)

\* Nobody's session is claimed, armed, clutched or frozen: each of these states has
\* an owner, through every order of ownership, health, peer and e-stop events.
OwnedStates ==
  state \in {"CLAIMED", "ARMED", "CLUTCHED", "FROZEN"} => owner_operator_id # None

\* Arming is personal: no step hands an armed, clutched or frozen session to another
\* operator, who would drive without having enabled.
ArmingIsPersonal ==
  [][owner_operator_id' # owner_operator_id
       => state' \notin {"ARMED", "CLUTCHED", "FROZEN"}]_fsm

\* The e-stop can only be cleared by an explicit reset (state_machine.py: "ESTOP is
\* always processed regardless of current state, and can only be cleared via an
\* explicit reset").
OnlyResetClearsEstop ==
  [][is_estopped /\ state' # "ESTOPPED" => on_estop(FALSE, TRUE)]_fsm
=============================================================================
