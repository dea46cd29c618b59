\* Two operators, one at a leader arm; the gateway's websocket to the signaling server
\* may be lost at any time.
SPECIFICATION LinkSpec
CONSTANTS
  None = None
  opA = opA
  opB = opB
  Operators = {opA, opB}
  Leaders = {opA}
  Timeout = 1
  MaxAge = 1
  MaxSeq = 3
  MaxFlight = 2
  Reconnects = TRUE
INVARIANTS
  TypeOK
  LinkTypeOK
  OwnedStates
  DriveIsWatched
  CommandsMatchState
  FreezeHasCause
PROPERTIES
  ArmingIsPersonal
  NoReplay
