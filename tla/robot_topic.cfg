\* A node that lags until the topic drops commands, and a gateway that is restarted.
SPECIFICATION FairRobot
CONSTANTS
  None = None
  Local = Local
  opA = opA
  opB = opB
  Operators = {opA}
  Timeout = 0
  MaxSeq = 1
  Reconnects = FALSE
  Restarts = TRUE
  Depth = 2
INVARIANTS
  NodeTypeOK
  DrivesOnlyArmed
  RemoteStillWhenStopped
  FoldsAgree
PROPERTIES
  DeadmanReachesRobot
