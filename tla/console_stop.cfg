\* A data channel that fails while the robot is armed.
SPECIFICATION ConsoleSpec
CONSTANTS
  None = None
  Follower = Follower
  Tab = Tab
  opA = opA
  opB = opB
  Me = opA
  Operators = {opA, opB}
  Conns = {Follower, Tab}
  RoleOf <- RoleOfMC
  OpOf <- OpOfMC
  Names <- TabAndHttp
  Timeout = 0
  MaxSeq = 0
  Reconnects = FALSE
  SignalingEstops <- NoEstops
  PeerEstops <- NoEstops
  MaxInbox = 3
  MaxCommands = 1
INVARIANTS
  StopIsSent
