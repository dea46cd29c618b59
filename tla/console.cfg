\* An operator's tab and another operator, as they come.
SPECIFICATION ConsoleSpec
VIEW AllThatMatters
CONSTANTS
  None = None
  Follower = Follower
  Tab = Tab
  opA = opA
  opB = opB
  Me = opA
  Operators = {opA, opB}
  Conns = {Follower, Tab}
  RoleOf <- RoleOfMC
  OpOf <- OpOfMC
  Names <- TabAndHttp
  Timeout = 0
  MaxSeq = 0
  Reconnects = FALSE
  SignalingEstops <- NoEstops
  PeerEstops <- NoEstops
  MaxInbox = 3
  MaxCommands = 1
INVARIANTS
  ButtonsMatchGateway
  ArmedIsAsked
PROPERTIES
  OnlyResetClearsEstop
