\* An e-stop sent by data channel, and the gateway's websocket is lost.
SPECIFICATION TeleopSpec
CONSTANTS
  None = None
  Follower = Follower
  tabA = tabA
  tabB = tabB
  opA = opA
  opB = opB
  Operators = {opA}
  Conns = {Follower, tabA}
  RoleOf <- RoleOfMC
  OpOf <- OpOfMC
  Names <- OwnNames
  Timeout = 0
  MaxSeq = 0
  Reconnects = TRUE
  SignalingEstops <- NoEstops
  PeerEstops <- StopAndReset
  MaxInbox = 3
PROPERTIES
  OnlyResetClearsEstop
