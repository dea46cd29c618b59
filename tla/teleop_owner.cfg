\* One operator who comes and goes; e-stops by websocket only.
SPECIFICATION FairTeleop
CONSTANTS
  None = None
  Follower = Follower
  tabA = tabA
  tabB = tabB
  opA = opA
  opB = opB
  Operators = {opA}
  Conns = {Follower, tabA}
  RoleOf <- RoleOfMC
  OpOf <- OpOfMC
  Names <- OwnNames
  Timeout = 0
  MaxSeq = 1
  Reconnects = TRUE
  SignalingEstops <- StopAndReset
  PeerEstops <- NoEstops
  MaxInbox = 3
INVARIANTS
  FollowerLearnsOwner
  EstopAgrees
PROPERTIES
  AwayOwnerIsDisarmed
