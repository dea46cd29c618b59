\* A claim made from outside the owner's websocket outlives the grace period.
SPECIFICATION FairSpec
CONSTANTS
  follower = follower
  tabA = tabA
  tabA2 = tabA2
  tabB = tabB
  opA = opA
  opB = opB
  None = None
  Operators = {opA, opB}
  RoleOf <- RoleOfMC
  OpOf <- OpOfMC
  Conns = {tabA, tabB}
  Slow = {}
  Names <- HttpNames
PROPERTIES
  GraceEnds
