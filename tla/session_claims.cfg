\* A follower gateway and two tabs of different operators, one of which reads slowly.
SPECIFICATION Spec
CONSTANTS
  follower = follower
  tabA = tabA
  tabA2 = tabA2
  tabB = tabB
  opA = opA
  opB = opB
  None = None
  Operators = {opA, opB}
  RoleOf <- RoleOfMC
  OpOf <- OpOfMC
  Conns = {follower, tabA, tabB}
  Slow = {tabB}
  Names <- HttpNames
INVARIANTS
  TypeOK
  StateIsCurrent
  GraceIsOwners
  ReleaseBroadcastIsTrue
PROPERTIES
  ImplementsOwnership
