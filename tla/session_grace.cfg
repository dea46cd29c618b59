\* Three tabs, two of one operator, each claiming for its own operator;
\* two read slowly.
SPECIFICATION FairTrackSpec
CONSTANTS
  follower = follower
  tabA = tabA
  tabA2 = tabA2
  tabB = tabB
  opA = opA
  opB = opB
  None = None
  Operators = {opA, opB}
  RoleOf <- RoleOfMC
  OpOf <- OpOfMC
  Conns = {tabA, tabA2, tabB}
  Slow = {tabA, tabB}
  Names <- OwnNames
INVARIANTS
  StaleIsPending
  OfflineOwnerHasTimer
PROPERTIES
  AwayOwnerIsReleased
