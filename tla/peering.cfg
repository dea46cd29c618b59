\* A leader gateway, a browser and a follower gateway that come and go.
SPECIFICATION FairPeering
CONSTANTS
  None = None
  leader = leader
  tab = tab
  Follower = Follower
  Leaders = {leader}
  Browsers = {tab}
  MaxConns = 4
INVARIANTS
  AnswerIsExpected
PROPERTIES
  OfferIsAnswered
