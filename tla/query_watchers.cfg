SPECIFICATION FairSpec
CONSTANTS
  w1 = w1
  w2 = w2
  i1 = i1
  i2 = i2
  Watchers = {w1, w2}
  Items = {i1}
  Root = Root
  None = None
  PolicyOf <- MCPolicyOf
  Cancels = {w2}
  NetworkFails = FALSE
  MaxFetches = 3
  MaxEvents = 1
CHECK_DEADLOCK FALSE
INVARIANTS TypeOK WholeAnswers
PROPERTIES EveryFetchEnds ChangeReachesHandler
