SPECIFICATION FairSpec
CONSTANTS
  m1 = m1
  m2 = m2
  m3 = m3
  Mutations = {m1, m2}
  Held = {}
  None = None
  Connections = {"none", "wifi", "cellular"}
  MaxNotices = 2
  MaxCrashes = 0
  MaxRetries = 1
CHECK_DEADLOCK FALSE
INVARIANTS
  TypeOK
  GroupCountsRequests
  BoundedDuplicates
PROPERTIES
  DrainEnds
  DeliversFairly
