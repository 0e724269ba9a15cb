SPECIFICATION FairSpec
CONSTANTS
  m1 = m1
  m2 = m2
  m3 = m3
  Mutations = {m1, m2}
  Held = {m1}
  None = None
  Connections = {"none", "wifi"}
  MaxNotices = 2
  MaxCrashes = 0
  MaxRetries = 0
CHECK_DEADLOCK FALSE
PROPERTIES DrainEnds
