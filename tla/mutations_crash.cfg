SPECIFICATION Spec
CONSTANTS
  m1 = m1
  m2 = m2
  m3 = m3
  Mutations = {m1, m2, m3}
  Held = {m1}
  None = None
  Connections = {"none", "wifi"}
  MaxNotices = 1
  MaxCrashes = 1
  MaxRetries = 0
CHECK_DEADLOCK FALSE
INVARIANTS
  DiskMirrorsQueue
  AnswerRemovesItsOwn
  NoOvertaking
  KeptUntilAnswered
  BoundedDuplicates
PROPERTIES Delivers
