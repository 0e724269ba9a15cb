SPECIFICATION Spec
CONSTANTS
  w1 = w1
  w2 = w2
  w3 = w3
  t1 = t1
  t2 = t2
  n1 = n1
  n2 = n2
  Watchers = {w1, w3}
  Topics = {t1, t2}
  TopicsOf <- MCTopicsOf
  Connections = {n1}
  ConnectionOf <- MCOneConnection
  None = None
  MayCancel = TRUE
  Outcomes = {"ok", "error"}
  MaxClients = 2
  MaxDrops = 1
  MaxMessages = 0
CHECK_DEADLOCK FALSE
INVARIANTS
  TypeOK
  UnusedReleased
  ServedUnlessSkipped
