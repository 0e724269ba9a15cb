SPECIFICATION Spec
CONSTANTS
  i1 = i1
  i2 = i2
  Items = {i1}
  None = None
  Slack = 1
  BaseInterval = 1
  HasSubscription = TRUE
  HasDelta = FALSE
  SubscribingFails = TRUE
  QueriesFail = TRUE
  BackendRejects = FALSE
  Prompt = TRUE
  Disorder = TRUE
  MayCancel = TRUE
  MaxTravel = 1
  MaxChanges = 2
  MaxTime = 0
  MaxNotices = 1
  MaxDrops = 1
  MaxCrashes = 1
CHECK_DEADLOCK FALSE
INVARIANTS InOrderOnce
PROPERTIES HeldBack
