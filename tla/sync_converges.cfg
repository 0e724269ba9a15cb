SPECIFICATION FairSpec
CONSTANTS
  i1 = i1
  i2 = i2
  Items = {i1}
  None = None
  Slack = 0
  BaseInterval = 0
  HasSubscription = TRUE
  HasDelta = TRUE
  SubscribingFails = FALSE
  QueriesFail = TRUE
  BackendRejects = TRUE
  Prompt = TRUE
  Disorder = FALSE
  MayCancel = FALSE
  MaxTravel = 0
  MaxChanges = 2
  MaxTime = 1
  MaxNotices = 0
  MaxDrops = 1
  MaxCrashes = 0
CHECK_DEADLOCK FALSE
PROPERTIES Converges
