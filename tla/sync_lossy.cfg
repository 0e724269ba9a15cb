SPECIFICATION Spec
CONSTANTS
  i1 = i1
  i2 = i2
  Items = {i1}
  None = None
  Slack = 1
  BaseInterval = 2
  HasSubscription = TRUE
  HasDelta = TRUE
  SubscribingFails = FALSE
  QueriesFail = FALSE
  BackendRejects = TRUE
  Prompt = TRUE
  Disorder = FALSE
  MayCancel = FALSE
  MaxTravel = 1
  MaxChanges = 2
  MaxTime = 2
  MaxNotices = 1
  MaxDrops = 1
  MaxCrashes = 0
CHECK_DEADLOCK FALSE
INVARIANTS
  TypeOK
  NothingSkipped
  NoGap
