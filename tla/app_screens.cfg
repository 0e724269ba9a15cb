SPECIFICATION Spec
CONSTANTS
  t1 = t1
  t2 = t2
  t3 = t3
  Ids = {t1, t2, t3}
  EmptyId = EmptyId
  NoTask = NoTask
  NotCached = NotCached
  DayLength = 2
  Tabs = {"dashboard", "todo", "done"}
  ServiceOf <- AppServices
  InitialStores <- MixedStores
  InitialItems <- SomeItems
  NoDate = NoDate
  FirstNow = 5
  LastNow = 6
  MaxCalls = 3
CHECK_DEADLOCK FALSE
INVARIANTS TypeOK VisibleFresh DashboardMatchesServer
PROPERTIES DeletedStaysDeleted OneStatusAtATime WipOutOfReach 
