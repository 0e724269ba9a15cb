SPECIFICATION Spec
CONSTANTS
  t1 = t1
  t2 = t2
  t3 = t3
  Ids = {t1, t2, t3}
  EmptyId = EmptyId
  NoTask = NoTask
  NotCached = NotCached
  DayLength = 2
  Tabs = {"dashboard"}
  ServiceOf <- DashboardMemory
  InitialStores <- TwoOrThreeTasks
  InitialItems <- NoItems
  NoDate = NoDate
  FirstNow = 5
  LastNow = 6
  MaxCalls = 0
CHECK_DEADLOCK FALSE
INVARIANTS KeyedById RowsResolve NoDuplicateRows
PROPERTIES DropSticks DropLandsInSection
