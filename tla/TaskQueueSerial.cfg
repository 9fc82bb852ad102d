SPECIFICATION FairSpec
CONSTANTS
  c1 = c1
  c2 = c2
  w1 = w1
  w2 = w2
  Callers <- TwoCallers
  Workers <- OneWorker
  MaxTasks = 3
  MaxTime = 1
  Concurrencies <- Serial
  CanDispose = TRUE
INVARIANTS TypeOK RunningCount BarrierExclusive EmptyIsIdle
PROPERTIES IsOrderedExecutor HandlersExit
CHECK_DEADLOCK FALSE
