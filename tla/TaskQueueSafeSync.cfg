SPECIFICATION Spec
CONSTANTS
  c1 = c1
  c2 = c2
  w1 = w1
  w2 = w2
  Callers <- TwoCallers
  Workers <- OneWorker
  MaxTasks = 2
  MaxTime = 0
  Concurrencies <- Serial
  CanDispose = TRUE
INVARIANTS SyncExecuted
CHECK_DEADLOCK FALSE
