SPECIFICATION FairSpec
CONSTANTS
  c1 = c1
  c2 = c2
  w1 = w1
  w2 = w2
  Callers <- TwoCallers
  Workers <- TwoWorkers
  MaxTasks = 3
  MaxTime = 1
  Concurrencies <- UpToTwo
  CanDispose = FALSE
PROPERTIES TasksLeave
