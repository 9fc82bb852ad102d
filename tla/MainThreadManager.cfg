SPECIFICATION Spec
CONSTANTS
  main = main
  js = js
  raster = raster
  Threads <- TwoThreads
  Main <- main
  MaxTasks = 2
  MaxCalls = 2
  CanTearDown = TRUE
INVARIANTS TypeOK NoStrandedTask NoMissedWakeup BatchesBalanced PumpsAreComplete
PROPERTIES PumpsAreBounded SyncTaskRan
CHECK_DEADLOCK FALSE
