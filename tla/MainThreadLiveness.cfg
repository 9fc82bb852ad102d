SPECIFICATION FairSpec
CONSTANTS
  main = main
  js = js
  raster = raster
  Threads <- OneThread
  Main <- main
  MaxTasks = 2
  MaxCalls = 2
  CanTearDown = TRUE
PROPERTIES  TasksRun IdleCallbacksRun
CHECK_DEADLOCK FALSE
