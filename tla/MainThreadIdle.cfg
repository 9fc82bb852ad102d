SPECIFICATION Spec
CONSTANTS
  main = main
  js = js
  raster = raster
  Threads <- OneThread
  Main <- main
  MaxTasks = 2
  MaxCalls = 1
  CanTearDown = TRUE
PROPERTIES IdleMeansIdle
CHECK_DEADLOCK FALSE
