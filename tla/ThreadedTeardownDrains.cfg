SPECIFICATION Spec
CONSTANTS
  c1 = c1
  c2 = c2
  handler = handler
  Callers <- OneCaller
  Handler <- handler
  MaxTasks = 2
  MaxTeardowns = 2
INVARIANT TeardownDrains
CHECK_DEADLOCK FALSE
