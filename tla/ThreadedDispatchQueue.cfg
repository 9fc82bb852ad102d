SPECIFICATION FairSpec
CONSTANTS
  c1 = c1
  c2 = c2
  handler = handler
  Callers <- TwoCallers
  Handler <- handler
  MaxTasks = 3
  MaxTeardowns = 3
INVARIANTS TypeOK StartsOnce TeardownQuiesces
PROPERTIES SyncReturns TeardownReturns
CHECK_DEADLOCK FALSE
