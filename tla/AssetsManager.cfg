SPECIFICATION FairSpec
CONSTANTS
  l1 = l1
  l2 = l2
  Keys <- SomeKeys
  Locations <- TwoLocations
  Found = l1
  NoLocation = NoLocation
  MaxConsumers = 2
  MaxResolves = 2
  MaxRequests = 4
  MaxCalls = 3
  MaxAnswers = 1
  MaxDepth = 1
INVARIANTS TypeOK RequestsCounted FreshLoads AnswersAwaited NoStrandedUpdate NoStrandedRequest CancelledKeepsNothing
PROPERTIES ObserversTold
CHECK_DEADLOCK FALSE
