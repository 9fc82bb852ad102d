SPECIFICATION FairSpec
CONSTANTS
  l1 = l1
  l2 = l2
  Keys <- LocalKey
  Locations <- OneLocation
  Found = l1
  NoLocation = NoLocation
  MaxConsumers = 2
  MaxResolves = 1
  MaxRequests = 4
  MaxCalls = 3
  MaxAnswers = 1
  MaxDepth = 0
PROPERTIES RemovedConsumersLeave
CHECK_DEADLOCK FALSE
