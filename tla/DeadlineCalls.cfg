SPECIFICATION FairSpec
CONSTANTS
  c1 = c1
  c2 = c2
  c3 = c3
  Calls <- ThreeCalls
  Width = 8
  CanDispose = TRUE
INVARIANTS TypeOK OverdueCount OneWinner
PROPERTIES CallsReturn EveryCallRuns BreakerCloses
CHECK_DEADLOCK FALSE
