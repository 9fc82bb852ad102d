SPECIFICATION FairSpec
CONSTANTS
  MaxTasks = 4
INVARIANTS TypeOK ExitsWhenIdle
PROPERTIES KeepsTrack EventuallyExits TeardownEnds
CHECK_DEADLOCK FALSE
