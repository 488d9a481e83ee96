CONSTANTS
  MaxJobs = 3
  MaxDrains = 1
  MaxStops = 2
SPECIFICATION FairSpec
INVARIANTS ExitLeavesNothing StoppedMeansReleased
PROPERTIES DrainOnlyWhenQuiet RequestsAnswered
CHECK_DEADLOCK FALSE
