SPECIFICATION FairSpec
CONSTANTS
  Plans <- SmallPlans
  Overrun = 1
  None = None
CHECK_DEADLOCK FALSE
INVARIANTS
  EveryAttemptAccounted
  BoundedWork
  FailureBudget
PROPERTIES
  ReasonsAreFinal
  PointEnds
