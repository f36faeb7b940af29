SPECIFICATION FairSpec
CONSTANTS
  l1 = l1
  l2 = l2
  Launches = {l1, l2}
  CpusOf <- SharedCpu
  MaxFaults = 2
  None = None
CHECK_DEADLOCK FALSE
INVARIANTS
  FreeCpusAreIdle
  StrangersAreSafe
  CleanupReleases
PROPERTIES
  CallsReturn
