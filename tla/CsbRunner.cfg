SPECIFICATION CsbSpec
CONSTANTS
  l1 = l1
  l2 = l2
  Launches = {l1, l2}
  CpusOf <- OwnCpus
  Runs = {r1}
  Sessions = {s1, s2}
  MaxInFlight = 1
  MaxFaults = 2
  None = None
SYMMETRY Symmetry
CHECK_DEADLOCK FALSE
INVARIANTS
  SpawnedOnce
  IntentBeforeSpawn
  OutcomeMeansGone
  CompletedIsEarned
  ReleasedWithEvidence
