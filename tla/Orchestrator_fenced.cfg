SPECIFICATION ReconcilingSpec
CONSTANTS
  Keys = {k1}
  Digests = {d1}
  FirstId = 1
  LastId = 1
  MaxActive = 2
  MaxEvents = 5
  MaxFaults = 0
  LosePower = TRUE
  None = None
PROPERTIES
  FencedRunsConclude
CHECK_DEADLOCK FALSE
