SPECIFICATION Spec
CONSTANTS
  Keys = {k1}
  Digests = {d1}
  FirstId = 9
  LastId = 11
  MaxActive = 2
  MaxEvents = 5
  MaxFaults = 2
  LosePower = FALSE
  None = None
INVARIANTS
  OneHandlePerKey
CHECK_DEADLOCK FALSE
