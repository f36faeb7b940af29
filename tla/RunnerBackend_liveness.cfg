SPECIFICATION FairSpec
CONSTANTS
  p1 = p1
  p2 = p2
  r1 = r1
  r2 = r2
  Clients = {c1, c2}
  Keys = {k1, k2}
  Plans = {p1}
  Runs = {r1}
  RunOf <- OneRun
  RequestOf <- OneRun
  MaxFaults = 1
  MaxCalls = 2
  None = None
PROPERTIES
  CallsReturn
  ExecutedRunsAreReported
CHECK_DEADLOCK FALSE
