SPECIFICATION Spec
CONSTANTS
  p1 = p1
  p2 = p2
  r1 = r1
  r2 = r2
  Clients = {c1, c2}
  Keys = {k1, k2}
  Plans = {p1, p2}
  Runs = {r1, r2}
  RunOf <- OwnRuns
  RequestOf <- OwnRuns
  MaxFaults = 2
  MaxCalls = 3
  None = None
SYMMETRY Symmetry
INVARIANTS
  CatalogLoads
  ExecutesCommittedOnce
  CancelIsDurable
  OneRequestPerKey
  ReportedEndIsJournaled
  RunsAreAdmitted
CHECK_DEADLOCK FALSE
