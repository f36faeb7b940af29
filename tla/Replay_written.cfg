SPECIFICATION Spec
CONSTANTS
  r1 = r1
  r2 = r2
  a = a
  b = b
  Connections = {c1, c2, c3}
  Routes = {r1, r2}
  Requests = {a, b}
  Malformed = Malformed
  Cassette <- TwoRoutes
  Segments = 2
  None = None
CHECK_DEADLOCK FALSE
INVARIANTS
  WrittenOnce
