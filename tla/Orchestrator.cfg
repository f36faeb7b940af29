SPECIFICATION ReconcilingSpec
CONSTANTS
  Keys = {k1, k2}
  Digests = {d1}
  FirstId = 9
  LastId = 11
  MaxActive = 1
  MaxEvents = 5
  MaxFaults = 3
  LosePower = TRUE
  None = None
INVARIANTS
  TypeOK
  AtMostOneExecution
  IntentBeforeEffect
  StatusMatchesJournal
  ExecutedRunsAreSettled
  TerminalHoldsNothing
  OneExecutionPerKey
PROPERTIES
  ExecutedRunsConclude
CHECK_DEADLOCK FALSE
