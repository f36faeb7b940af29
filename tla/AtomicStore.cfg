SPECIFICATION Spec
CONSTANTS
  Writers = {w1, w2}
  Runs = {r1}
  Attempts = {a1, a2}
  Digests = {d1}
  MaxJournal = 5
  None = None
INVARIANTS TypeOK JournalsDecode NoSecondStart AckedSurvive
PROPERTIES TerminalIsFinal ImplementsJournal
