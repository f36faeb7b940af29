SPECIFICATION Spec
CONSTANTS
  Writers = {w1}
  Runs = {r1}
  Attempts = {a1}
  Digests = {d1}
  MaxJournal = 2
  None = None
INVARIANT ListedRunsLoad
