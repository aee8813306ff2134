SPECIFICATION Spec
CONSTANTS
  r1 = r1
  r2 = r2
  Run = {r1, r2}
  MaxChunks = 1
  MaxFaults = 0
  MaxCrashes = 0
INVARIANTS
  NoDuplicateChunks
CHECK_DEADLOCK FALSE
