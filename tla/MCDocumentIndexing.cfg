SPECIFICATION Spec
CONSTANTS
  r1 = r1
  r2 = r2
  r3 = r3
  Run = {r1, r2, r3}
  MaxChunks = 2
  MaxFaults = 2
  MaxCrashes = 1
SYMMETRY RunSymmetry
INVARIANTS
  TypeOK
  EndsClean
  NotStuck
  IndexedHasChunks
  OneRunsChunks
  IndexedExactly
PROPERTIES
  NoChunkGap
CHECK_DEADLOCK FALSE
