SPECIFICATION CacheSpec
CONSTANTS
  r1 = r1
  r2 = r2
  t1 = t1
  t2 = t2
  Run = {r1}
  Turn = {t1}
  MaxChunks = 1
  MaxFaults = 0
  MaxCrashes = 0
INVARIANTS
  ConsideredImmediately
CHECK_DEADLOCK FALSE
