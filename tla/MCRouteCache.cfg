SPECIFICATION CacheSpec
CONSTANTS
  r1 = r1
  r2 = r2
  t1 = t1
  t2 = t2
  Run = {r1, r2}
  Turn = {t1, t2}
  MaxChunks = 1
  MaxFaults = 1
  MaxCrashes = 1
INVARIANTS
  CacheTypeOK
  RoutedIsSearchable
  HiddenOnlyIfMissed
PROPERTIES
  EveryRunEnds
  StatusSettles
CHECK_DEADLOCK FALSE
