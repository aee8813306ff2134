SPECIFICATION Spec
CONSTANTS
  r1 = r1
  Run = {r1}
  MaxChunks = 1
  MaxFaults = 1
  MaxCrashes = 0
PROPERTIES
  AnyExceptionMarksFailed
CHECK_DEADLOCK FALSE
