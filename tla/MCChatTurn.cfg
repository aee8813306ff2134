SPECIFICATION Spec
CONSTANTS
  t1 = t1
  Turn = {t1}
  MaxIterations = 2
  MaxText = 1
  MaxCalls = 2
  MaxFaults = 2
  Routes = {"TOOL", "RAG", "BOTH", "META", "NONE"}
INVARIANTS
  TypeOK
  HoldsNoTransaction
  WritesOnCleanSession
  TranscriptComplete
  CallsOnRecord
  StatsOncePerTurn
PROPERTIES
  SsePromise
  EveryTurnEnds
CHECK_DEADLOCK FALSE
