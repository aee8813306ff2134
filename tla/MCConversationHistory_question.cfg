SPECIFICATION HistorySpec
CONSTANTS
  t1 = t1
  t2 = t2
  Turn = {t1, t2}
  MaxIterations = 1
  MaxText = 0
  MaxCalls = 1
  MaxFaults = 0
  Routes = {"TOOL"}
  MaxMessages = 3
SYMMETRY TurnSymmetry
INVARIANTS
  QuestionsKept
CHECK_DEADLOCK FALSE
