SPECIFICATION HistorySpec
CONSTANTS
  t1 = t1
  t2 = t2
  Turn = {t1, t2}
  MaxIterations = 1
  MaxText = 1
  MaxCalls = 2
  MaxFaults = 1
  Routes = {"TOOL"}
  MaxMessages = 2
SYMMETRY TurnSymmetry
VIEW Seen
INVARIANTS
  LinkedInTurn
  StatsOncePerTurn
  OwnQuestionOnce
  CallsAnswered
  EarlierTurnsRecalled
CHECK_DEADLOCK FALSE
