SPECIFICATION Spec
CONSTANTS
  weather = weather
  booking = booking
  ghost = ghost
  ToolNames = {weather, booking}
  Invented = {ghost}
  Scores = {50, 60, 72, 80}
SYMMETRY ToolSymmetry
INVARIANTS
  TypeOK
  ToolsExist
  FollowUpRetrieves
PROPERTIES
  NoneIsDeliberate
CHECK_DEADLOCK FALSE
