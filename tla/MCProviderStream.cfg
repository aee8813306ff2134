SPECIFICATION Spec
CONSTANTS
  i1 = i1
  i2 = i2
  i3 = i3
  Item = {i1, i2, i3}
  MaxText = 3
  ArgLen = 2
  MaxUsage = 2
INVARIANTS
  TypeOK
  HandedOver
  UsageIsLatest
PROPERTIES
  RefinesReply
CHECK_DEADLOCK FALSE
