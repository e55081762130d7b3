SPECIFICATION AlertSpec
CONSTANTS
  AlertCount = 3
  TicksPerMs = 2
  LastTick = 2
  PageSize = 1
  MaxPageSize = 2
  ReportLimit = 2
  MaxWindow = 1
  MaxAged = 0
CHECK_DEADLOCK FALSE
INVARIANTS
  ListComplete
