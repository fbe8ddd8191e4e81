SPECIFICATION Spec
CONSTANTS
  Employees = {e1}
  DayOffs = {o1}
  Requests = {r1}
  Runs = {j1, j2}
  WorkingDays = {1, 2}
  Lookback = 2
  LastDay = 3
  MaxFailures = 1
  None = None
INVARIANTS
  DayOffIsRespected
PROPERTIES
  RecordedDayIsFinal
  NoDayIsForgotten
CHECK_DEADLOCK FALSE
