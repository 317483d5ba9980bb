SPECIFICATION CalendarSpec
CONSTANTS
  PerDay = 4
  MaxGap = 4
  LastInstant = 800
CHECK_DEADLOCK FALSE
INVARIANTS
  DailyStaysInItsDay
  SteadyWindowsEnd
