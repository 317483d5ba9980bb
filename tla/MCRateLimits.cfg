SPECIFICATION LimitsSpec
CONSTANTS
  Threads = {t1, t2, t3}
  Limit = 2
  MaxDay = 2
  Callers = {c1, c2}
  PerMinute = 3
  Amounts = {1, 2}
  Period = 1
  MaxTime = 2
CHECK_DEADLOCK FALSE
SYMMETRY MCSymmetry
INVARIANTS
  QuietDayCapped
  RacedDayBounded
  TokensAccountedFor
  AdmittedBounded
PROPERTIES
  RefusedOnlyWhenFull
