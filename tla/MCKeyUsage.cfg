SPECIFICATION FairSpec
CONSTANTS
  k1 = k1
  PerDay = 1
  Keys = {k1}
  Workers = {w1, w2}
  Budget <- MCBudget
  Window <- MCWindow
  Costs = {2}
  MaxCost = 2
  MaxTime = 1
  MaxBills = 3
  MaxCrashes = 2
  DbFails = TRUE
CHECK_DEADLOCK FALSE
INVARIANTS
  OvershootBounded
  UnsyncedIsScheduled
  TotalsAgree
PROPERTIES
  RowTotalMonotone
  EventuallySynced
