SPECIFICATION Spec
CONSTANTS
  k1 = k1
  PerDay = 1
  Keys = {k1}
  Workers = {w1}
  Budget <- MCBudget
  Window <- MCWindow
  Costs = {2}
  MaxCost = 2
  MaxTime = 1
  MaxBills = 1
  MaxCrashes = 0
  DbFails = FALSE
CHECK_DEADLOCK FALSE
PROPERTIES
  DailyBudgetReopens
