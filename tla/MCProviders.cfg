SPECIFICATION Spec
CONSTANTS
  n1 = n1
  a1 = a1
  a2 = a2
  w1 = w1
  w2 = w2
  Absent = Absent
  NoRow = NoRow
  NoPlan = NoPlan
  Nobody = Nobody
  Names = {n1}
  Specs = {1, 2, 3}
  Configs = {1, 2}
  Files <- MCFiles
  Invalid <- MCInvalid
  Boots <- MCBoots
  Reloaders = {a1, a2}
  Writers = {w1, w2}
  Ttl = 0
  MaxTime = 1
  MaxCalls = 4
  MaxCuts = 1
INVARIANTS OneOwner CacheAgrees
PROPERTIES AppliedAsShown RevisionNamesRow RollbackUndoesRotation
CHECK_DEADLOCK FALSE
