SPECIFICATION Spec
CONSTANTS
  Models = {m1, m2}
  Own = own
  Names = {own, typed}
  Shortlist = {m1, m2}
  Callers = {c1, c2}
  Probing = TRUE
  Ttls = {}
  MaxTime = 0
  MaxEvents = 3
SYMMETRY Symmetry
CHECK_DEADLOCK FALSE
INVARIANTS
  SettledOnDisk
PROPERTIES
  AnnounceIsComplete
