SPECIFICATION FairSpec
CONSTANTS
  Models = {m1, m2}
  Own = own
  Names = {own}
  Shortlist = {m1, m2}
  Callers = {c1}
  Probing = TRUE
  Ttls = {1}
  MaxTime = 1
  MaxEvents = 3
CHECK_DEADLOCK FALSE
PROPERTIES
  AnnounceIsComplete
  ServedComesBack
  AbsentGoesOff
