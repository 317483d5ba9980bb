SPECIFICATION Spec
CONSTANTS
  claude = claude
  codex = codex
  home = home
  work = work
  r1 = r1
  r2 = r2
  r3 = r3
  login = login
  delete = delete
  NoCred = NoCred
  Kind <- MCKind
  Rotating = {claude}
  Labels = {home, work}
  Default = home
  Backends = {"sqlite", "keychain"}
  Requests = {r1, r2, r3}
  Flows = {login}
  Deletions = {delete}
  Wanted <- MCWanted
  For <- MCFor
  Initially <- MCInitially
  Life = 1
  Never = 9
  MaxTime = 2
  MaxFaults = 1
INVARIANTS RefreshTokenKept IndexRight
PROPERTIES FailureExplained
CHECK_DEADLOCK FALSE
