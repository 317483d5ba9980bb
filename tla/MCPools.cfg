SPECIFICATION Spec
CONSTANTS
  local = local
  remote = remote
  glm = glm
  kimi = kimi
  r1 = r1
  r2 = r2
  r3 = r3
  s1 = s1
  s2 = s2
  AnyModel = AnyModel
  NoSession = NoSession
  NoRoute = NoRoute
  Members <- MCMembers
  Listing <- MCListing
  Probed = {local}
  Configured <- MCConfigured
  Requests = {r1, r2, r3}
  Permitted <- MCPermitted
  Session <- MCSession
  After <- MCAfter
  Cooldown = 1
  StickyTtl = 2
  StickyMax = 1
  MaxAttempts = 2
  MaxTime = 2
  MaxEvents = 1
PROPERTIES FailoverComplete StaysHome RestAfterFailure
CHECK_DEADLOCK FALSE
