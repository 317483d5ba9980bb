SPECIFICATION Spec
CONSTANTS
  c1 = c1
  c2 = c2
  i1 = i1
  i2 = i2
  v = v
  w = w
  Conversations = {c1, c2}
  Injections = {i1, i2}
  To <- MCTo
  Sessions = {v, w}
  On <- MCOn
  Kind <- MCKind
  MaxConversations = 1
  Ttl = 0
  CaptureAll = FALSE
  MaxTime = 1
INVARIANTS OneFate QuietWithinCapacity
PROPERTIES SpeechEnds GivenIsSent
CHECK_DEADLOCK FALSE
