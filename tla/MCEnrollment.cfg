SPECIFICATION Spec
CONSTANTS
  k1 = k1
  k2 = k2
  Tokens = {t1, t2}
  Calls = {c1, c2}
  Templates = {k1, k2}
  Auths = {a1, a2}
  TemplateExpiry <- MCTemplateExpiry
  ValidAfter <- MCValidAfter
  Capped = {}
  InviteTtls = {1}
  DeviceTtls = {2}
  MaxTime = 3
  NoCall = NoCall
SYMMETRY MCSymmetry
INVARIANTS
  OneKeyPerInvitation
  NeverBeyondApproval
  SpentOnlyByKeyOrRevocation
PROPERTIES
  RevokedYieldsNoKey
  ImplementsLedger
CHECK_DEADLOCK FALSE
