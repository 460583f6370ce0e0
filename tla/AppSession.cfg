SPECIFICATION Spec
CONSTANTS
  Sessions = {s1, s2, s3}
  Requests = {r1, r2, r3}
  None = None
  Kinds = {"signIn", "session", "command", "signOut"}
  Idle = 2
  Absolute = 3
  MaxTime = 5
SYMMETRY Symmetry
INVARIANTS
  TypeOK
  SignInRotates
  RevocationIsImmediate
PROPERTIES
  RevokedIsFinal
  NeverUsedAfterInactivity
CHECK_DEADLOCK FALSE
