SPECIFICATION FairSpec
CONSTANTS
  Processes = {p1, p2, p3, p4}
  None = None
  Overlapping = FALSE
INVARIANTS
  OneHolder
PROPERTIES
  StaleLockIsRecovered
CHECK_DEADLOCK FALSE
