SPECIFICATION Spec
CONSTANTS
  k1 = k1
  k2 = k2
  None = None
  Keys = {k1, k2}
  Documents <- Rotation
  Last = 4
  Interval = 2
  TTL = 3
  MaxTime = 11
INVARIANTS
  TypeOK
  KeysMatchEtag
PROPERTIES
  FetchesAreSpaced
  RetiredKeyIsRefused
  PublishedKeyIsFound
CHECK_DEADLOCK FALSE
