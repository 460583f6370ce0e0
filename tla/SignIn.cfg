SPECIFICATION Spec
CONSTANTS
  Attempts = {a1, a2}
  Callbacks = {r1, r2, r3}
  Old = Old
  None = None
  Lifetime = 0
  MaxTime = 2
  MaxFaults = 1
  MaxRestarts = 1
SYMMETRY Symmetry
INVARIANTS
  TypeOK
  SessionIsSolicited
  HeldSessionIsLive
  UndisturbedSucceeds
  OneDiscovery
CHECK_DEADLOCK FALSE
