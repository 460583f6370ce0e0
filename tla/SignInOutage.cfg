SPECIFICATION Spec
CONSTANTS
  Attempts = {a1, a2}
  Callbacks = {r1}
  Old = Old
  None = None
  Lifetime = 0
  MaxTime = 2
  MaxFaults = 1
  MaxRestarts = 0
SYMMETRY Symmetry
INVARIANTS
  TryingAgainHelps
CHECK_DEADLOCK FALSE
