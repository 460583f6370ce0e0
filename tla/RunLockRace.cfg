SPECIFICATION Spec
CONSTANTS
  Processes = {p1, p2}
  None = None
  Overlapping = TRUE
SYMMETRY Symmetry
INVARIANTS
  OneHolder
CHECK_DEADLOCK FALSE
