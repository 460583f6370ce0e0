SPECIFICATION Spec
CONSTANTS
  Trips = {t1, t2}
  Clicks = {c1, c2}
  None = None
  MaxFaults = 1
  MaxReloads = 1
SYMMETRY Symmetry
INVARIANTS
  TypeOK
  PageIsTruthful
PROPERTIES
  KeepsItsTrips
  ReportedRunIsShown
CHECK_DEADLOCK FALSE
