SPECIFICATION FairSpec
CONSTANTS
  Trips = {t1}
  Requests = {r1, r2, r3}
  None = None
  Verdicts = {"complete", "refused"}
  Mortal = {r1}
PROPERTIES
  EveryRunEnds
CHECK_DEADLOCK FALSE
