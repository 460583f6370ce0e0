SPECIFICATION FairQuerySpec
CONSTANTS
  Trips = {t1, t2}
  Requests = {r1, r2, r3}
  Clients = {c1}
  None = None
  Verdicts = {"complete", "refused", "raised"}
  Mortal = {r1, r2, r3}
INVARIANTS
  TypeOK
  OneActiveRun
  RevisionIffSucceeded
  LinearHistory
  DraftIsFresh
  AnswersAreTrue
  ReadsNeverGoBack
  PointerResolves
PROPERTIES
  KeepsPromise
  EveryRequestAnswered
CHECK_DEADLOCK FALSE
