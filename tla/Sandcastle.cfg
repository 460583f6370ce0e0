SPECIFICATION Spec
CONSTANTS
  a = a
  b = b
  s = s
  f = f
  None = None
  Tasks <- ThreeTasks
  Features = {f}
  Feature <- FeatureOf
  Backlogs <- OrderedOrGated
  MaxParallel = 2
  AutoMerge = TRUE
  Faulty = {"tracker", "build", "publication"}
  MaxFaults = 2
  MaxCrashes = 1
  MaxInterrupts = 1
  MaxRequeues = 1
INVARIANTS
  TypeOK
  WorkHoldsBase
  ReadyIsComplete
  ClosedIsPublished
  CheckpointIsVerifiable
PROPERTIES
  KeepsDelivery
  ApprovedWorkIsKept
