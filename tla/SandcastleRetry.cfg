SPECIFICATION FairSpec
CONSTANTS
  a = a
  b = b
  s = s
  f = f
  None = None
  Tasks <- ThreeTasks
  Features = {f}
  Feature <- FeatureOf
  Backlogs <- Ordered
  MaxParallel = 2
  AutoMerge = FALSE
  Faulty = {"build", "publication"}
  MaxFaults = 2
  MaxCrashes = 0
  MaxInterrupts = 1
  MaxRequeues = 0
PROPERTIES
  ReviewedWorkIsFinished
  EveryClaimIsReleased
