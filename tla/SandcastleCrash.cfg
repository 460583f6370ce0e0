SPECIFICATION FairSpec
CONSTANTS
  a = a
  b = b
  s = s
  f = f
  None = None
  Tasks <- TwoTasks
  Features = {f}
  Feature <- FeatureOf
  Backlogs <- Ordered
  MaxParallel = 1
  AutoMerge = FALSE
  Faulty = {}
  MaxFaults = 0
  MaxCrashes = 1
  MaxInterrupts = 0
  MaxRequeues = 0
PROPERTIES
  ReviewedWorkIsFinished
