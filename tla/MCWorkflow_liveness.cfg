\* A workflow goes on once its signal or its time has come.
CONSTANTS
  l1 = l1
  l2 = l2
  i1 = i1
  Lanes = {l1, l2}
  Instances = {i1}
  Definitions <- All
  NoTime = NoTime
  MaxSignals = 1
  MaxJobs = 4
  MaxAttempts = 2
  RetryDelay = 1
  MaxFaults = 1
SPECIFICATION FairSpec
PROPERTIES Progress
