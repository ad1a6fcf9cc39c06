\* A signal that comes late meets a timeout that was not yet acted on.
CONSTANTS
  l1 = l1
  l2 = l2
  i1 = i1
  Lanes = {l1, l2}
  Instances = {i1}
  Definitions <- StepsOnly
  NoTime = NoTime
  MaxSignals = 1
  MaxJobs = 4
  MaxAttempts = 2
  RetryDelay = 1
  MaxFaults = 0
SPECIFICATION FairSpec
PROPERTIES TimeoutEndsWait
