\* Bursts of signals, timers and crashes: the safety of workflows.
CONSTANTS
  l1 = l1
  l2 = l2
  i1 = i1
  Lanes = {l1, l2}
  Instances = {i1}
  Definitions <- Handed
  NoTime = NoTime
  MaxSignals = 2
  MaxJobs = 4
  MaxAttempts = 2
  RetryDelay = 1
  MaxFaults = 2
SYMMETRY LaneSymmetry
SPECIFICATION Spec
INVARIANTS TypeOK ActionsOnce SignalsOnce NoLostWakeup
PROPERTIES NothingEarly
