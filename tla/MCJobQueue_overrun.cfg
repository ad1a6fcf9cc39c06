\* Lanes may outlive their leases: what holds without any timing assumption.
CONSTANTS
  orders = orders
  letters = letters
  NoQueue = NoQueue
  Queues <- MCQueues
  ClientQueues <- MCOrders
  DlqOf <- MCDlqOf
  MaxAttempts = 2
  RetryDelayMs = 1
  Lanes = {l1, l2, l3}
  Handled <- MCOrders
  MaxJobs = 5
  MaxEnqueued = 1
  MaxDelay = 0
  MaxCrashes = 1
  LeaseMs = 1
  BatchSize = 1
  OverrunAllowed = TRUE
SPECIFICATION Spec
SYMMETRY LaneSymmetry
INVARIANTS
  TypeOK
  OncePerClaim
  DlqHasLetter
  SettledForCause
