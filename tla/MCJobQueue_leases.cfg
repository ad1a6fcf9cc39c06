\* Lanes finish within their leases: exclusive processing, the promise, and its end.
CONSTANTS
  orders = orders
  letters = letters
  NoQueue = NoQueue
  Queues <- MCQueues
  ClientQueues <- MCOrders
  DlqOf <- MCDlqOf
  MaxAttempts = 2
  RetryDelayMs = 1
  Lanes = {l1, l2}
  Handled <- MCOrders
  MaxJobs = 6
  MaxEnqueued = 2
  MaxDelay = 0
  MaxCrashes = 1
  LeaseMs = 2
  BatchSize = 2
  OverrunAllowed = FALSE
SPECIFICATION FairSpec
INVARIANTS
  Exclusive
  CommitsAccounted
PROPERTIES
  KeepsPromise
  EventuallySettled
