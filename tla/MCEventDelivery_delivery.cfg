\* Two or three processes, deployments of one or two subscriptions: at most once, to every peer.
SPECIFICATION FairSpec
CONSTANTS
  p1 = p1
  p2 = p2
  p3 = p3
  Procs <- All
  MaxEvents = 2
  MaxSubs = 2
  MaxJobs = 2
  MaxFaults = 1
  MaxCrashes = 1
  Deployments <- Sound
INVARIANTS
  AtMostOnce
  NotTwiceInProcess
PROPERTIES
  ReachesPeers
CHECK_DEADLOCK FALSE
