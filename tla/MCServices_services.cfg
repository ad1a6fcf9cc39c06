\* Webhooks, auth, REST collections, blobs, mesh calls, the host.
SPECIFICATION Spec
CONSTANTS
  None = None
  a1 = a1
  a2 = a2
  b1 = b1
  b2 = b2
  MaxFaults = 1
  Unused = Unused
  Gone = Gone
  MaxAttempts = 2
  s1 = s1
  e1 = e1
  d1 = d1
  d2 = d2
  HookRequests = 3
  u1 = u1
  boot = boot
  unknown = unknown
  prefix = prefix
  AuthRequests = 4
  doc1 = doc1
  doc2 = doc2
  m3 = m3
  r1 = r1
  r2 = r2
  RestRequests = 3
  key1 = key1
  key2 = key2
  up1 = up1
  Torn = Torn
  Local = Local
  n1 = n1
  n2 = n2
  MaxJobs = 1
SYMMETRY Symmetry
CHECK_DEADLOCK FALSE
INVARIANTS
  OncePerEvent
  DeliveriesAgree
  DeadKeysStayOut
  FailuresBlock
  VersionsAgree
  UpdatesKept
  ObjectsAgree
  OwnContext
  OneAtATime
  BusOutlivesLanes
  SchedulesSynced
