\* Engine transactions, SQLite adapters, mesh registry, cron expressions, registration.
SPECIFICATION Spec
CONSTANTS
  None = None
  a1 = a1
  a2 = a2
  o1 = o1
  o2 = o2
  o3 = o3
  q1 = q1
  c1 = c1
  c2 = c2
  DayLength = 2
  n1 = n1
  n2 = n2
  Unknown = Unknown
  MaxSlots = 4
  Error = Error
  x1 = x1
  x2 = x2
  MaxCalls = 2
SYMMETRY Symmetry
CHECK_DEADLOCK FALSE
INVARIANTS
  AllOrNothing
  ClaimsHold
  KvHonest
  ReadersMissNothing
  PeersRecent
  SlotsExact
  DependenciesFirst
