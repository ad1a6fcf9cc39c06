\* One release, lanes that fail and crash: nothing lost, in order, every slot fired.
SPECIFICATION FairSpec
CONSTANTS
  p1 = p1
  p2 = p2
  k1 = k1
  k2 = k2
  k3 = k3
  Procs = {p1, p2}
  Exprs = {everyTick, everyOther}
  everyTick = everyTick
  everyOther = everyOther
  NoExpr = NoExpr
  NoToken = NoToken
  rollup = rollup
  older = older
  old = old
  new = new
  SlotsOf <- MCSlotsOf
  Tokens = {k1, k2, k3}
  Schedules <- MCOne
  Versions = {new}
  RegistryOf <- MCSame
  MaxTime = 3
  LeaseMs = 1
  MaxBoots = 3
  MaxFaults = 2
  SyncTakesTime = FALSE
INVARIANT NothingLost
PROPERTIES RunsInOrder EventuallyFired
