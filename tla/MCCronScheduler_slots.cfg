\* Two releases and a crash, with a sync that takes time: each slot once.
SPECIFICATION Spec
CONSTANTS
  Procs = {p1, p2}
  Exprs = {everyTick, everyOther}
  everyTick = everyTick
  everyOther = everyOther
  NoExpr = NoExpr
  NoToken = NoToken
  rollup = rollup
  older = older
  old = old
  new = new
  SlotsOf <- MCSlotsOf
  Tokens = {k1, k2, k3, k4}
  Schedules <- MCOne
  Versions = {older, old, new}
  RegistryOf <- MCHistory
  MaxTime = 3
  LeaseMs = 1
  MaxBoots = 3
  MaxFaults = 1
  SyncTakesTime = TRUE
SYMMETRY MCSymmetry
INVARIANTS TypeOK SlotOnce
