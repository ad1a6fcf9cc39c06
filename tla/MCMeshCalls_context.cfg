\* Overlapping calls behind a middleware that waits, and ctx.mesh.call of one of them.
SPECIFICATION Spec
CONSTANTS
  Calls = {c1, c2}
  Local = Local
  p1 = p1
  p2 = p2
  PeerOrder <- PeerOrderDef
  Load <- LoadDef
  Requests <- RequestsDef
  Waits = {TRUE}
  MaxFaults = 1
  None = None
CHECK_DEADLOCK FALSE
INVARIANT ActiveContext
