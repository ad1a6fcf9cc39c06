\* A handler of an event announces what another operation has not committed.
CONSTANTS
  o1 = o1
  h1 = h1
  c1 = c1
  c2 = c2
  None = None
  Ops = {o1}
  Handlers = {h1}
  Plain = {}
  Clients = {c1, c2}
  Mixes <- OneOfEach
  Callbacks = "serial"
SPECIFICATION Spec
INVARIANT AnnouncedCommitted
CHECK_DEADLOCK FALSE
