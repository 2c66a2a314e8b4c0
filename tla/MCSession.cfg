SPECIFICATION Spec
CONSTANTS
  Clients = {alice, bob}
  Requests = {r1, r2, r3}
  Ids = {i1, i2, old}
  Brought = {old}
  Backends = {"memory", "redis", "signed", "plain"}
  Dirs = {root, sub}
  Root = root
  None = None
  Junk = Junk
  Keep = Keep
  Faulty = TRUE
SYMMETRY Symmetry
INVARIANTS
  TypeOK
  RemovedStays
  Isolation
  OnlyCommitted
PROPERTY
  RegisterSpec
CHECK_DEADLOCK FALSE
