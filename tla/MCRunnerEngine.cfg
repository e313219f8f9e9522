SPECIFICATION Spec
CONSTANTS
  p = p
  c = c
  r = r
  Ops = {p, c}
  KindOf <- MCKind
  None = None
  Clients = {k1}
  Epochs = {1, 2}
  MaxCrashes = 1
INVARIANTS
  NoOrphanJob
  PatchAllOrNothing
PROPERTIES
  ImplementsLedger
CHECK_DEADLOCK FALSE
