SPECIFICATION FairSpec
CONSTANTS
  p = p
  c = c
  r = r
  Ops = {c}
  KindOf <- MCKind
  None = None
  Clients = {k1, k2}
  Epochs = {1, 2}
  MaxCrashes = 1
PROPERTIES
  LockFreed
CHECK_DEADLOCK FALSE
