SPECIFICATION ArtifactSpec
CONSTANTS
  OpIds = {a, f}
  NoOp = NoOp
  Epochs = {1, 2}
  Process = {a}
  MaxLogOps = 1
  Limit = 1
  MaxOut = 2
  MaxFaults = 1
INVARIANTS
  LedgerTypeOK
  SingleWriter
  RevisionCountsWrites
  ReceiptTruth
  ReferencedPresent
  SucceededLogWhole
  SpoolReadable
  NoContainerLeft
PROPERTIES
  LedgerForward
CHECK_DEADLOCK FALSE
