SPECIFICATION Spec
CONSTANTS
  Workers = {w1, w2}
  NoOwner = NoOwner
  Idle = Idle
  Batches <- MCBatches
  SystemOps <- MCSystemOps
  Outcomes = {"succeeded", "failed"}
  Costs = {0, 1}
  MaxModelRounds = 2
  MaxToolCalls = 2
  MaxCost = 1
  MaxEpoch = 2
  MaxVersion = 12
  MaxRevision = 2
SYMMETRY Symmetry
INVARIANTS
  SnapshotValid
  CompletedVerified
  ApprovalBinds
  UncertainKeepsCapacity
  LedgerAgrees
PROPERTIES
  CancelDominates
  DispatchOnce
CHECK_DEADLOCK FALSE
