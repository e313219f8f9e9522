SPECIFICATION ProtocolSpec
CONSTANTS
  Workers = {w1}
  NoOwner = NoOwner
  Idle = Idle
  NoOp = NoOp
  Batches <- MCBatches
  SystemOps <- MCFinalOps
  Outcomes = {"succeeded", "failed"}
  Costs = {0}
  MaxModelRounds = 1
  MaxToolCalls = 0
  MaxCost = 0
  MaxEpoch = 2
  MaxVersion = 14
  MaxRevision = 3
INVARIANTS
  RevisionAgrees
  LedgersMatch
PROPERTIES
  TerminalFrozen
CHECK_DEADLOCK FALSE
