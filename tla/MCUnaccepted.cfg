SPECIFICATION ProtocolSpec
CONSTANTS
  Workers = {w1}
  NoOwner = NoOwner
  Idle = Idle
  NoOp = NoOp
  Batches <- MCOneCall
  SystemOps <- MCSystemOps
  Outcomes = {"succeeded", "failed"}
  Costs = {0}
  MaxModelRounds = 1
  MaxToolCalls = 0
  MaxCost = 0
  MaxEpoch = 2
  MaxVersion = 12
  MaxRevision = 2
INVARIANTS
  UnacceptedRetried
CHECK_DEADLOCK FALSE
