SPECIFICATION ProgressSpec
CONSTANTS
  Workers = {w1, w2}
  NoWorker = NoWorker
  Keys = {k1, k2}
  Plans <- MCPlans
  Kinds = {"read", "write"}
  Results = {"shown"}
  Truncated = "truncated"
  Outcomes <- MCOutcomes
  Trees = {t1, t2}
  Baseline = t1
  Checks = 1
  NoProgressLimits = {1, 2}
  MaxModelRounds = 3
  EvidenceWindow = 2
  TreeWindow = 2
  MaxMessages = 2
  Native = TRUE
  CompactEvery = 2
  MaxEpoch = 2
SYMMETRY MCSymmetry
INVARIANTS
  StopJustified
  MessagesToldOnce
CHECK_DEADLOCK FALSE
