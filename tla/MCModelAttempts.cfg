SPECIFICATION AttemptSpec
CONSTANTS
  a1 = a1
  a2 = a2
  Attempts = {a1, a2}
  NoAttempt = NoAttempt
  Amounts = {1}
  Usages = {3}
  Timeouts = {1}
  Slots = {1}
  Budgets = {4}
  Window = 2
  Cooldown = 2
  Threshold = 1
  MaxAmount = 5
  MaxTime = 4
  Workers = {w1, w2}
  NoWorker = NoWorker
  Own <- MCOwn
  Routes = {"primary", "fallback"}
  Cost <- MCCost
  RequestTime = 1
  RunDeadline = 4
  MaxCosts = {1, 3}
  RetryTime = 3
  Delays = {1}
  Chunks = 1
  MaxEpoch = 3
SYMMETRY Symmetry
INVARIANTS
  SentOnce
  OutcomeAgrees
  RunBudgetHeld
  TextOnce
CHECK_DEADLOCK FALSE
