SPECIFICATION QuotaFair
CONSTANTS
  Attempts = {a, b}
  NoAttempt = NoAttempt
  Amounts = {1, 2}
  Usages = {1, 3}
  Timeouts = {1, 2}
  Slots = {1, 2}
  Budgets = {3}
  Window = 2
  Cooldown = 1
  Threshold = 1
  MaxAmount = 5
  MaxTime = 4
INVARIANTS
  CountersMatchRows
  BudgetHeld
  ProbeMayReport
PROPERTIES
  ProbeRecovered
