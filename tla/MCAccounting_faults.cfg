\* The WAL fails under a batch, Replica waits fail, cleanup deadlines pass, a restart.
CONSTANTS
  r1 = r1
  r2 = r2
  u1 = u1
  NoRun = NoRun
  Requests = {r1, r2}
  Runs = {u1}
  RunOf <- FirstOnRun
  MaxAttempts = 1
  Prepared <- PricedOrFree
  Budget = 2
  RunBudget <- RunBudget2
  Bills = {3}
  Confirming = TRUE
  CleanupExpires = TRUE
  MayWriteFail = TRUE
  Expiring = {}
  MaxBatch = 2
  MaxCrashes = 1
SPECIFICATION Spec
INVARIANTS TypeOK BudgetCeiling Conservation OnlyRunLeaksBlockStart
