\* High availability: a Replica confirms each reservation, and the wait can fail.
CONSTANTS
  r1 = r1
  r2 = r2
  u1 = u1
  NoRun = NoRun
  Requests = {r1, r2}
  Runs = {u1}
  RunOf <- AllOnRun
  MaxAttempts = 1
  Prepared <- Priced
  Budget = 3
  RunBudget <- RunBudget3
  Bills = {0, 3}
  Confirming = TRUE
  CleanupExpires = FALSE
  MayWriteFail = FALSE
  Expiring = {}
  MaxBatch = 2
  MaxCrashes = 1
SPECIFICATION Spec
INVARIANTS RestartSucceeds
