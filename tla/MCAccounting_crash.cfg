\* A crash at any point, then replay, recovery and new traffic.
CONSTANTS
  r1 = r1
  r2 = r2
  u1 = u1
  NoRun = NoRun
  Requests = {r1, r2}
  Runs = {u1}
  RunOf <- AllOnRun
  MaxAttempts = 1
  Prepared <- Priced
  Budget = 0
  RunBudget <- RunBudget2
  Bills = {1}
  Confirming = FALSE
  CleanupExpires = FALSE
  MayWriteFail = FALSE
  Expiring = {u1}
  MaxBatch = 2
  MaxCrashes = 1
SPECIFICATION Spec
INVARIANTS StateIsReplay CalledIsSettled RestartSucceeds ProviderCallBacked
