\* Two requests and a close race on a Run; every goroutine is scheduled and every wait ends.
CONSTANTS
  r1 = r1
  r2 = r2
  u1 = u1
  NoRun = NoRun
  Requests = {r1, r2}
  Runs = {u1}
  RunOf <- AllOnRun
  MaxAttempts = 1
  Prepared <- Priced
  Budget = 0
  RunBudget <- RunBudget2
  Bills = {3}
  Confirming = FALSE
  CleanupExpires = FALSE
  MayWriteFail = FALSE
  Expiring = {}
  MaxBatch = 2
  MaxCrashes = 0
SPECIFICATION FairSpec
INVARIANTS RunBudgetCeiling NothingAfterClose AdmissionsCounted ApplyFailsOnlyAtStart
PROPERTIES RequestsEnd ClosesEnd LeasesResolve
