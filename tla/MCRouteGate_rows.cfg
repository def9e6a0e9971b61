\* An attempt, a reload and a clear decide at once; a failing store and a restart.
CONSTANTS
  a1 = a1
  a2 = a2
  NoRow = NoRow
  Attempts = {a1}
  Actors = {"reloader", "operator"}
  Targets <- OneTarget
  Observations <- LongRefusals
  AvailabilityThreshold = 1
  AvailabilityWindow = 30
  MaxAvailabilityWindow = 30
  HalfOpenMaxRequests = 1
  MaxRevision = 2
  MaxCrashes = 1
  MaxFailures = 1
SPECIFICATION Spec
INVARIANTS RowsFollowGate
PROPERTIES RestartRemembers
