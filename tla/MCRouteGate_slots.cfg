\* An endpoint and its deployment fail, are suspended and probed; every call ends.
CONSTANTS
  a1 = a1
  a2 = a2
  NoRow = NoRow
  Attempts = {a1, a2}
  Actors = {"prober"}
  Targets <- OneTarget
  Observations <- Outages
  AvailabilityThreshold = 1
  AvailabilityWindow = 30
  MaxAvailabilityWindow = 30
  HalfOpenMaxRequests = 1
  MaxRevision = 1
  MaxCrashes = 0
  MaxFailures = 0
SPECIFICATION FairSpec
INVARIANTS TypeOK NoSlotLeaks
PROPERTIES SlotsComeBack
