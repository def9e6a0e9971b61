\* Selections, price changes and clock jumps race; any call fails; two crashes.
CONSTANTS
  a1 = a1
  a2 = a2
  Attempts = {a1, a2}
  Versions = {1, 2}
  FreeVersions = {1}
  RollbackTolerance = 1
  ForwardTolerance = 1
  Faults = {"prepare", "delete", "reserve", "commit", "settle"}
  MaxTime = 3
  MaxJumps = 1
  MaxCrashes = 2
  MaxConfirms = 1
SPECIFICATION Spec
SYMMETRY Symmetric
INVARIANTS TypeOK PinsMatchLedger RecoveryAccepts
PROPERTIES WaitIsNoJump PriceNeverReverts
CHECK_DEADLOCK FALSE
