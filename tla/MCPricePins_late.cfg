\* A first selection of its process waits for its transaction longer than the
\* tolerance; no clock jump, no failing call and no crash.
CONSTANTS
  a1 = a1
  a2 = a2
  Attempts = {a1, a2}
  Versions = {1, 2}
  FreeVersions = {1}
  RollbackTolerance = 1
  ForwardTolerance = 1
  Faults = {}
  MaxTime = 3
  MaxJumps = 0
  MaxCrashes = 0
  MaxConfirms = 0
SPECIFICATION Spec
SYMMETRY Symmetric
INVARIANT QuarantineNeedsJump
CHECK_DEADLOCK FALSE
