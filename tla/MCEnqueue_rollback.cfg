\* One message of two audiences, one crash.
CONSTANTS
  MaxTargets = 1
  Local = 1
  Rosters <- MCRosters
  Logicals = {"m"}
  Lifetime = 2
  MaxObjects = 3
  MaxOperations = 4
  MaxSequence = 5
  MaxEpoch = 2
  MaxTime = 3
  MaxCrashes = 1
SPECIFICATION Spec
PROPERTY RollbackUnsent
CHECK_DEADLOCK FALSE
