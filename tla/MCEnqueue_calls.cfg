\* Two audiences of one member each, two messages, one crash; the object
\* table is one short of both messages, the sequence numbers run out.
CONSTANTS
  MaxTargets = 1
  Local = 1
  Rosters <- MCRosters
  Logicals = {"m", "n"}
  Lifetime = 2
  MaxObjects = 3
  MaxOperations = 4
  MaxSequence = 5
  MaxEpoch = 3
  MaxTime = 3
  MaxCrashes = 1
SPECIFICATION Spec
INVARIANTS DeliveredIsShown AcceptedIsKept SequenceOnce
CHECK_DEADLOCK FALSE
