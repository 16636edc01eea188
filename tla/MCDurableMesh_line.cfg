CONSTANTS
  Nodes = {"a", "b", "c"}
  Objects = {1}
  Chunks = {1, 2}
  Origin <- MCOrigin
  Targets <- MCTargets
  Expiry <- MCExpiry
  Digest <- MCDigest
  MemberOrder <- MCMemberOrder
  OutboxOrder <- MCOutboxOrder
  MaxObjects = 2
  MaxOperations = 2
  MaxOriginSlots = 3
  MaxRelayDedup = 8
  MaxRelayHops = 2
  HopLimit = 2
  Edges <- Line
  MaxTime = 1
  MaxEpoch = 1
  MaxDrops = 2
  MaxCrashes = 1
SPECIFICATION FairSpec
INVARIANTS TypeOK ShownOnce CustodyWhole OutboxOffered CustodyOffered
PROPERTY Settles
CHECK_DEADLOCK FALSE
