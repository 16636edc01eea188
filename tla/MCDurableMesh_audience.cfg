CONSTANTS
  Nodes = {"a", "b", "c"}
  Objects = {1}
  Chunks = {1}
  Origin <- MCOrigin
  Targets <- MCBothTargets
  Expiry <- MCExpiry
  Digest <- MCDigest
  MemberOrder <- MCMemberOrder
  OutboxOrder <- MCOutboxOrder
  MaxObjects = 2
  MaxOperations = 2
  MaxOriginSlots = 2
  MaxRelayDedup = 8
  MaxRelayHops = 2
  HopLimit = 2
  Edges <- Line
  MaxTime = 1
  MaxEpoch = 2
  MaxDrops = 0
  MaxCrashes = 1
SPECIFICATION Spec
INVARIANTS ConfirmedIsShown ReleasedIsConfirmed ReceiptsOffered
PROPERTY ReceiptCustodyKept
CHECK_DEADLOCK FALSE
