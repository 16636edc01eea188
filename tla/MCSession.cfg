\* Clocks that jump, a policy that moves on, packet numbers up to their limit in any order.
\* In the registry one place for a store and one for a session, so that both are full,
\* released and taken again while two threads are in the middle of their calls.
CONSTANTS
  Window = 2
  MaxPackets = 4
  HandshakeTimeout = 2
  MaxLogicalTime = 4
  Times = {0, 1, 2, 3}
  Rosters = {1, 2}
  EpochOf <- MCEpochOf
  ValidFrom <- MCValidFrom
  ValidUntil <- MCValidUntil
  Scopes = {"lab", "convoy"}
  Threads = {t1, t2}
  MaxRuntimes = 1
  MaxCounter = 3
  MaxPolicies = 2
SPECIFICATION PartSpec
INVARIANTS TypeOK SameScope DataAfterMutualProof AcceptOnce NonceFresh ReplayExact CallsKeepTheirSession
PROPERTY AuthenticatedInTime
SYMMETRY Interchangeable
CHECK_DEADLOCK FALSE
