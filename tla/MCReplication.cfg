\* A gate for two of the four keys other members author; a presence table
\* for two of three members, one of them direct; every roster of up to
\* seven of eight members; every even group up to fifty; two links at a time.
CONSTANTS
  MaxRelayDedup = 2
  MaxRelayHops = 16
  Local = "me"
  Members = {"a", "b", "me"}
  Ids = {1, 2}
  Expires <- MCExpires
  HopLimit = 2
  MaxTime = 4
  Me = "me"
  LastTime = 4
  Others = {"a", "b", "c"}
  Records <- MCRecords
  Ttl = 2
  MaxDirectNeighbors = 1
  MaxGroupMembers = 2
  MaxPresenceHops = 3
  ClockSteps = 1
  Candidates = {1, 2, 3, 4, 5, 6, 7, 8}
  MaxTargets = 3
  MaxRoster = 7
  Sender = 0
  Peers = {0, 1, 2, 3}
  Slots = {1, 2}
  MaxEta = 2
  ReceivedFrom = 3
  OrderedSizes <- MCOrderedSizes
  AnyOrderSizes = {5, 6}
  Origins = {0, 1, 2}
  Reunions = {0, 6}
SPECIFICATION PartSpec
INVARIANTS TypeOK AtMostOneForward PresenceBounded StaleStaysGone PlansAgree AudiencesPartition ReachesEveryMember
PROPERTIES EvictsEarliest NoSilentLoss SendsWell
CHECK_DEADLOCK FALSE
