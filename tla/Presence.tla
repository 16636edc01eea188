------------------------------ MODULE Presence ------------------------------
(***************************************************************************)
(* PresenceTable of crates/mesh-replication: which members of the group    *)
(* one phone can reach, over an authenticated direct link or through a     *)
(* neighbour that relayed their signed heartbeat.  A signed record is      *)
(* authenticated (authenticate_presence of crates/mesh-protocol) before it *)
(* becomes a claim; the claim keeps the version and loses the expiry.      *)
(***************************************************************************)
EXTENDS Integers, FiniteSets

CONSTANTS
  Me,                  \* PresenceTable.local
  Others,              \* the other members of the roster
  Records,             \* signed heartbeats in circulation
  Ttl,                 \* PRESENCE_TTL
  MaxDirectNeighbors,  \* MAX_DIRECT_NEIGHBORS
  MaxGroupMembers,     \* MAX_GROUP_MEMBERS
  MaxPresenceHops,     \* MAX_PRESENCE_HOPS
  LastTime,            \* bound on the clock
  ClockSteps           \* how often the host's clock may step back

Certified == Others \cup {Me}
Versions == Nat \X Nat

VARIABLES
  members,   \* PresenceTable.members
  time,      \* the injected clock
  steps,     \* times the clock stepped back
  heard      \* history: versions and hops of the claims observed, per member,
             \* since the table last forgot the member

presence == <<members, time, steps, heard>>

NoTime == -1
NoRoute == [version |-> <<0, 0>>, via |-> Me, hops |-> 0, received_at |-> NoTime]
Unknown == [direct_at |-> NoTime, routed |-> NoRoute]

(* PresenceVersion's derived order.                                        *)
Newer(v, w) == v[1] > w[1] \/ (v[1] = w[1] /\ v[2] > w[2])

Fresh(seen_at, t) == seen_at # NoTime /\ t >= seen_at /\ t - seen_at <= Ttl

DirectNeighbors(table, t) == {m \in DOMAIN table : Fresh(table[m].direct_at, t)}

Alive(known, t) == Fresh(known.direct_at, t) \/ Fresh(known.routed.received_at, t)

(* Mutant: a stale direct link drops the member and its relayed path.      *)
StaleWithDirect(table, t) ==
  {m \in DOMAIN table : \/ ~Alive(table[m], t)
                        \/ table[m].direct_at # NoTime /\ ~Fresh(table[m].direct_at, t)}

Stale(table, t) == {m \in DOMAIN table : ~Alive(table[m], t)}

Expired(table, t) == [m \in DOMAIN table \ Stale(table, t) |-> table[m]]

(* The history of the members that are still in the table.                 *)
StillHeard(said, table) == [m \in Certified |-> IF m \in DOMAIN table THEN said[m] ELSE {}]

(* reserve_member expires the table first and then refuses a new member if *)
(* it is still full.                                                       *)
HasRoom(table, member) ==
  member \in DOMAIN table \/ Cardinality(DOMAIN table) < MaxGroupMembers

Entry(table, member) == IF member \in DOMAIN table THEN table[member] ELSE Unknown

Put(table, member, known) ==
  [m \in DOMAIN table \cup {member} |-> IF m = member THEN known ELSE table[m]]

(* Mutant: any claim of another neighbour replaces the route.              *)
ReplacesAlways(old, record, hops) ==
  Newer(record.version, old.version) \/ hops < old.hops

Replaces(old, record, hops) ==
  \/ Newer(record.version, old.version)
  \/ record.version = old.version /\ hops < old.hops

PresenceInit ==
  /\ members = [m \in {} |-> Unknown]
  /\ time = 0
  /\ steps = 0
  /\ heard = [m \in Certified |-> {}]

(* Mutant: the limit on direct neighbours is checked after admission.      *)
DirectAllowedLate(member) ==
  Cardinality(DirectNeighbors(members, time)) <= MaxDirectNeighbors

DirectAllowed(member) ==
  \/ Fresh(Entry(members, member).direct_at, time)
  \/ Cardinality(DirectNeighbors(members, time)) < MaxDirectNeighbors

(* An authenticated neighbour's heartbeat.  A refusal for want of a direct *)
(* slot leaves the table alone; one for want of room has expired it.       *)
ObserveDirect(member) ==
  LET table == Expired(members, time)
  IN  /\ member # Me
      /\ DirectAllowed(member)
      /\ members' = IF HasRoom(table, member)
                    THEN Put(table, member, [Entry(table, member) EXCEPT !.direct_at = time])
                    ELSE table
      /\ heard' = StillHeard(heard, table)
      /\ UNCHANGED <<time, steps>>

DisconnectDirect(member) ==
  /\ member \in DOMAIN members
  /\ members' = [members EXCEPT ![member].direct_at = NoTime]
  /\ UNCHANGED <<time, steps, heard>>

(* authenticate_presence, as far as time goes: the signature, the scope    *)
(* and membership hold of every record in circulation.  A record carries   *)
(* no time of signing, and its expiry may be as late as the roster's.      *)
Authentic(record) == time < record.expires_at

ObserveRelay(record, via, hops) ==
  LET table == Expired(members, time)
      old == Entry(table, record.member)
      route == [version |-> record.version, via |-> via, hops |-> hops, received_at |-> time]
  IN  /\ Authentic(record)
      /\ record.member \notin {Me, via}
      /\ record.version[1] # 0 /\ record.version[2] # 0
      /\ hops \in 2 .. MaxPresenceHops
      /\ IF HasRoom(table, record.member)
         THEN /\ members' = IF Replaces(old.routed, record, hops)
                            THEN Put(table, record.member, [old EXCEPT !.routed = route])
                            ELSE table
              /\ heard' = [StillHeard(heard, table) EXCEPT
                             ![record.member] = @ \cup {<<record.version, hops>>}]
         ELSE /\ members' = table
              /\ heard' = StillHeard(heard, table)
      /\ UNCHANGED <<time, steps>>

(* The route layer's own call; it broadcasts Stale(members, now), which is *)
(* what the call returns.  The expiry inside reserve_member returns        *)
(* nothing to anybody.                                                     *)
Expire ==
  /\ members' = Expired(members, time)
  /\ heard' = StillHeard(heard, members')
  /\ UNCHANGED <<time, steps>>

ClockForward ==
  /\ time < LastTime
  /\ time' = time + 1
  /\ UNCHANGED <<members, steps, heard>>

(* Callers inject wall time, which may be set back.                        *)
ClockBack ==
  /\ steps < ClockSteps
  /\ steps' = steps + 1
  /\ time' \in 0 .. time - 1
  /\ UNCHANGED <<members, heard>>

PresenceNext ==
  \/ \E member \in Others : ObserveDirect(member) \/ DisconnectDirect(member)
  \/ \E record \in Records, via \in Others, hops \in 2 .. MaxPresenceHops :
       ObserveRelay(record, via, hops)
  \/ Expire
  \/ ClockForward
  \/ ClockBack

PresenceSpec == PresenceInit /\ [][PresenceNext]_presence

(* member: the path shown for a member.                                    *)
Path(member) ==
  LET known == Entry(members, member)
  IN  IF Fresh(known.direct_at, time) THEN "Direct"
      ELSE IF Fresh(known.routed.received_at, time) THEN "Routed"
      ELSE "None"

-----------------------------------------------------------------------------
(* However heartbeats, disconnections and expiries interleave, at most     *)
(* MAX_DIRECT_NEIGHBORS members count as direct at once ("a third          *)
(* simultaneous direct link is rejected before it can alter routing        *)
(* state") and the table never outgrows the group.  The first needs a      *)
(* clock that was not set back: a member kept by its relayed path through  *)
(* an earlier time regains its direct one beside the neighbours admitted   *)
(* meanwhile.                                                              *)
PresenceBounded ==
  /\ steps = 0 => Cardinality({m \in Others : Path(m) = "Direct"}) <= MaxDirectNeighbors
  /\ Cardinality(DOMAIN members) <= MaxGroupMembers

(* While the clock stands still no call takes away a fresh path of either  *)
(* kind: a relayed one is there to be shown after the call, and so is a    *)
(* direct one unless the call closed that very link.  "A fresh relayed     *)
(* path, if present, remains usable" and "no timer silently reports a      *)
(* still-live member as gone".                                             *)
NoSilentLoss ==
  [][\A m \in DOMAIN members :
       time' = time =>
         /\ Fresh(members[m].routed.received_at, time) =>
              Fresh(Entry(members', m).routed.received_at, time)
         /\ Fresh(members[m].direct_at, time) =>
              Fresh(Entry(members', m).direct_at, time) \/ DisconnectDirect(m)]_presence

(* For as long as the table remembers a member, by either path and however *)
(* the clock moves, the route kept for it belongs to the newest heartbeat  *)
(* observed in that time and to the shortest copy of it: "The origin       *)
(* version is monotonic" and "Equal versions only replace the route when   *)
(* they reduce hops".  It ends with the entry: a heartbeat that outlives   *)
(* PRESENCE_TTL can bring a forgotten member back under an older version.  *)
StaleStaysGone ==
  \A m \in DOMAIN members :
    members[m].routed # NoRoute =>
      \A h \in heard[m] :
        /\ ~Newer(h[1], members[m].routed.version)
        /\ h[1] = members[m].routed.version => members[m].routed.hops <= h[2]
=============================================================================
