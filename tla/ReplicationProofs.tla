------------------------- MODULE ReplicationProofs --------------------------
(***************************************************************************)
(* The reducers of crates/mesh-replication beside the relay gate: the      *)
(* presence table for any group, limits, heartbeats and clock, transport   *)
(* selection for any reports of the adapters, the overlay and the          *)
(* audiences for any roster, the flood over the overlay for any group the  *)
(* hop budget is meant for.  They share no state.                          *)
(***************************************************************************)
EXTENDS Replication, FiniteSetTheorems, FunctionTheorems, WellFoundedInduction, TLAPS

(* A set of natural numbers has a least element.                           *)
LEMMA Least ==
  ASSUME NEW T, T \subseteq Nat, T # {} PROVE \E x \in T : \A y \in T : x <= y
<1> DEFINE R == {ss \in Nat \X Nat : ss[1] < ss[2]}
<1>1. IsWellFoundedOn(R, Nat) BY NatLessThanWellFounded DEF OpToRel
<1> HIDE DEF R
<1>2. PICK x \in T : \A y \in T : <<y, x>> \notin R BY <1>1, WFMin
<1>3. ASSUME NEW y \in T PROVE x <= y
  <2>1. x \in Nat /\ y \in Nat OBVIOUS
  <2>2. ~(y < x) BY <1>2, <2>1 DEF R
  <2> QED BY <2>1, <2>2
<1> QED BY <1>3

-----------------------------------------------------------------------------
(* The presence table.                                                     *)
Times == Nat \cup {NoTime}
Routes == [version : Versions, via : Certified, hops : Int, received_at : Times]
Entries == [direct_at : Times, routed : Routes]

(* Heartbeats in circulation are from the roster.                          *)
Heartbeats ==
  \A r \in Records : r.member \in Certified /\ r.version \in Versions

Typed(table) ==
  /\ DOMAIN table \subseteq Others /\ IsFiniteSet(DOMAIN table)
  /\ \A m \in DOMAIN table : table[m] \in Entries

Limits ==
  Ttl \in Nat /\ MaxDirectNeighbors \in Nat /\ MaxGroupMembers \in Nat /\ Heartbeats

PresenceTyped ==
  /\ time \in Nat /\ steps \in Nat
  /\ Typed(members)
  /\ DOMAIN heard = Certified
  /\ \A m \in Certified : heard[m] \subseteq Versions \X Int

(* The entry of a member not in the table is an entry, and not direct.     *)
LEMMA UnknownTyped == Unknown \in Entries /\ ~Fresh(Unknown.direct_at, time)
  BY DEF Unknown, NoRoute, Entries, Routes, Versions, Times, Certified, Fresh

(* expire keeps the entries that are alive, as they are.                   *)
LEMMA ExpiredTyped ==
  ASSUME NEW table, Typed(table), NEW t
  PROVE  /\ Typed(Expired(table, t))
         /\ DOMAIN Expired(table, t) \subseteq DOMAIN table
         /\ \A m \in DOMAIN Expired(table, t) : Expired(table, t)[m] = table[m] /\ Alive(table[m], t)
         /\ \A m \in DOMAIN table : Alive(table[m], t) => m \in DOMAIN Expired(table, t)
<1>1. /\ DOMAIN Expired(table, t) = DOMAIN table \ Stale(table, t)
      /\ \A m \in DOMAIN table \ Stale(table, t) : Expired(table, t)[m] = table[m]
  BY DEF Expired
<1>2. IsFiniteSet(DOMAIN Expired(table, t))
  BY <1>1, FS_Subset DEF Typed
<1> QED BY <1>1, <1>2 DEF Typed, Stale

(* What the table says of a member is an entry, known or not.              *)
LEMMA EntryTyped ==
  ASSUME NEW table, Typed(table), NEW m PROVE Entry(table, m) \in Entries
  BY UnknownTyped DEF Entry, Typed

(* An insertion changes the entry of its member and no other.              *)
LEMMA PutTyped ==
  ASSUME NEW table, Typed(table), NEW member \in Others, NEW known \in Entries
  PROVE  /\ Typed(Put(table, member, known))
         /\ DOMAIN Put(table, member, known) = DOMAIN table \cup {member}
         /\ \A m \in DOMAIN table \cup {member} :
              Put(table, member, known)[m] = IF m = member THEN known ELSE table[m]
<1>1. /\ DOMAIN Put(table, member, known) = DOMAIN table \cup {member}
      /\ \A m \in DOMAIN table \cup {member} :
           Put(table, member, known)[m] = IF m = member THEN known ELSE table[m]
  BY DEF Put
<1>2. IsFiniteSet(DOMAIN table \cup {member})
  BY FS_AddElement DEF Typed
<1> QED BY <1>1, <1>2 DEF Typed

RouteOf(record, via, hops, t) ==
  [version |-> record.version, via |-> via, hops |-> hops, received_at |-> t]

(* What observe_direct writes: a new direct time, the same route.          *)
LEMMA DirectEntry ==
  ASSUME NEW table, Typed(table), NEW member, NEW t \in Nat
  PROVE  LET known == [Entry(table, member) EXCEPT !.direct_at = t]
         IN  known \in Entries /\ known.direct_at = t /\ known.routed = Entry(table, member).routed
  BY EntryTyped DEF Entries, Times

(* What observe_relay writes: a new route, the same direct time.           *)
LEMMA RoutedEntry ==
  ASSUME NEW table, Typed(table), NEW record \in Records, Heartbeats, NEW via \in Others,
         NEW hops \in Int, NEW t \in Nat
  PROVE  LET known == [Entry(table, record.member) EXCEPT !.routed = RouteOf(record, via, hops, t)]
         IN  /\ known \in Entries /\ known.direct_at = Entry(table, record.member).direct_at
             /\ known.routed = RouteOf(record, via, hops, t)
<1>1. RouteOf(record, via, hops, t) \in Routes
  BY DEF RouteOf, Routes, Heartbeats, Times, Certified
<1> QED BY <1>1, EntryTyped DEF Entries

(* The order of versions.                                                  *)
LEMMA VersionOrder ==
  ASSUME NEW u \in Versions, NEW v \in Versions, NEW w \in Versions
  PROVE  /\ ~Newer(v, v)
         /\ Newer(u, v) => ~Newer(v, u)
         /\ ~Newer(u, v) /\ ~Newer(v, w) => ~Newer(u, w)
  BY DEF Versions, Newer

Past(table, t) ==
  \A m \in DOMAIN table : table[m].direct_at <= t /\ table[m].routed.received_at <= t

(* The route is the newest and shortest heard; without one, nothing was.   *)
NewestOf(route, h) ==
  \A x \in h : ~Newer(x[1], route.version) /\ (x[1] = route.version => route.hops <= x[2])

Kept(route, h) == IF route = NoRoute THEN h = {} ELSE NewestOf(route, h)

Current(table, h) == \A m \in Others : Kept(Entry(table, m).routed, h[m])

Steady(table, t) ==
  /\ Past(table, t)
  /\ Cardinality(DirectNeighbors(table, t)) <= MaxDirectNeighbors

Fits(table) == Cardinality(DOMAIN table) <= MaxGroupMembers

PresenceInv ==
  /\ PresenceTyped
  /\ Fits(members)
  /\ Current(members, heard)
  /\ steps = 0 => Steady(members, time)

(* What is remembered of the members left in a table.                      *)
LEMMA StillHeardTyped ==
  ASSUME NEW h, \A m \in Certified : h[m] \subseteq Versions \X Int, NEW table
  PROVE  /\ DOMAIN StillHeard(h, table) = Certified
         /\ \A m \in Certified :
              /\ StillHeard(h, table)[m] = IF m \in DOMAIN table THEN h[m] ELSE {}
              /\ StillHeard(h, table)[m] \subseteq Versions \X Int
  BY DEF StillHeard

(* The history goes with the entry it is about.                            *)
LEMMA ExpiredCurrent ==
  ASSUME NEW table, Typed(table), NEW h, \A m \in Certified : h[m] \subseteq Versions \X Int,
         NEW t, Current(table, h)
  PROVE  Current(Expired(table, t), StillHeard(h, Expired(table, t)))
<1> DEFINE left == Expired(table, t)
           kept == StillHeard(h, left)
<1>1. /\ DOMAIN left \subseteq DOMAIN table
      /\ \A m \in DOMAIN left : left[m] = table[m]
  BY ExpiredTyped
<1>2. \A m \in Certified : kept[m] = IF m \in DOMAIN left THEN h[m] ELSE {}
  BY StillHeardTyped
<1> HIDE DEF left, kept
<1>3. ASSUME NEW m \in Others PROVE Kept(Entry(left, m).routed, kept[m])
  <2>1. CASE m \in DOMAIN left
    <3>1. Entry(left, m) = Entry(table, m) /\ kept[m] = h[m]
      BY <1>1, <1>2, <2>1 DEF Entry, Certified
    <3> QED BY <3>1 DEF Current
  <2>2. CASE m \notin DOMAIN left
    <3>1. Entry(left, m).routed = NoRoute /\ kept[m] = {}
      BY <1>2, <2>2 DEF Entry, Unknown, Certified
    <3> QED BY <3>1 DEF Kept
  <2> QED BY <2>1, <2>2
<1> QED BY <1>3 DEF Current, left, kept

(* Expiry changes nothing the invariant speaks of.                         *)
LEMMA ExpiredSteady ==
  ASSUME NEW table, Typed(table), NEW t \in Nat, Steady(table, t)
  PROVE  Steady(Expired(table, t), t)
<1> DEFINE left == Expired(table, t)
<1>1. /\ Typed(left) /\ DOMAIN left \subseteq DOMAIN table
      /\ \A m \in DOMAIN left : left[m] = table[m] /\ Alive(table[m], t)
      /\ \A m \in DOMAIN table : Alive(table[m], t) => m \in DOMAIN left
  BY ExpiredTyped
<1> HIDE DEF left
<1>2. Past(left, t) BY <1>1 DEF Steady, Past
<1>3. Cardinality(DirectNeighbors(left, t)) <= MaxDirectNeighbors
  <2>1. DirectNeighbors(left, t) = DirectNeighbors(table, t)
    BY <1>1 DEF DirectNeighbors, Alive
  <2> QED BY <2>1 DEF Steady
<1> QED BY <1>2, <1>3 DEF Steady, left

(* A table that fits the group still does after expiry.                    *)
LEMMA ExpiredFits ==
  ASSUME Limits, NEW table, Typed(table), Fits(table), NEW t PROVE Fits(Expired(table, t))
<1>1. DOMAIN Expired(table, t) \subseteq DOMAIN table /\ IsFiniteSet(DOMAIN table)
  BY ExpiredTyped DEF Typed
<1>2. /\ Cardinality(DOMAIN Expired(table, t)) <= Cardinality(DOMAIN table)
      /\ IsFiniteSet(DOMAIN Expired(table, t))
  BY <1>1, FS_Subset
<1> QED BY <1>1, <1>2, FS_CardinalityType DEF Fits, Limits

(* So it does after an insertion that asked for room first.                *)
LEMMA PutFits ==
  ASSUME Limits, NEW table, Typed(table), Fits(table), NEW member \in Others, NEW known \in Entries,
         HasRoom(table, member)
  PROVE  Fits(Put(table, member, known))
<1>1. DOMAIN Put(table, member, known) = DOMAIN table \cup {member} BY PutTyped
<1>2. IsFiniteSet(DOMAIN table) BY DEF Typed
<1>3. Cardinality(DOMAIN table) \in Nat BY <1>2, FS_CardinalityType
<1>4. Cardinality(DOMAIN table \cup {member}) =
        IF member \in DOMAIN table THEN Cardinality(DOMAIN table) ELSE Cardinality(DOMAIN table) + 1
  BY <1>2, FS_AddElement
<1> QED BY <1>1, <1>3, <1>4 DEF Fits, HasRoom, Limits

(* At most one member becomes direct by an entry that is put.              *)
LEMMA PutDirect ==
  ASSUME Limits, NEW table, Typed(table), NEW member \in Others, NEW known \in Entries, NEW t \in Nat,
         Cardinality(DirectNeighbors(table, t)) <= MaxDirectNeighbors,
         \/ member \in DirectNeighbors(table, t)
         \/ ~Fresh(known.direct_at, t)
         \/ Cardinality(DirectNeighbors(table, t)) < MaxDirectNeighbors
  PROVE  Cardinality(DirectNeighbors(Put(table, member, known), t)) <= MaxDirectNeighbors
<1> DEFINE before == DirectNeighbors(table, t)
           after == DirectNeighbors(Put(table, member, known), t)
<1>1. IsFiniteSet(before) /\ Cardinality(before) \in Nat
  <2>1. before \subseteq DOMAIN table /\ IsFiniteSet(DOMAIN table) BY DEF DirectNeighbors, Typed
  <2> QED BY <2>1, FS_Subset, FS_CardinalityType
<1>8. /\ DOMAIN Put(table, member, known) = DOMAIN table \cup {member}
      /\ \A m \in DOMAIN table \cup {member} :
           Put(table, member, known)[m] = IF m = member THEN known ELSE table[m]
  BY DEF Put
<1>2. after \subseteq before \cup {member} BY <1>8 DEF DirectNeighbors
<1>3. ~Fresh(known.direct_at, t) => after \subseteq before
  BY <1>8 DEF DirectNeighbors
<1> HIDE DEF before, after
<1>4. /\ IsFiniteSet(before \cup {member})
      /\ Cardinality(before \cup {member}) = IF member \in before THEN Cardinality(before) ELSE Cardinality(before) + 1
  BY <1>1, FS_AddElement
<1>5. /\ Cardinality(after) <= Cardinality(before \cup {member}) /\ IsFiniteSet(after)
      /\ Cardinality(after) \in Nat
  BY <1>2, <1>4, FS_Subset, FS_CardinalityType
<1>6. ~Fresh(known.direct_at, t) => Cardinality(after) <= Cardinality(before)
  BY <1>1, <1>3, FS_Subset
<1>7. MaxDirectNeighbors \in Nat BY DEF Limits
<1> QED BY <1>1, <1>4, <1>5, <1>6, <1>7 DEF before, after

(* An insertion keeps the steady part of the invariant when it adds no     *)
(* direct neighbour beyond the limit.                                      *)
LEMMA PutSteady ==
  ASSUME Limits, NEW table, Typed(table), NEW member \in Others, NEW known \in Entries, NEW t \in Nat,
         Steady(table, t),
         \/ member \in DirectNeighbors(table, t)
         \/ ~Fresh(known.direct_at, t)
         \/ Cardinality(DirectNeighbors(table, t)) < MaxDirectNeighbors,
         known.direct_at <= t, known.routed.received_at <= t
  PROVE  Steady(Put(table, member, known), t)
<1> DEFINE put == Put(table, member, known)
<1>1. /\ DOMAIN put = DOMAIN table \cup {member}
      /\ \A m \in DOMAIN table \cup {member} : put[m] = IF m = member THEN known ELSE table[m]
  BY DEF Put
<1>2. Cardinality(DirectNeighbors(put, t)) <= MaxDirectNeighbors
  BY PutDirect DEF Steady
<1> HIDE DEF put
<1>3. Past(put, t)
  BY <1>1 DEF Steady, Past
<1> QED BY <1>2, <1>3 DEF Steady, put

(* So does the rest when the route put is the newest claim.                *)
LEMMA PutCurrent ==
  ASSUME NEW table, NEW member \in Others, NEW known,
         NEW h, NEW heard1, Current(table, h),
         \A m \in Others \ {member} : heard1[m] = h[m],
         Kept(known.routed, heard1[member])
  PROVE  Current(Put(table, member, known), heard1)
<1> DEFINE put == Put(table, member, known)
<1>1. /\ DOMAIN put = DOMAIN table \cup {member}
      /\ \A m \in DOMAIN table \cup {member} : put[m] = IF m = member THEN known ELSE table[m]
  BY DEF Put
<1> HIDE DEF put
<1>2. ASSUME NEW m \in Others PROVE Kept(Entry(put, m).routed, heard1[m])
  <2>1. CASE m = member BY <1>1, <2>1 DEF Entry
  <2>2. CASE m # member
    <3>1. Entry(put, m) = Entry(table, m) /\ heard1[m] = h[m] BY <1>1, <2>2 DEF Entry
    <3> QED BY <3>1 DEF Current
  <2> QED BY <2>1, <2>2
<1> QED BY <1>2 DEF Current, put

(* A call that leaves the clock alone.                                     *)
LEMMA TableStep ==
  ASSUME PresenceInv, UNCHANGED <<time, steps>>, Typed(members'), Fits(members'),
         DOMAIN heard' = Certified, \A m \in Certified : heard'[m] \subseteq Versions \X Int,
         Current(members', heard'), steps = 0 => Steady(members', time)
  PROVE  PresenceInv'
<1>1. PresenceTyped'
  BY DEF PresenceInv, PresenceTyped, Typed, Versions, Entries, Routes, Times, Certified, NoTime
<1>2. Fits(members)' BY DEF Fits
<1>3. Current(members, heard)'
  BY DEF Current, Kept, Entry, Unknown, NoRoute, NoTime, NewestOf, Newer
<1>4. (steps = 0 => Steady(members, time))'
  BY DEF Steady, Past, DirectNeighbors, Fresh, NoTime
<1> QED BY <1>1, <1>2, <1>3, <1>4 DEF PresenceInv

(* What every call works on.                                               *)
LEMMA ExpiredInv ==
  ASSUME Limits, PresenceInv
  PROVE  LET table == Expired(members, time)
             kept == StillHeard(heard, table)
         IN  /\ Typed(table) /\ Fits(table) /\ Current(table, kept)
             /\ steps = 0 => Steady(table, time)
             /\ DirectNeighbors(table, time) = DirectNeighbors(members, time)
             /\ DOMAIN kept = Certified /\ \A m \in Certified : kept[m] \subseteq Versions \X Int
<1>1. /\ time \in Nat /\ Typed(members) /\ Fits(members) /\ Current(members, heard)
      /\ \A m \in Certified : heard[m] \subseteq Versions \X Int
  BY DEF PresenceInv, PresenceTyped
<1>2. steps = 0 => Steady(Expired(members, time), time)
  BY <1>1, ExpiredSteady DEF PresenceInv
<1>3. DirectNeighbors(Expired(members, time), time) = DirectNeighbors(members, time)
  BY <1>1, ExpiredTyped DEF DirectNeighbors, Alive
<1>4. Current(Expired(members, time), StillHeard(heard, Expired(members, time)))
  BY <1>1, ExpiredCurrent
<1> QED BY <1>1, <1>2, <1>3, <1>4, ExpiredTyped, ExpiredFits, StillHeardTyped

(* Times in the table are not ahead of a clock never set back.             *)
LEMMA EntrySteady ==
  ASSUME NEW table, NEW t \in Nat, Steady(table, t), NEW m
  PROVE  Entry(table, m).direct_at <= t /\ Entry(table, m).routed.received_at <= t
  BY DEF Steady, Past, Entry, Unknown, NoRoute, NoTime

(* observe_direct, accepted or refused for want of room.                   *)
LEMMA DirectStep ==
  ASSUME Limits, PresenceInv, NEW member \in Others, ObserveDirect(member)
  PROVE  PresenceInv'
<1> DEFINE table == Expired(members, time)
           kept == StillHeard(heard, table)
           known == [Entry(table, member) EXCEPT !.direct_at = time]
           put == Put(table, member, known)
<1>1. /\ DirectAllowed(member) /\ UNCHANGED <<time, steps>> /\ heard' = kept
      /\ members' = IF HasRoom(table, member) THEN put ELSE table
  BY DEF ObserveDirect
<1>2. time \in Nat
  BY DEF PresenceInv, PresenceTyped
<1>3. /\ Typed(table) /\ Fits(table) /\ Current(table, kept) /\ (steps = 0 => Steady(table, time))
      /\ DirectNeighbors(table, time) = DirectNeighbors(members, time)
      /\ DOMAIN kept = Certified /\ \A m \in Certified : kept[m] \subseteq Versions \X Int
  BY ExpiredInv
<1>4. \/ member \in DirectNeighbors(table, time)
      \/ Cardinality(DirectNeighbors(table, time)) < MaxDirectNeighbors
  BY <1>1, <1>3, UnknownTyped DEF DirectAllowed, Entry, DirectNeighbors
<1> HIDE DEF table, kept
<1>5. known \in Entries /\ known.direct_at = time /\ known.routed = Entry(table, member).routed
  BY <1>2, <1>3, DirectEntry
<1> HIDE DEF known
<1>6. Typed(put) /\ (HasRoom(table, member) => Fits(put)) BY <1>3, <1>5, PutTyped, PutFits
<1>7. ASSUME steps = 0 PROVE Steady(put, time)
  <2>1. known.direct_at <= time /\ known.routed.received_at <= time
    BY <1>2, <1>3, <1>5, <1>7, EntrySteady
  <2> QED BY <1>2, <1>3, <1>4, <1>5, <1>7, <2>1, PutSteady
<1>8. Current(put, kept)
  <2>1. Kept(known.routed, kept[member]) BY <1>3, <1>5 DEF Current
  <2> QED BY <1>3, <2>1, PutCurrent
<1> HIDE DEF put
<1> QED BY <1>1, <1>3, <1>6, <1>7, <1>8, TableStep

(* disconnect_direct, which may leave the member a route.                  *)
LEMMA DisconnectStep ==
  ASSUME Limits, PresenceInv, NEW member \in Others, DisconnectDirect(member)
  PROVE  PresenceInv'
<1> DEFINE known == [members[member] EXCEPT !.direct_at = NoTime]
<1>1. /\ UNCHANGED <<time, steps, heard>> /\ member \in DOMAIN members
      /\ members' = [members EXCEPT ![member].direct_at = NoTime]
  BY DEF DisconnectDirect
<1>2. time \in Nat /\ DOMAIN heard = Certified /\ \A m \in Certified : heard[m] \subseteq Versions \X Int
  BY DEF PresenceInv, PresenceTyped
<1>3. Typed(members) /\ Fits(members) BY DEF PresenceInv, PresenceTyped
<1>4. known \in Entries /\ known.direct_at = NoTime /\ known.routed = members[member].routed
  BY <1>1, <1>3 DEF Typed, Entries, Times
<1>5. members' = [m \in DOMAIN members |-> IF m = member THEN known ELSE members[m]]
  BY <1>1
<1>6. members' = Put(members, member, known)
  BY <1>1, <1>5 DEF Put
<1> HIDE DEF known
<1>7. Typed(members') /\ Fits(members')
  <2>1. HasRoom(members, member) BY <1>1 DEF HasRoom
  <2>2. Typed(Put(members, member, known)) /\ Fits(Put(members, member, known))
    BY <1>3, <1>4, <2>1, PutTyped, PutFits
  <2> QED BY <1>6, <2>2
<1>8. ASSUME steps = 0 PROVE Steady(members', time)
  <2>1. Steady(members, time) BY <1>8 DEF PresenceInv
  <2>2. ~Fresh(known.direct_at, time) /\ known.direct_at <= time BY <1>2, <1>4 DEF Fresh, NoTime
  <2>3. known.routed.received_at <= time BY <1>1, <1>4, <2>1 DEF Steady, Past
  <2> QED BY <1>2, <1>3, <1>4, <1>6, <2>1, <2>2, <2>3, PutSteady
<1>9. Current(members', heard)
  <2>1. Current(members, heard) BY DEF PresenceInv
  <2>2. Kept(known.routed, heard[member]) BY <1>1, <1>4, <2>1 DEF Current, Entry
  <2> QED BY <1>6, <2>1, <2>2, PutCurrent
<1> QED BY <1>1, <1>2, <1>7, <1>8, <1>9, TableStep

(* A claim that gets in replaces a route only by a newer or shorter one,   *)
(* and takes an empty place only if none is remembered.                    *)
LEMMA ClaimKept ==
  ASSUME Limits, NEW record \in Records, NEW via, NEW hops \in Int, NEW t \in Nat,
         record.version[1] # 0, NEW route \in Routes, NEW h \in SUBSET (Versions \X Int),
         Kept(route, h)
  PROVE  Kept(IF Replaces(route, record, hops) THEN RouteOf(record, via, hops, t) ELSE route,
              h \cup {<<record.version, hops>>})
<1> DEFINE new == RouteOf(record, via, hops, t)
           x == <<record.version, hops>>
<1>1. new.version = record.version /\ new.hops = hops /\ new.received_at = t
  BY DEF RouteOf
<1>2. /\ record.version \in Versions /\ route.version \in Versions /\ route.hops \in Int
      /\ \A y \in h : y[1] \in Versions /\ y[2] \in Int
  BY DEF Limits, Heartbeats, Routes
<1>3. new # NoRoute BY <1>1 DEF NoRoute, NoTime
<1>5. x[1] = record.version /\ x[2] = hops OBVIOUS
<1> HIDE DEF new, x
<1>6. CASE route = NoRoute
  <2>1. Replaces(route, record, hops)
    BY <1>2, <1>6 DEF Replaces, Newer, NoRoute, Versions
  <2>2. h = {} BY <1>6 DEF Kept
  <2>3. NewestOf(new, h \cup {x})
    BY <1>1, <1>2, <1>5, <2>2, VersionOrder DEF NewestOf
  <2> QED BY <1>3, <2>1, <2>3 DEF Kept, new, x
<1>7. CASE route # NoRoute /\ Replaces(route, record, hops)
  <2>1. \A y \in h : ~Newer(y[1], route.version) /\ (y[1] = route.version => route.hops <= y[2])
    BY <1>7 DEF Kept, NewestOf
  <2>2. \A y \in h : ~Newer(y[1], record.version) /\ (y[1] = record.version => hops <= y[2])
    <3> SUFFICES ASSUME NEW y \in h
                 PROVE  ~Newer(y[1], record.version) /\ (y[1] = record.version => hops <= y[2])
      OBVIOUS
    <3>1. CASE Newer(record.version, route.version)
      <4>1. ~Newer(route.version, record.version) BY <1>2, <3>1, VersionOrder
      <4>2. ~Newer(y[1], record.version) BY <1>2, <2>1, <4>1, VersionOrder
      <4>3. y[1] # record.version BY <2>1, <3>1
      <4> QED BY <4>2, <4>3
    <3>2. CASE record.version = route.version /\ hops < route.hops BY <1>2, <2>1, <3>2
    <3> QED BY <1>7, <3>1, <3>2 DEF Replaces
  <2>3. NewestOf(new, h \cup {x})
    BY <1>1, <1>2, <1>5, <2>2, VersionOrder DEF NewestOf
  <2> QED BY <1>3, <1>7, <2>3 DEF Kept, new, x
<1>8. CASE route # NoRoute /\ ~Replaces(route, record, hops)
  <2>1. NewestOf(route, h \cup {x})
    BY <1>2, <1>5, <1>8 DEF NewestOf, Kept, Replaces
  <2> QED BY <1>8, <2>1 DEF Kept, x
<1> QED BY <1>6, <1>7, <1>8

(* observe_relay, with the claims that are stale, longer or late.          *)
LEMMA RelayStep ==
  ASSUME Limits, PresenceInv, NEW record \in Records, NEW via \in Others,
         NEW hops \in 2 .. MaxPresenceHops, ObserveRelay(record, via, hops)
  PROVE  PresenceInv'
<1> DEFINE table == Expired(members, time)
           kept == StillHeard(heard, table)
           member == record.member
           old == Entry(table, member)
           route == RouteOf(record, via, hops, time)
           known == [old EXCEPT !.routed = route]
           put == Put(table, member, known)
           said == [kept EXCEPT ![member] = @ \cup {<<record.version, hops>>}]
<1>1. /\ member # Me /\ record.version[1] # 0
      /\ UNCHANGED <<time, steps>>
      /\ IF HasRoom(table, member)
         THEN members' = (IF Replaces(old.routed, record, hops) THEN put ELSE table) /\ heard' = said
         ELSE members' = table /\ heard' = kept
  BY DEF ObserveRelay, RouteOf
<1>2. time \in Nat
  BY DEF PresenceInv, PresenceTyped
<1>3. member \in Others /\ member \in Certified /\ record.version \in Versions /\ hops \in Int
  BY <1>1 DEF Limits, Heartbeats, Certified
<1>4. /\ Typed(table) /\ Fits(table) /\ Current(table, kept) /\ (steps = 0 => Steady(table, time))
      /\ DOMAIN kept = Certified /\ \A m \in Certified : kept[m] \subseteq Versions \X Int
  BY ExpiredInv
<1> HIDE DEF table, kept
<1>5. /\ known \in Entries /\ known.direct_at = old.direct_at /\ known.routed = route
      /\ route.received_at = time
  BY <1>2, <1>3, <1>4, RoutedEntry DEF Limits, RouteOf
<1>6. old \in Entries /\ old.routed \in Routes BY <1>4, EntryTyped DEF Entries
<1>7. /\ DOMAIN said = Certified /\ said[member] = kept[member] \cup {<<record.version, hops>>}
      /\ \A m \in Certified \ {member} : said[m] = kept[m]
  BY <1>3, <1>4
<1>8. \A m \in Certified : said[m] \subseteq Versions \X Int
  BY <1>3, <1>4, <1>7
<1> HIDE DEF known, said
<1>9. Typed(put) /\ (HasRoom(table, member) => Fits(put)) BY <1>3, <1>4, <1>5, PutTyped, PutFits
<1>10. ASSUME steps = 0, Replaces(old.routed, record, hops) PROVE Steady(put, time)
  <2>1. Steady(table, time) BY <1>4, <1>10
  <2>2. known.direct_at <= time /\ known.routed.received_at <= time
    BY <1>2, <1>5, <2>1, EntrySteady
  <2>3. member \in DirectNeighbors(table, time) \/ ~Fresh(known.direct_at, time)
    BY <1>5, UnknownTyped DEF DirectNeighbors, Entry
  <2> QED BY <1>2, <1>3, <1>4, <1>5, <2>1, <2>2, <2>3, PutSteady
<1>11. Current(IF Replaces(old.routed, record, hops) THEN put ELSE table, said)
  <2>1. Kept(IF Replaces(old.routed, record, hops) THEN route ELSE old.routed, said[member])
    <3>1. kept[member] \in SUBSET (Versions \X Int) BY <1>3, <1>4
    <3>2. Kept(old.routed, kept[member]) BY <1>3, <1>4 DEF Current
    <3> HIDE DEF old
    <3>3. Kept(IF Replaces(old.routed, record, hops) THEN RouteOf(record, via, hops, time) ELSE old.routed,
               kept[member] \cup {<<record.version, hops>>})
      BY <1>1, <1>2, <1>3, <1>6, <3>1, <3>2, ClaimKept
    <3> QED BY <1>7, <3>3
  <2>2. CASE ~Replaces(old.routed, record, hops)
    <3>1. \A m \in Others : Kept(Entry(table, m).routed, said[m])
      BY <1>3, <1>4, <1>7, <2>1, <2>2 DEF Current, Certified
    <3> QED BY <2>2, <3>1 DEF Current
  <2>3. CASE Replaces(old.routed, record, hops)
    <3>1. \A m \in Others \ {member} : said[m] = kept[m] BY <1>7 DEF Certified
    <3>2. Kept(known.routed, said[member]) BY <1>5, <2>1, <2>3
    <3>3. Current(put, said) BY <1>3, <1>4, <3>1, <3>2, PutCurrent
    <3> QED BY <2>3, <3>3
  <2> QED BY <2>2, <2>3
<1> HIDE DEF put, old
<1> QED BY <1>1, <1>4, <1>7, <1>8, <1>9, <1>10, <1>11, TableStep

(* The clock of the host, forwards or set back.                            *)
LEMMA ClockStep ==
  ASSUME Limits, PresenceInv, ClockForward \/ ClockBack
  PROVE  PresenceInv'
<1>1. CASE ClockForward
  <2>1. time' = time + 1 /\ UNCHANGED <<members, steps, heard>> BY <1>1 DEF ClockForward
  <2>2. time \in Nat /\ Typed(members) BY DEF PresenceInv, PresenceTyped
  <2>3. ASSUME steps = 0 PROVE Steady(members, time + 1)
    <3>1. Steady(members, time) BY <2>3 DEF PresenceInv
    <3>2. \A m \in DOMAIN members : /\ members[m].direct_at \in Times
                                    /\ members[m].routed.received_at \in Times
      BY <2>2 DEF Typed, Entries, Routes
    <3>3. Past(members, time + 1) BY <2>2, <3>1, <3>2 DEF Steady, Past, Times, NoTime
    <3>4. DirectNeighbors(members, time + 1) \subseteq DirectNeighbors(members, time)
      BY <2>2, <3>1, <3>2 DEF DirectNeighbors, Fresh, Steady, Past, Times, NoTime, Limits
    <3>5. DirectNeighbors(members, time) \subseteq DOMAIN members /\ IsFiniteSet(DOMAIN members)
      BY <2>2 DEF DirectNeighbors, Typed
    <3>6. IsFiniteSet(DirectNeighbors(members, time)) BY <3>5, FS_Subset
    <3>7. /\ Cardinality(DirectNeighbors(members, time + 1)) <= Cardinality(DirectNeighbors(members, time))
          /\ Cardinality(DirectNeighbors(members, time + 1)) \in Nat
          /\ Cardinality(DirectNeighbors(members, time)) \in Nat
      BY <3>4, <3>6, FS_Subset, FS_CardinalityType
    <3>8. Cardinality(DirectNeighbors(members, time + 1)) <= MaxDirectNeighbors
      BY <3>1, <3>7 DEF Steady, Limits
    <3> QED BY <3>3, <3>8 DEF Steady
  <2>4. (steps = 0 => Steady(members, time))'
    BY <2>1, <2>3 DEF Steady, Past, DirectNeighbors, Fresh, NoTime
  <2>5. PresenceTyped' /\ Fits(members)'
    BY <2>1, <2>2 DEF PresenceInv, PresenceTyped, Fits, Typed, Versions, Entries, Routes, Times,
         Certified, NoTime
  <2>6. Current(members, heard)'
    BY <2>1 DEF PresenceInv, Current, Kept, Entry, Unknown, NoRoute, NoTime, NewestOf, Newer
  <2> QED BY <2>4, <2>5, <2>6 DEF PresenceInv
<1>2. CASE ClockBack
  <2>1. steps' = steps + 1 /\ time' \in 0 .. time - 1 /\ UNCHANGED <<members, heard>>
    BY <1>2 DEF ClockBack
  <2>2. time' \in Nat /\ steps' \in Nat /\ steps' # 0
    BY <2>1 DEF PresenceInv, PresenceTyped
  <2>3. PresenceTyped' /\ Fits(members)'
    BY <2>1, <2>2 DEF PresenceInv, PresenceTyped, Fits, Typed, Versions, Entries, Routes, Times,
         Certified, NoTime
  <2>4. Current(members, heard)'
    BY <2>1 DEF PresenceInv, Current, Kept, Entry, Unknown, NoRoute, NoTime, NewestOf, Newer
  <2> QED BY <2>2, <2>3, <2>4 DEF PresenceInv
<1> QED BY <1>1, <1>2

(* Every step keeps the invariant of the table.                            *)
LEMMA PresenceNextKeeps ==
  ASSUME Limits, PresenceInv, [PresenceNext]_presence
  PROVE  PresenceInv'
<1>1. CASE Expire
  <2>1. /\ members' = Expired(members, time) /\ UNCHANGED <<time, steps>>
        /\ heard' = StillHeard(heard, Expired(members, time))
    BY <1>1 DEF Expire
  <2> QED BY <2>1, ExpiredInv, TableStep
<1>2. CASE UNCHANGED presence
  <2>1. UNCHANGED <<members, time, steps, heard>> BY <1>2 DEF presence
  <2>2. /\ DOMAIN heard = Certified /\ (\A m \in Certified : heard[m] \subseteq Versions \X Int)
        /\ Typed(members) /\ Fits(members) /\ Current(members, heard) /\ (steps = 0 => Steady(members, time))
    BY DEF PresenceInv, PresenceTyped
  <2> QED BY <2>1, <2>2, TableStep
<1> QED BY <1>1, <1>2, DirectStep, DisconnectStep, RelayStep, ClockStep DEF PresenceNext

(* The relation between what is shown and the table.                       *)
LEMMA PathsShown ==
  ASSUME PresenceTyped
  PROVE  /\ {m \in Others : Path(m) = "Direct"} = DirectNeighbors(members, time)
         /\ \A m \in DOMAIN members : Path(m) = "Direct" <=> Fresh(members[m].direct_at, time)
<1>1. \A m : Path(m) = "Direct" <=> Fresh(Entry(members, m).direct_at, time)
  BY DEF Path
<1>2. \A m : Fresh(Entry(members, m).direct_at, time) <=> m \in DirectNeighbors(members, time)
  BY UnknownTyped DEF Entry, DirectNeighbors
<1>3. DirectNeighbors(members, time) \subseteq Others BY DEF PresenceTyped, Typed, DirectNeighbors
<1> QED BY <1>1, <1>2, <1>3 DEF DirectNeighbors

(* So it holds of every behaviour.                                         *)
LEMMA PresenceInvariant ==
  ASSUME Limits
  PROVE  PresenceSpec => []PresenceInv
<1>1. PresenceInit => PresenceInv
  <2> SUFFICES ASSUME PresenceInit PROVE PresenceInv OBVIOUS
  <2>1. /\ DOMAIN members = {} /\ time = 0 /\ steps = 0 /\ DOMAIN heard = Certified
        /\ \A m \in Certified : heard[m] = {}
    BY DEF PresenceInit
  <2>2. IsFiniteSet(DOMAIN members) /\ Cardinality(DOMAIN members) = 0
    BY <2>1, FS_EmptySet
  <2>3. PresenceTyped /\ Fits(members)
    BY <2>1, <2>2 DEF PresenceTyped, Typed, Fits, Limits
  <2>4. DirectNeighbors(members, time) = {} BY <2>1 DEF DirectNeighbors
  <2>5. Cardinality(DirectNeighbors(members, time)) <= MaxDirectNeighbors
    BY <2>4, FS_EmptySet DEF Limits
  <2>6. Current(members, heard)
    BY <2>1 DEF Current, Kept, Entry, Unknown, Certified
  <2> QED BY <2>1, <2>3, <2>5, <2>6 DEF PresenceInv, Steady, Past
<1>2. PresenceInv /\ [PresenceNext]_presence => PresenceInv'
  BY PresenceNextKeeps
<1> QED BY <1>1, <1>2, PTL DEF PresenceSpec

(* observe_direct asks for a free slot before it changes anything and      *)
(* reserve_member expires before it counts, so that neither bound is ever  *)
(* exceeded, for any interleaving of heartbeats, disconnections and        *)
(* expiries.                                                               *)
THEOREM PresenceStaysBounded ==
  ASSUME Limits
  PROVE  PresenceSpec => []PresenceBounded
<1>1. PresenceInv => PresenceBounded
  BY PathsShown DEF PresenceInv, Steady, Fits, PresenceBounded
<1> QED BY <1>1, PresenceInvariant, PTL

(* The route kept is that of the newest and shortest claim observed since  *)
(* the table last forgot the member, for any heartbeats and lifetimes and  *)
(* a clock that moves either way: the comparison of versions keeps older   *)
(* ones out, and only expire, which takes the whole entry, forgets one.    *)
THEOREM StaleClaimsStayOut ==
  ASSUME Limits
  PROVE  PresenceSpec => []StaleStaysGone
<1>1. PresenceInv => StaleStaysGone
  <2> SUFFICES ASSUME PresenceInv, NEW m \in DOMAIN members, members[m].routed # NoRoute,
                      NEW h \in heard[m]
               PROVE  /\ ~Newer(h[1], members[m].routed.version)
                      /\ h[1] = members[m].routed.version => members[m].routed.hops <= h[2]
    BY DEF StaleStaysGone
  <2>1. m \in Others BY DEF PresenceInv, PresenceTyped, Typed
  <2>2. Kept(members[m].routed, heard[m])
    BY <2>1 DEF PresenceInv, Current, Entry
  <2> QED BY <2>2 DEF Kept, NewestOf
<1> QED BY <1>1, PresenceInvariant, PTL

(* While the clock stands still no call takes away a fresh relayed path,   *)
(* and none but the closing of that link a fresh direct one.               *)
THEOREM NothingLostSilently ==
  ASSUME Limits
  PROVE  PresenceSpec => NoSilentLoss
<1> DEFINE Keeps(m) == time' = time =>
             /\ Fresh(members[m].routed.received_at, time) =>
                  Fresh(Entry(members', m).routed.received_at, time)
             /\ Fresh(members[m].direct_at, time) =>
                  Fresh(Entry(members', m).direct_at, time) \/ DisconnectDirect(m)
<1>1. PresenceInv /\ [PresenceNext]_presence => [\A m \in DOMAIN members : Keeps(m)]_presence
  <2> SUFFICES ASSUME PresenceInv, PresenceNext, time' = time, NEW m \in DOMAIN members
               PROVE  Keeps(m)
    OBVIOUS
  <2>1. time \in Nat /\ Typed(members) BY DEF PresenceInv, PresenceTyped
  <2>2. Alive(members[m], time) => m \in DOMAIN Expired(members, time) /\ Expired(members, time)[m] = members[m]
    BY <2>1, ExpiredTyped
  <2>3. /\ Fresh(members[m].direct_at, time) => Alive(members[m], time)
        /\ Fresh(members[m].routed.received_at, time) => Alive(members[m], time)
    BY DEF Alive
  <2>4. Fresh(time, time) BY <2>1 DEF Fresh, NoTime, Limits
  <2> DEFINE Same(seen, old) == seen = old \/ seen = time
             Still(known) == /\ Same(known.direct_at, members[m].direct_at)
                             /\ Same(known.routed.received_at, members[m].routed.received_at)
  <2>5. ASSUME Alive(members[m], time) => m \in DOMAIN members' /\ Still(members'[m]) PROVE Keeps(m)
    BY <2>3, <2>4, <2>5 DEF Entry
  <2>6. ASSUME NEW member \in Others, ObserveDirect(member) PROVE Keeps(m)
    <3> DEFINE table == Expired(members, time)
               known == [Entry(table, member) EXCEPT !.direct_at = time]
    <3>1. members' = IF HasRoom(table, member) THEN Put(table, member, known) ELSE table
      BY <2>6 DEF ObserveDirect
    <3>2. known.routed = Entry(table, member).routed /\ known.direct_at = time
      BY <2>1, ExpiredTyped, DirectEntry
    <3> HIDE DEF known, table
    <3>3. \A x \in DOMAIN table :
            /\ x \in DOMAIN members' /\ members'[x].routed = table[x].routed
            /\ members'[x].direct_at = table[x].direct_at \/ members'[x].direct_at = time
      BY <3>1, <3>2 DEF Put, Entry
    <3>4. Alive(members[m], time) => m \in DOMAIN members' /\ Still(members'[m])
      BY <2>2, <3>3 DEF table
    <3> QED BY <2>5, <3>4
  <2>7. ASSUME NEW member \in Others, DisconnectDirect(member) PROVE Keeps(m)
    <3>1. members' = [members EXCEPT ![member].direct_at = NoTime] /\ member \in DOMAIN members
      BY <2>7 DEF DisconnectDirect
    <3>2. members[member] \in Entries BY <2>1, <3>1 DEF Typed
    <3>3. CASE m = member
      <4>1. m \in DOMAIN members' /\ members'[m].routed = members[m].routed
        BY <3>1, <3>2, <3>3 DEF Entries
      <4> QED BY <2>7, <3>3, <4>1 DEF Entry
    <3>4. CASE m # member
      <4>1. m \in DOMAIN members' /\ members'[m] = members[m] BY <3>1, <3>4
      <4> QED BY <2>5, <4>1
    <3> QED BY <3>3, <3>4
  <2>8. ASSUME NEW record \in Records, NEW via \in Others, NEW hops \in 2 .. MaxPresenceHops,
               ObserveRelay(record, via, hops)
        PROVE  Keeps(m)
    <3> DEFINE table == Expired(members, time)
               known == [Entry(table, record.member) EXCEPT !.routed = RouteOf(record, via, hops, time)]
    <3>1. members' \in {Put(table, record.member, known), table}
      BY <2>8 DEF ObserveRelay, RouteOf
    <3>2. known.routed.received_at = time /\ known.direct_at = Entry(table, record.member).direct_at
      BY <2>1, ExpiredTyped, RoutedEntry DEF RouteOf, Limits
    <3> HIDE DEF known, table
    <3>3. \A x \in DOMAIN table :
            /\ x \in DOMAIN members' /\ members'[x].direct_at = table[x].direct_at
            /\ members'[x].routed = table[x].routed \/ members'[x].routed.received_at = time
      BY <3>1, <3>2 DEF Put, Entry
    <3>4. Alive(members[m], time) => m \in DOMAIN members' /\ Still(members'[m])
      BY <2>2, <3>3 DEF table
    <3> QED BY <2>5, <3>4
  <2>9. ASSUME Expire PROVE Keeps(m)
    <3>1. members' = Expired(members, time) BY <2>9 DEF Expire
    <3>2. Alive(members[m], time) => m \in DOMAIN members' /\ Still(members'[m]) BY <2>2, <3>1
    <3> QED BY <2>5, <3>2
  <2>10. ~ClockForward /\ ~ClockBack BY <2>1 DEF ClockForward, ClockBack
  <2> HIDE DEF Keeps
  <2> QED BY <2>6, <2>7, <2>8, <2>9, <2>10 DEF PresenceNext
<1> QED BY <1>1, PresenceInvariant, PTL DEF PresenceSpec, NoSilentLoss

-----------------------------------------------------------------------------
(* Transport selection.  The links a neighbour may be sent over have a     *)
(* first one, because no two of them are the same link.                    *)
Reports == Peers \subseteq Nat /\ MaxEta \in Nat

Reported(list) == \A i \in Slots : list[i] \in Tran!Candidate \cup {Tran!NoCandidate}

(* Reported links have a first in the order of the code, which is total    *)
(* on links with different peers or kinds.                                 *)
LEMMA FirstLink ==
  ASSUME Reports, NEW list, Reported(list), ~Tran!Invalid(list), Tran!Eligible(list) # {}
  PROVE  \E i \in Tran!Eligible(list) :
           \A j \in Tran!Eligible(list) \ {i} : Tran!Before(list[i], list[j])
<1> DEFINE E == Tran!Eligible(list)
           Fast == {i \in E : \A j \in E : list[i].eta <= list[j].eta}
           First == {i \in Fast : \A j \in Fast :
                      Tran!TransportRank(list[i].transport) <= Tran!TransportRank(list[j].transport)}
<1>1. \A i \in E : /\ i \in Slots /\ list[i].usable /\ list[i] \in Tran!Candidate
                   /\ list[i].eta \in Nat /\ list[i].peer \in Nat
                   /\ list[i].transport \in Tran!Kinds
                   /\ Tran!TransportRank(list[i].transport) \in Nat
  <2> SUFFICES ASSUME NEW i \in E
               PROVE  /\ i \in Slots /\ list[i].usable /\ list[i] \in Tran!Candidate
                      /\ list[i].eta \in Nat /\ list[i].peer \in Nat
                      /\ list[i].transport \in Tran!Kinds
                      /\ Tran!TransportRank(list[i].transport) \in Nat
    OBVIOUS
  <2>1. i \in Slots /\ list[i].usable BY DEF Tran!Eligible
  <2>2. list[i] # Tran!NoCandidate BY <2>1 DEF Tran!NoCandidate
  <2>3. list[i] \in Tran!Candidate BY <2>1, <2>2 DEF Reported
  <2>4. list[i].peer \in Peers /\ list[i].transport \in Tran!Kinds /\ list[i].eta \in 0 .. MaxEta
    BY <2>3 DEF Tran!Candidate
  <2>5. Tran!TransportRank(list[i].transport) \in Nat BY DEF Tran!TransportRank
  <2>7. Peers \subseteq Nat /\ MaxEta \in Nat BY DEF Reports
  <2>8. \A e \in 0 .. MaxEta : e \in Nat BY <2>7
  <2>6. list[i].peer \in Nat /\ list[i].eta \in Nat BY <2>4, <2>7, <2>8, Zenon
  <2> QED BY <2>1, <2>3, <2>4, <2>5, <2>6
<1>2. \A i, j \in E : i # j => ~Tran!SameLink(list[i], list[j]) BY DEF Tran!Invalid
<1> HIDE DEF E
<1>3. Fast # {}
  <2> DEFINE T == {list[i].eta : i \in E}
  <2>1. T \subseteq Nat /\ T # {} BY <1>1 DEF E
  <2>2. PICK x \in T : \A y \in T : x <= y BY <2>1, Least
  <2> QED BY <2>2
<1>4. First # {}
  <2> DEFINE T == {Tran!TransportRank(list[i].transport) : i \in Fast}
  <2>1. T \subseteq Nat /\ T # {} BY <1>1, <1>3
  <2>2. PICK x \in T : \A y \in T : x <= y BY <2>1, Least
  <2> QED BY <2>2
<1>5. PICK i \in First : \A j \in First : list[i].peer <= list[j].peer
  <2> DEFINE T == {list[i].peer : i \in First}
  <2>1. T \subseteq Nat /\ T # {} BY <1>1, <1>4
  <2>2. PICK x \in T : \A y \in T : x <= y BY <2>1, Least
  <2> QED BY <2>2
<1>6. ASSUME NEW j \in E \ {i} PROVE Tran!Before(list[i], list[j])
  <2>1. i \in E /\ i \in Fast /\ list[i].eta <= list[j].eta OBVIOUS
  <2>2. CASE j \notin Fast
    <3>1. list[i].eta < list[j].eta BY <1>1, <2>1, <2>2
    <3> QED BY <3>1 DEF Tran!Before
  <2>3. CASE j \in Fast /\ j \notin First
    <3>1. list[i].eta = list[j].eta BY <1>1, <2>1, <2>3
    <3>2. Tran!TransportRank(list[i].transport) < Tran!TransportRank(list[j].transport)
      BY <1>1, <2>1, <2>3
    <3> QED BY <3>1, <3>2 DEF Tran!Before
  <2>4. CASE j \in First
    <3>1. list[i].eta = list[j].eta BY <1>1, <2>1, <2>4
    <3>2. Tran!TransportRank(list[i].transport) = Tran!TransportRank(list[j].transport)
      BY <1>1, <2>1, <2>4
    <3>3. list[i].transport = list[j].transport
      BY <1>1, <2>1, <3>2 DEF Tran!TransportRank, Tran!Kinds
    <3>4. list[i].peer # list[j].peer BY <1>2, <2>1, <3>3 DEF Tran!SameLink
    <3>5. list[i].peer < list[j].peer
      <4>1. list[i].peer <= list[j].peer BY <1>5, <2>4
      <4>2. list[i].peer \in Nat /\ list[j].peer \in Nat BY <1>1, <2>1
      <4> QED BY <3>4, <4>1, <4>2
    <3> QED BY <3>1, <3>3, <3>5 DEF Tran!Before
  <2> QED BY <2>2, <2>3, <2>4
<1> QED BY <1>6 DEF E

(* The choice is the first eligible link, and none is faster.              *)
LEMMA BestLink ==
  ASSUME Reports, NEW list, Reported(list), ~Tran!Invalid(list), Tran!Eligible(list) # {}
  PROVE  \E i \in Tran!Eligible(list) :
           /\ Tran!Best(list) = Tran!CandidateChoice(list[i])
           /\ \A j \in Tran!Eligible(list) : list[i].eta <= list[j].eta
<1> DEFINE i == CHOOSE i \in Tran!Eligible(list) :
                  \A j \in Tran!Eligible(list) \ {i} : Tran!Before(list[i], list[j])
<1>1. i \in Tran!Eligible(list) /\ \A j \in Tran!Eligible(list) \ {i} : Tran!Before(list[i], list[j])
  BY FirstLink
<1>2. Tran!Best(list) = Tran!CandidateChoice(list[i]) BY DEF Tran!Best
<1> HIDE DEF i
<1>3. \A j \in Tran!Eligible(list) : list[j].eta \in Int
  BY DEF Tran!Eligible, Reported, Tran!Candidate, Tran!NoCandidate
<1> QED BY <1>1, <1>2, <1>3 DEF Tran!Before

(* select_transport sorts what is eligible and compares it with the link   *)
(* in use, so that every attempt takes the quickest link fit for it,       *)
(* leaves a bearer only for a reason and repeats its choice on the same    *)
(* facts, whatever the adapters reported and withdrew before.              *)
THEOREM AttemptsSendWell ==
  ASSUME Reports
  PROVE  Tran!Spec => SendsWell
<1> DEFINE Typing == candidates \in [Slots -> Tran!Candidate \cup {Tran!NoCandidate}]
           links == {candidates[i] : i \in Slots}
           fit == {c \in links : c.usable /\ c.peer # ReceivedFrom}
           Well(kind, from, to) ==
             /\ \E c \in fit : Tran!CandidateChoice(c) = to
             /\ \A c \in fit : to.eta <= c.eta
             /\ kind = "Switch" => /\ from = current /\ ~Tran!SameLink(current, to)
                                  /\ \E c \in fit : Tran!SameLink(c, current)
             /\ Tran!SelectTransport(to, candidates).kind = "Keep"
<1>1. Tran!Init => Typing
  BY DEF Tran!Init
<1>2. Typing /\ [Tran!Next]_(Tran!vars) => Typing'
  BY DEF Tran!Next, Tran!Report, Tran!Attempt, Tran!vars, Tran!Candidate, Tran!NoCandidate, Tran!Kinds
<1>3. ASSUME Typing, Tran!Attempt, decision'.kind \in {"Send", "Keep", "Switch"}
      PROVE  Well(decision'.kind, decision'.from, decision'.to)
  <2>1. decision' = Tran!SelectTransport(current, candidates) BY <1>3 DEF Tran!Attempt
  <2>2. ~Tran!Invalid(candidates) /\ Tran!Eligible(candidates) # {}
    BY <1>3, <2>1 DEF Tran!SelectTransport
  <2>3. Reported(candidates) BY <1>3 DEF Reported
  <2>4. PICK i \in Tran!Eligible(candidates) :
          /\ Tran!Best(candidates) = Tran!CandidateChoice(candidates[i])
          /\ \A j \in Tran!Eligible(candidates) : candidates[i].eta <= candidates[j].eta
    BY <2>2, <2>3, BestLink
  <2>5. decision'.to = Tran!Best(candidates) BY <1>3, <2>1, <2>2 DEF Tran!SelectTransport
  <2>6. \A c : c \in fit <=> \E j \in Tran!Eligible(candidates) : c = candidates[j]
    BY DEF Tran!Eligible
  <2>7. decision'.to.eta = candidates[i].eta /\ Tran!SameLink(decision'.to, candidates[i])
        /\ Tran!SameLink(candidates[i], decision'.to)
    BY <2>4, <2>5 DEF Tran!CandidateChoice, Tran!SameLink
  <2>8. Tran!SelectTransport(decision'.to, candidates).kind = "Keep"
    BY <2>2, <2>5, <2>7 DEF Tran!SelectTransport, Tran!SameLink
  <2>9. decision'.kind = "Switch" =>
          /\ decision'.from = current /\ ~Tran!SameLink(current, decision'.to)
          /\ \E j \in Tran!Eligible(candidates) : Tran!SameLink(candidates[j], current)
    BY <2>1, <2>2, <2>5 DEF Tran!SelectTransport
  <2> HIDE DEF fit
  <2> QED BY <2>4, <2>5, <2>6, <2>7, <2>8, <2>9
<1>4. Typing /\ [Tran!Next]_(Tran!vars) =>
        [decision'.kind \in {"Send", "Keep", "Switch"} /\ current' = decision'.to /\ UNCHANGED candidates
           => Well(decision'.kind, decision'.from, decision'.to)]_(Tran!vars)
  <2> HIDE DEF Well, Typing
  <2>1. ASSUME NEW i \in Slots, NEW c, Tran!Report(i, c), UNCHANGED candidates PROVE UNCHANGED Tran!vars
    BY <2>1 DEF Tran!Report, Tran!vars
  <2> QED BY <1>3, <2>1 DEF Tran!Next
<1> QED BY <1>1, <1>2, <1>4, PTL DEF Tran!Spec, Tran!SendsWell, SendsWell

-----------------------------------------------------------------------------
(* The overlay.  Positions number the sorted roster from 0 without a gap.  *)
(* Rank numbers a finite set of members from 0, in their order.            *)
LEMMA Ranks ==
  ASSUME NEW S, S \subseteq Int, IsFiniteSet(S)
  PROVE  /\ \A a \in S : Rank(a, S) \in 0 .. Cardinality(S) - 1
         /\ \A a, b \in S : a < b => Rank(a, S) < Rank(b, S)
         /\ \A a, b \in S : Rank(a, S) = Rank(b, S) => a = b
         /\ \A i \in 0 .. Cardinality(S) - 1 : \E a \in S : Rank(a, S) = i
<1> DEFINE Below(a) == {m \in S : m < a}
           n == Cardinality(S)
<1>1. \A a : Rank(a, S) = Cardinality(Below(a)) BY DEF Rank
<1>2. n \in Nat BY FS_CardinalityType
<1>3. \A a : IsFiniteSet(Below(a)) /\ Cardinality(Below(a)) \in Nat
  BY FS_Subset, FS_CardinalityType
<1>4. ASSUME NEW a \in S PROVE Cardinality(Below(a)) \in 0 .. n - 1
  <2>1. Below(a) \in SUBSET S /\ Below(a) # S OBVIOUS
  <2>2. Cardinality(Below(a)) <= n /\ Cardinality(Below(a)) # n BY <2>1, FS_Subset
  <2> QED BY <1>2, <1>3, <2>2
<1>5. ASSUME NEW a \in S, NEW b \in S, a < b PROVE Cardinality(Below(a)) < Cardinality(Below(b))
  <2>1. Below(a) \in SUBSET Below(b) /\ Below(a) # Below(b)
    <3>1. a \in Below(b) /\ a \notin Below(a) BY <1>5
    <3>2. \A m \in S : m < a => m < b BY <1>5
    <3> QED BY <3>1, <3>2
  <2>2. Cardinality(Below(a)) <= Cardinality(Below(b)) /\ Cardinality(Below(a)) # Cardinality(Below(b))
    BY <1>3, <2>1, FS_Subset
  <2> QED BY <1>3, <2>2
<1>6. \A a, b \in S : Cardinality(Below(a)) = Cardinality(Below(b)) => a = b
  <2> SUFFICES ASSUME NEW a \in S, NEW b \in S, a # b PROVE Cardinality(Below(a)) # Cardinality(Below(b))
    OBVIOUS
  <2>1. a < b \/ b < a OBVIOUS
  <2> QED BY <1>3, <1>5, <2>1
<1>7. \A i \in 0 .. n - 1 : \E a \in S : Cardinality(Below(a)) = i
  <2> DEFINE f == [a \in S |-> Cardinality(Below(a))]
  <2> HIDE DEF Below
  <2>1. f \in Injection(S, 0 .. n - 1)
    BY <1>4, <1>6, Fun_IsInj
  <2>2. IsFiniteSet(0 .. n - 1) /\ Cardinality(0 .. n - 1) = n
    <3>1. n \in Nat /\ 0 \in Int /\ n - 1 \in Int BY <1>2
    <3>2. /\ IsFiniteSet(0 .. n - 1)
          /\ Cardinality(0 .. n - 1) = IF 0 > n - 1 THEN 0 ELSE (n - 1) - 0 + 1
      BY <3>1, FS_Interval, Zenon
    <3> HIDE DEF n
    <3> QED BY <3>1, <3>2
  <2>3. f \in Surjection(S, 0 .. n - 1) BY <2>1, <2>2, FS_Injection
  <2>4. \A i \in 0 .. n - 1 : \E a \in S : f[a] = i BY <2>3 DEF Surjection
  <2> QED BY <2>4
<1> HIDE DEF Below
<1> QED BY <1>1, <1>4, <1>5, <1>6, <1>7

(* At inverts Rank.                                                        *)
LEMMA Positions ==
  ASSUME NEW S, S \subseteq Int, IsFiniteSet(S), NEW i \in 0 .. Cardinality(S) - 1
  PROVE  /\ At(S, i) \in S /\ Rank(At(S, i), S) = i
         /\ \A b : b = At(S, i) <=> b \in S /\ Rank(b, S) = i
<1>1. \E a \in S : Rank(a, S) = i BY Ranks
<1>2. At(S, i) \in S /\ Rank(At(S, i), S) = i BY <1>1 DEF At
<1>3. \A a, b \in S : Rank(a, S) = Rank(b, S) => a = b BY Ranks
<1> QED BY <1>2, <1>3

(* The plan in terms of positions: the next, the previous and, in an even  *)
(* roster, the opposite one.                                               *)
After(r, n) == IF r = n - 1 THEN 0 ELSE r + 1
Prior(r, n) == IF r = 0 THEN n - 1 ELSE r - 1
Opposite(r, n) == IF r < n \div 2 THEN r + n \div 2 ELSE r - n \div 2

(* The arithmetic of the ring: one place on, one place back, halfway.      *)
LEMMA Turns ==
  ASSUME NEW n \in Nat \ {0}, NEW r \in 0 .. n - 1
  PROVE  /\ (r + 1) % n = After(r, n) /\ After(r, n) \in 0 .. n - 1
         /\ (r + n - 1) % n = Prior(r, n) /\ Prior(r, n) \in 0 .. n - 1
         /\ n % 2 = 0 => /\ (r + n \div 2) % n = Opposite(r, n) /\ Opposite(r, n) \in 0 .. n - 1
                         /\ n = 2 * (n \div 2)
<1>1. \A a \in 0 .. n - 1 : a % n = a OBVIOUS
<1>2. \A a \in n .. n + n - 1 : a % n = a - n OBVIOUS
<1>3. (r + 1) % n = After(r, n) /\ After(r, n) \in 0 .. n - 1
  <2>1. CASE r = n - 1
    <3>1. r + 1 \in n .. n + n - 1 /\ (r + 1) - n = 0 BY <2>1
    <3> QED BY <1>2, <2>1, <3>1 DEF After
  <2>2. CASE r # n - 1
    <3>1. r + 1 \in 0 .. n - 1 BY <2>2
    <3> QED BY <1>1, <2>2, <3>1 DEF After
  <2> QED BY <2>1, <2>2
<1>4. (r + n - 1) % n = Prior(r, n) /\ Prior(r, n) \in 0 .. n - 1
  <2>1. CASE r = 0
    <3>1. r + n - 1 \in 0 .. n - 1 /\ r + n - 1 = n - 1 BY <2>1
    <3> QED BY <1>1, <2>1, <3>1 DEF Prior
  <2>2. CASE r # 0
    <3>1. r + n - 1 \in n .. n + n - 1 /\ (r + n - 1) - n = r - 1 /\ r - 1 \in 0 .. n - 1 BY <2>2
    <3> QED BY <1>2, <2>2, <3>1 DEF Prior
  <2> QED BY <2>1, <2>2
<1>5. ASSUME n % 2 = 0
      PROVE  /\ (r + n \div 2) % n = Opposite(r, n) /\ Opposite(r, n) \in 0 .. n - 1
             /\ n = 2 * (n \div 2)
  <2>1. n = 2 * (n \div 2) /\ n \div 2 \in Nat BY <1>5
  <2>2. CASE r < n \div 2
    <3>1. r + n \div 2 \in 0 .. n - 1 BY <2>1, <2>2
    <3> QED BY <1>1, <2>1, <2>2, <3>1 DEF Opposite
  <2>3. CASE ~(r < n \div 2)
    <3>1. /\ r + n \div 2 \in n .. n + n - 1 /\ (r + n \div 2) - n = r - n \div 2
          /\ r - n \div 2 \in 0 .. n - 1
      BY <2>1, <2>3
    <3> QED BY <1>2, <2>1, <2>3, <3>1 DEF Opposite
  <2> QED BY <2>2, <2>3
<1> QED BY <1>3, <1>4, <1>5

Roster(S) == S \subseteq Int /\ IsFiniteSet(S) /\ S # {}

(* The neighbours of a member by their place in the ring.                  *)
LEMMA Plan ==
  ASSUME NEW S, Roster(S), NEW a \in S
  PROVE  LET n == Cardinality(S)  r == Rank(a, S) IN
         /\ n \in Nat \ {0} /\ r \in 0 .. n - 1
         /\ \A b : b \in WifiAware(a, S) <=>
              b \in S /\ n > 1 /\ Rank(b, S) \in {After(r, n), Prior(r, n)}
         /\ \A b : b \in BluetoothFallback(a, S) <=>
              b \in S /\ n >= 4 /\ n % 2 = 0 /\ Rank(b, S) = Opposite(r, n)
         /\ Cardinality(WifiAware(a, S)) <= 2
<1> DEFINE n == Cardinality(S)
           r == Rank(a, S)
<1>1. n \in Nat \ {0} BY FS_CardinalityType, FS_EmptySet DEF Roster
<1>2. r \in 0 .. n - 1 BY Ranks DEF Roster
<1>3. Cardinality(S) = n OBVIOUS
<1>4. \A i \in 0 .. n - 1 : \A b : b = At(S, i) <=> b \in S /\ Rank(b, S) = i
  BY Positions DEF Roster
<1>5. WifiAware(a, S) =
        IF n = 1 THEN {}
        ELSE IF n = 2 THEN {At(S, (r + 1) % n)}
        ELSE {At(S, (r + n - 1) % n), At(S, (r + 1) % n)}
  BY <1>3 DEF WifiAware
<1>6. BluetoothFallback(a, S) =
        IF n >= 4 /\ n % 2 = 0 THEN {At(S, (r + n \div 2) % n)} ELSE {}
  BY <1>3 DEF BluetoothFallback
<1> HIDE DEF n, r
<1>7. /\ (r + 1) % n = After(r, n) /\ After(r, n) \in 0 .. n - 1
      /\ (r + n - 1) % n = Prior(r, n) /\ Prior(r, n) \in 0 .. n - 1
      /\ n % 2 = 0 => (r + n \div 2) % n = Opposite(r, n) /\ Opposite(r, n) \in 0 .. n - 1
  BY <1>1, <1>2, Turns
<1>8. n = 2 => After(r, n) = Prior(r, n) BY <1>2 DEF After, Prior
<1>9. ASSUME NEW b PROVE b \in WifiAware(a, S) <=>
        b \in S /\ n > 1 /\ Rank(b, S) \in {After(r, n), Prior(r, n)}
  <2>1. CASE n = 1 BY <1>5, <2>1
  <2>2. CASE n = 2 BY <1>4, <1>5, <1>7, <1>8, <2>2
  <2>3. CASE n > 2
    <3>1. WifiAware(a, S) = {At(S, Prior(r, n)), At(S, After(r, n))}
      BY <1>5, <1>7, <2>3
    <3>2. b = At(S, Prior(r, n)) <=> b \in S /\ Rank(b, S) = Prior(r, n) BY <1>4, <1>7
    <3>3. b = At(S, After(r, n)) <=> b \in S /\ Rank(b, S) = After(r, n) BY <1>4, <1>7
    <3>4. n > 1 BY <1>1, <2>3
    <3> QED BY <3>1, <3>2, <3>3, <3>4
  <2> QED BY <1>1, <2>1, <2>2, <2>3
<1>10. ASSUME NEW b PROVE b \in BluetoothFallback(a, S) <=>
        b \in S /\ n >= 4 /\ n % 2 = 0 /\ Rank(b, S) = Opposite(r, n)
  BY <1>4, <1>6, <1>7
<1>11. Cardinality(WifiAware(a, S)) <= 2
  <2>1. \A x : Cardinality({x}) = 1 /\ IsFiniteSet({x}) BY FS_Singleton
  <2>2. ASSUME NEW x, NEW y PROVE Cardinality({x, y}) <= 2
    <3>1. {x, y} = {x} \cup {y} OBVIOUS
    <3>2. Cardinality({x}) = 1 /\ IsFiniteSet({x}) BY <2>1
    <3>3. Cardinality({x} \cup {y}) = IF y \in {x} THEN Cardinality({x}) ELSE Cardinality({x}) + 1
      BY <3>2, FS_AddElement
    <3> QED BY <3>1, <3>2, <3>3
  <2>3. Cardinality({}) = 0 BY FS_EmptySet
  <2>4. CASE n = 1
    <3>1. WifiAware(a, S) = {} BY <1>5, <2>4
    <3> QED BY <2>3, <3>1
  <2>5. CASE n = 2
    <3>1. WifiAware(a, S) = {At(S, (r + 1) % n)} BY <1>5, <2>5
    <3>2. Cardinality(WifiAware(a, S)) = 1 BY <2>1, <3>1, Zenon
    <3> QED BY <3>2
  <2>6. CASE n # 1 /\ n # 2
    <3>1. WifiAware(a, S) = {At(S, (r + n - 1) % n), At(S, (r + 1) % n)}
      BY <1>5, <2>6
    <3> QED BY <2>2, <3>1
  <2> QED BY <2>4, <2>5, <2>6
<1> QED BY <1>1, <1>2, <1>9, <1>10, <1>11 DEF n, r

(* A part of the ring that is closed under the Wi-Fi Aware edges contains  *)
(* the last position, hence the first, hence every next one.               *)
LEMMA Connected ==
  ASSUME NEW S, Roster(S), NEW P \in SUBSET S, P # {},
         \A a \in P : WifiAware(a, S) \subseteq P
  PROVE  P = S
<1> DEFINE n == Cardinality(S)
           Pos(a) == Rank(a, S)
<1>1. n \in Nat \ {0} /\ \A a \in S : Pos(a) \in 0 .. n - 1 BY Plan
<1>2. /\ \A a, b \in S : Pos(a) = Pos(b) => a = b
      /\ \A i \in 0 .. n - 1 : \E a \in S : Pos(a) = i
  BY Ranks DEF Roster
<1>3. ASSUME NEW a \in P, NEW b \in S, Pos(b) = After(Pos(a), n) PROVE b \in P
  <2>1. CASE n > 1
    <3>1. b \in WifiAware(a, S) BY <1>3, <2>1, Plan
    <3> QED BY <3>1
  <2>2. CASE n = 1
    <3>1. Pos(a) = Pos(b) BY <1>1, <2>2
    <3> QED BY <1>2, <3>1
  <2> QED BY <1>1, <2>1, <2>2
<1> HIDE DEF n, Pos
<1>4. PICK a \in P : Pos(a) = n - 1
  <2> DEFINE T == {n - 1 - Pos(a) : a \in P}
  <2>1. T \subseteq Nat /\ T # {} BY <1>1
  <2>2. PICK x \in T : \A y \in T : x <= y BY <2>1, Least
  <2>3. PICK a \in P : x = n - 1 - Pos(a) BY <2>2
  <2>4. ASSUME NEW b \in P PROVE Pos(b) <= Pos(a)
    <3>1. n - 1 - Pos(a) <= n - 1 - Pos(b) BY <2>2, <2>3
    <3>2. Pos(a) \in Int /\ Pos(b) \in Int /\ n \in Int BY <1>1
    <3> QED BY <3>1, <3>2
  <2>5. CASE Pos(a) # n - 1
    <3>1. Pos(a) + 1 \in 0 .. n - 1 /\ After(Pos(a), n) = Pos(a) + 1 BY <1>1, <2>5 DEF After
    <3>2. PICK b \in S : Pos(b) = Pos(a) + 1 BY <1>2, <3>1
    <3>3. b \in P BY <1>3, <3>1, <3>2
    <3> QED BY <1>1, <2>4, <3>2, <3>3
  <2> QED BY <2>5
<1>5. \A b \in S : Pos(b) = 0 => b \in P
  BY <1>3, <1>4 DEF After
<1>6. ASSUME S \ P # {} PROVE FALSE
  <2> DEFINE T == {Pos(b) : b \in S \ P}
  <2>1. T \subseteq Nat /\ T # {} BY <1>1, <1>6
  <2>2. PICK x \in T : \A y \in T : x <= y BY <2>1, Least
  <2>3. PICK b \in S \ P : x = Pos(b) BY <2>2
  <2>4. Pos(b) # 0 /\ Pos(b) \in 0 .. n - 1 BY <1>1, <1>5
  <2>5. Pos(b) - 1 \in 0 .. n - 1 /\ After(Pos(b) - 1, n) = Pos(b) BY <1>1, <2>4 DEF After
  <2>6. PICK c \in S : Pos(c) = Pos(b) - 1 BY <1>2, <2>5
  <2>7. c \in P
    <3>1. CASE c \in S \ P
      <4>1. Pos(b) <= Pos(c) BY <2>2, <2>3, <3>1
      <4> QED BY <2>4, <2>6, <4>1
    <3> QED BY <3>1
  <2> QED BY <1>3, <2>3, <2>5, <2>6, <2>7
<1> QED BY <1>6

(* On one roster, plans are symmetric and do not overlap.                  *)
LEMMA PlansAgreeOn ==
  ASSUME NEW S, Roster(S), NEW a \in S
  PROVE  /\ a \notin WifiAware(a, S) /\ a \notin BluetoothFallback(a, S)
         /\ BluetoothFallback(a, S) \cap WifiAware(a, S) = {}
         /\ \A b \in WifiAware(a, S) : a \in WifiAware(b, S)
         /\ \A b \in BluetoothFallback(a, S) : a \in BluetoothFallback(b, S)
<1> DEFINE n == Cardinality(S)
           Pos(x) == Rank(x, S)
<1>1. n \in Nat \ {0} /\ \A x \in S : Pos(x) \in 0 .. n - 1 BY Plan
<1>2. \A x \in S : \A y : y \in WifiAware(x, S) <=>
        y \in S /\ n > 1 /\ Pos(y) \in {After(Pos(x), n), Prior(Pos(x), n)}
  BY Plan
<1>3. \A x \in S : \A y : y \in BluetoothFallback(x, S) <=>
        y \in S /\ n >= 4 /\ n % 2 = 0 /\ Pos(y) = Opposite(Pos(x), n)
  BY Plan
<1> HIDE DEF n, Pos
<1>4. n % 2 = 0 => n = 2 * (n \div 2) BY <1>1, Turns
<1>5. a \notin WifiAware(a, S) BY <1>1, <1>2 DEF After, Prior
<1>6. ASSUME n >= 4, n % 2 = 0, NEW r \in 0 .. n - 1
      PROVE  /\ Opposite(r, n) # r /\ Opposite(r, n) # After(r, n) /\ Opposite(r, n) # Prior(r, n)
             /\ Opposite(Opposite(r, n), n) = r
  <2> DEFINE h == n \div 2
  <2>1. n = 2 * h /\ h \in Int BY <1>1, <1>4, <1>6
  <2>2. Opposite(r, n) = IF r < h THEN r + h ELSE r - h BY DEF Opposite
  <2>3. \A x : Opposite(x, n) = IF x < h THEN x + h ELSE x - h BY DEF Opposite
  <2> HIDE DEF h
  <2> QED BY <1>1, <1>6, <2>1, <2>2, <2>3 DEF After, Prior
<1>7. a \notin BluetoothFallback(a, S) BY <1>1, <1>3, <1>6
<1>8. BluetoothFallback(a, S) \cap WifiAware(a, S) = {}
  <2> SUFFICES ASSUME NEW b \in BluetoothFallback(a, S), b \in WifiAware(a, S) PROVE FALSE
    OBVIOUS
  <2> QED BY <1>1, <1>2, <1>3, <1>6
<1>9. ASSUME NEW b \in WifiAware(a, S) PROVE a \in WifiAware(b, S)
  <2>1. b \in S /\ n > 1 /\ Pos(b) \in {After(Pos(a), n), Prior(Pos(a), n)} BY <1>2
  <2>2. Pos(a) \in {After(Pos(b), n), Prior(Pos(b), n)} BY <1>1, <2>1 DEF After, Prior
  <2> QED BY <1>2, <2>1, <2>2
<1>10. ASSUME NEW b \in BluetoothFallback(a, S) PROVE a \in BluetoothFallback(b, S)
  BY <1>1, <1>3, <1>6
<1> QED BY <1>5, <1>7, <1>8, <1>9, <1>10

(* The roster is never empty and always finite.                            *)
LEMMA RosterInvariant ==
  ASSUME Candidates \subseteq Int
  PROVE  OverlaySpec => []Roster(roster)
<1>1. OverlayInit => Roster(roster)
  BY FS_Singleton DEF OverlayInit, Roster
<1>2. Roster(roster) /\ [OverlayNext]_roster => Roster(roster)'
  <2> SUFFICES ASSUME Roster(roster), OverlayNext PROVE Roster(roster')
    BY DEF Roster
  <2>1. PICK m \in Candidates : Enrol(m) BY DEF OverlayNext
  <2>2. roster' = roster \cup {m} BY <2>1 DEF Enrol
  <2> QED BY <2>2, FS_AddElement DEF Roster
<1> QED BY <1>1, <1>2, PTL DEF OverlaySpec

(* Every member finds itself and the others at the same positions of the   *)
(* sorted roster, so that plans computed apart name the same edges, and    *)
(* the ring connects the group, for a roster of any size.                  *)
THEOREM PlansAlwaysAgree ==
  ASSUME Candidates \subseteq Int
  PROVE  OverlaySpec => []PlansAgree
<1>1. Roster(roster) => PlansAgree
  <2> SUFFICES ASSUME Roster(roster) PROVE PlansAgree OBVIOUS
  <2>1. ASSUME NEW a \in roster
        PROVE  /\ a \notin Neighbors(a, roster)
               /\ Cardinality(WifiAware(a, roster)) <= 2
               /\ BluetoothFallback(a, roster) \cap WifiAware(a, roster) = {}
               /\ \A b \in WifiAware(a, roster) : a \in WifiAware(b, roster)
               /\ \A b \in BluetoothFallback(a, roster) : a \in BluetoothFallback(b, roster)
    BY <2>1, Plan, PlansAgreeOn DEF Neighbors
  <2>2. ASSUME NEW part \in (SUBSET roster) \ {{}},
               UNION {WifiAware(a, roster) : a \in part} \subseteq part
        PROVE  part = roster
    <3>1. \A a \in part : WifiAware(a, roster) \subseteq part BY <2>2
    <3>2. part \in SUBSET roster /\ part # {} BY <2>2
    <3> QED BY <3>1, <3>2, Connected
  <2> QED BY <2>1, <2>2 DEF PlansAgree
<1> QED BY <1>1, RosterInvariant, PTL

(* The last position that part k takes when count members are cut into     *)
(* parts of the given size.                                                *)
EndsAt(hi, k, size, count) ==
  /\ hi < count /\ size * (k - 1) <= hi + 1
  /\ hi = size * k - 1 \/ (hi = count - 1 /\ hi <= size * k - 1)

(* The positions an audience takes from the sorted targets.                *)
LEMMA Chunk ==
  ASSUME NEW S, S \subseteq Int, IsFiniteSet(S), NEW size \in Nat \ {0}, NEW k \in Nat \ {0},
         NEW hi \in Int, EndsAt(hi, k, size, Cardinality(S))
  PROVE  Cardinality({m \in S : Rank(m, S) \div size = k - 1}) = hi + 1 - size * (k - 1)
<1> DEFINE lo == size * (k - 1)
           C == {m \in S : Rank(m, S) \div size = k - 1}
           f == [m \in C |-> Rank(m, S)]
<1> USE DEF EndsAt
<1>1. \A m \in S : Rank(m, S) \in 0 .. Cardinality(S) - 1 /\ Rank(m, S) \in Nat
  <2>1. Cardinality(S) \in Nat BY FS_CardinalityType
  <2>2. \A m \in S : Rank(m, S) \in 0 .. Cardinality(S) - 1 BY Ranks
  <2> QED BY <2>1, <2>2
<1>2. lo \in Nat /\ size * k = lo + size BY DEF lo
<1>3. Cardinality(S) \in Nat BY FS_CardinalityType
<1>4. \A m \in S : m \in C <=> Rank(m, S) \in lo .. hi
  <2> SUFFICES ASSUME NEW m \in S PROVE Rank(m, S) \div size = k - 1 <=> Rank(m, S) \in lo .. hi
    OBVIOUS
  <2>1. Rank(m, S) \div size = k - 1 <=>
          size * (k - 1) <= Rank(m, S) /\ Rank(m, S) < size * (k - 1) + size
    BY <1>1
  <2> QED BY <1>1, <1>2, <1>3, <2>1
<1> HIDE DEF C, lo
<1>5. C \subseteq S BY DEF C
<1>6. f \in [C -> lo .. hi] BY <1>4, <1>5
<1>7. \A a, b \in C : f[a] = f[b] => a = b
  <2>1. \A a, b \in S : Rank(a, S) = Rank(b, S) => a = b BY Ranks, Zenon
  <2> QED BY <1>5, <2>1
<1>8. \A i \in lo .. hi : \E m \in C : f[m] = i
  <2> SUFFICES ASSUME NEW i \in lo .. hi PROVE \E m \in C : f[m] = i OBVIOUS
  <2>1. i \in 0 .. Cardinality(S) - 1 BY <1>2, <1>3
  <2>2. PICK m \in S : Rank(m, S) = i BY <2>1, Ranks
  <2>3. m \in C BY <1>4, <2>2
  <2> QED BY <2>2, <2>3
<1> HIDE DEF f
<1>9. f \in Injection(C, lo .. hi) BY <1>6, <1>7, Fun_IsInj
<1>10. f \in Surjection(C, lo .. hi) BY <1>6, <1>8, Fun_IsSurj
<1>11. IsFiniteSet(lo .. hi) /\ Cardinality(lo .. hi) = IF lo > hi THEN 0 ELSE hi - lo + 1
  BY <1>2, FS_Interval
<1>12. Cardinality(C) = Cardinality(lo .. hi) BY <1>9, <1>10, <1>11, FS_Injection
<1>13. Cardinality(lo .. hi) = hi + 1 - lo BY <1>2, <1>11 DEF lo
<1> QED BY <1>12, <1>13 DEF C, lo

(* On one roster, audiences cover everybody else, in order, and are full   *)
(* but for the last.                                                       *)
LEMMA AudiencesPartitionOf ==
  ASSUME MaxTargets \in Nat \ {0}, NEW S, Roster(S), NEW local \in S
  PROVE  LET audiences == BroadcastAudiences(local, S)
             ks == DOMAIN audiences
         IN  /\ UNION {audiences[k] : k \in ks} = S \ {local}
             /\ \A k \in ks : Cardinality(audiences[k]) \in 1 .. MaxTargets
             /\ \A j, k \in ks : j < k =>
                  /\ Cardinality(audiences[j]) = MaxTargets
                  /\ \A a \in audiences[j], b \in audiences[k] : a < b
<1> DEFINE targets == S \ {local}
           c == Cardinality(targets)
           count == (c + MaxTargets - 1) \div MaxTargets
           Aud(k) == {m \in targets : Rank(m, targets) \div MaxTargets = k - 1}
           audiences == BroadcastAudiences(local, S)
           Pos(m) == Rank(m, targets)
<1>1. targets \subseteq Int /\ IsFiniteSet(targets) BY FS_Subset DEF Roster
<1>2. c \in Nat BY <1>1, FS_CardinalityType
<1>3. audiences = [k \in 1 .. count |-> Aud(k)]
  BY DEF BroadcastAudiences
<1>4. \A m \in targets : Pos(m) \in 0 .. c - 1 BY <1>1, Ranks
<1>5. \A a, b \in targets : Pos(a) < Pos(b) => a < b
  <2> SUFFICES ASSUME NEW a \in targets, NEW b \in targets, Pos(a) < Pos(b) PROVE a < b OBVIOUS
  <2>1. ~(b < a) /\ a # b BY <1>1, <1>2, <1>4, Ranks
  <2> QED BY <1>1, <2>1
<1> HIDE DEF targets, c
<1>6. /\ count \in Nat /\ MaxTargets * count <= c + MaxTargets - 1
      /\ c + MaxTargets - 1 < MaxTargets * count + MaxTargets
  <2>1. c + MaxTargets - 1 \in Nat BY <1>2
  <2> QED BY <2>1
<1> HIDE DEF count
<1>7. ASSUME NEW m \in targets, NEW k \in Nat \ {0}
      PROVE  m \in Aud(k) <=> MaxTargets * (k - 1) <= Pos(m) /\ Pos(m) < MaxTargets * k
  <2>1. Pos(m) \in Nat BY <1>2, <1>4
  <2>2. Pos(m) \div MaxTargets = k - 1 <=>
          MaxTargets * (k - 1) <= Pos(m) /\ Pos(m) < MaxTargets * (k - 1) + MaxTargets
    BY <2>1
  <2>3. MaxTargets * (k - 1) + MaxTargets = MaxTargets * k OBVIOUS
  <2> QED BY <2>2, <2>3
<1>16. ASSUME NEW k \in Nat \ {0}, NEW hi \in Int, EndsAt(hi, k, MaxTargets, c)
       PROVE  Cardinality(Aud(k)) = hi + 1 - MaxTargets * (k - 1)
  BY <1>1, <1>16, Chunk DEF c
<1>8. ASSUME NEW k \in 1 .. count
      PROVE  /\ MaxTargets * (k - 1) <= c - 1
             /\ Cardinality(Aud(k)) \in 1 .. MaxTargets
             /\ \A j \in 1 .. k - 1 : Cardinality(Aud(j)) = MaxTargets /\ MaxTargets * j <= MaxTargets * (k - 1)
  <2>1. MaxTargets * k <= MaxTargets * count /\ MaxTargets * k = MaxTargets * (k - 1) + MaxTargets
    BY <1>6
  <2>2. MaxTargets * (k - 1) \in Nat OBVIOUS
  <2>3. MaxTargets * (k - 1) <= c - 1 BY <1>2, <1>6, <2>1, <2>2
  <2>4. Cardinality(Aud(k)) \in 1 .. MaxTargets
    <3>1. CASE MaxTargets * k - 1 < c
      <4> DEFINE hi == MaxTargets * k - 1
      <4>1. hi \in Int /\ hi < c /\ MaxTargets * (k - 1) <= hi + 1 BY <2>1, <2>2, <3>1
      <4>2. Cardinality(Aud(k)) = hi + 1 - MaxTargets * (k - 1) BY <1>16, <4>1 DEF EndsAt
      <4> QED BY <2>1, <2>2, <4>2
    <3>2. CASE ~(MaxTargets * k - 1 < c)
      <4> DEFINE hi == c - 1
      <4>1. /\ hi \in Int /\ hi < c /\ MaxTargets * (k - 1) <= hi + 1
            /\ hi = c - 1 /\ hi <= MaxTargets * k - 1
        BY <1>2, <2>1, <2>2, <2>3, <3>2
      <4>2. Cardinality(Aud(k)) = hi + 1 - MaxTargets * (k - 1) BY <1>16, <4>1 DEF EndsAt
      <4> QED BY <1>2, <2>1, <2>2, <2>3, <3>2, <4>2
    <3> QED BY <3>1, <3>2
  <2>5. ASSUME NEW j \in 1 .. k - 1
        PROVE  Cardinality(Aud(j)) = MaxTargets /\ MaxTargets * j <= MaxTargets * (k - 1)
    <3>1. MaxTargets * j <= MaxTargets * (k - 1) BY <2>5
    <3>2. MaxTargets * j = MaxTargets * (j - 1) + MaxTargets /\ MaxTargets * (j - 1) \in Nat OBVIOUS
    <3>3. MaxTargets * j - 1 < c BY <1>2, <2>2, <2>3, <3>1, <3>2
    <3> DEFINE hi == MaxTargets * j - 1
    <3>4. hi \in Int /\ hi < c /\ MaxTargets * (j - 1) <= hi + 1 BY <3>2, <3>3
    <3>5. Cardinality(Aud(j)) = hi + 1 - MaxTargets * (j - 1) BY <1>16, <3>4 DEF EndsAt
    <3> QED BY <3>1, <3>2, <3>5
  <2> QED BY <2>3, <2>4, <2>5
<1>9. ASSUME NEW m \in targets PROVE \E k \in 1 .. count : m \in Aud(k)
  <2> DEFINE q == Pos(m) \div MaxTargets
  <2>1. Pos(m) \in Nat /\ Pos(m) <= c - 1 BY <1>2, <1>4
  <2>2. q \in Nat /\ MaxTargets * q <= Pos(m) BY <2>1
  <2>3. m \in Aud(q + 1) BY <2>2
  <2> HIDE DEF q
  <2>4. MaxTargets * q < MaxTargets * count BY <1>2, <1>6, <2>1, <2>2
  <2>5. q < count BY <1>6, <2>2, <2>4
  <2>6. q + 1 \in 1 .. count BY <1>6, <2>2, <2>5
  <2> QED BY <2>3, <2>6
<1>10. ASSUME NEW j \in 1 .. count, NEW k \in 1 .. count, j < k, NEW a \in Aud(j), NEW b \in Aud(k)
       PROVE  a < b
  <2>1. a \in targets /\ b \in targets OBVIOUS
  <2>2. j \in 1 .. k - 1 /\ j \in Nat \ {0} /\ k \in Nat \ {0} BY <1>6, <1>10
  <2>3. Pos(a) < MaxTargets * j /\ MaxTargets * (k - 1) <= Pos(b)
    BY <1>7, <1>10, <2>1, <2>2
  <2>4. MaxTargets * j <= MaxTargets * (k - 1) BY <1>8, <2>2
  <2>5. Pos(a) \in Int /\ Pos(b) \in Int BY <1>2, <1>4, <2>1
  <2>6. Pos(a) < Pos(b) BY <2>2, <2>3, <2>4, <2>5
  <2> QED BY <1>5, <2>1, <2>6
<1>11. \A k \in 1 .. count : Aud(k) \subseteq targets OBVIOUS
<1> HIDE DEF Aud, audiences
<1>12. DOMAIN audiences = 1 .. count /\ \A k \in 1 .. count : audiences[k] = Aud(k) BY <1>3
<1>13. UNION {audiences[k] : k \in DOMAIN audiences} = targets BY <1>9, <1>11, <1>12
<1>14. \A k \in DOMAIN audiences : Cardinality(audiences[k]) \in 1 .. MaxTargets
  BY <1>8, <1>12
<1>15. ASSUME NEW j \in DOMAIN audiences, NEW k \in DOMAIN audiences, j < k
       PROVE  /\ Cardinality(audiences[j]) = MaxTargets
              /\ \A a \in audiences[j], b \in audiences[k] : a < b
  <2>1. j \in 1 .. k - 1 BY <1>6, <1>12, <1>15
  <2> QED BY <1>8, <1>10, <1>12, <1>15, <2>1
<1> QED BY <1>13, <1>14, <1>15 DEF targets, audiences

(* broadcast_audiences cuts the sorted targets into runs of MAX_TARGETS,   *)
(* so that for a roster of any size nobody is left out, nobody is in two   *)
(* audiences and only the last one is not full.                            *)
THEOREM AudiencesAlwaysPartition ==
  ASSUME Candidates \subseteq Int, MaxTargets \in Nat \ {0}
  PROVE  OverlaySpec => []AudiencesPartition
<1>1. Roster(roster) => AudiencesPartition
  BY AudiencesPartitionOf DEF AudiencesPartition
<1> QED BY <1>1, RosterInvariant, PTL

-----------------------------------------------------------------------------
(***************************************************************************)
(* The flood.  A queue served in order serves its tasks by rounds: a hop   *)
(* takes one round and so does waiting for the halves to meet again, which *)
(* happens once.                                                           *)
(***************************************************************************)
Dist(a, b) == IF a < b THEN b - a ELSE a - b
Shorter(a, b) == IF a < b THEN a ELSE b

(* Hops between the origin and a member: round the ring either way, or     *)
(* over a chord and on from there.                                         *)
Far(m) ==
  LET d == Dist(m, group.origin)
  IN  Shorter(Shorter(d, group.nodes - d), 1 + Dist(d, group.nodes \div 2))

(* The round by which a member has the frame: in the origin's half without *)
(* leaving it or by way of the other one, after the wait.                  *)
Home(m) == Half(m) = Half(group.origin)
Expected(m) ==
  IF Home(m) THEN Shorter(Dist(m, group.origin), Far(m) + 1) ELSE Far(m) + 1

(* Rounds from a member to its neighbour.                                  *)
Rounds(p, m) == IF Home(p) /\ ~Home(m) THEN 2 ELSE 1

Late(task) == task.at > 1
Round(task) == task.frame.hops + (IF Late(task) THEN 1 ELSE 0)
Due(task) == task.frame.hops + 1 + (IF Late(task) \/ Absent(task) THEN 1 ELSE 0)

(* What is on its way, in q: copies of the one frame between neighbours,   *)
(* from members that have it, the origin and those in d.                   *)
Holders(d) == d \cup {group.origin}

Copies ==
  [origin : {group.origin}, id : {1}, previous_hop : Nodes, hops : Nat,
   hop_limit : {MaxRelayHops}, expires_at : {10000}]

OnTheWay(d) ==
  [target : Nodes, via : Holders(d), frame : Copies, at : {1, group.partition_until}, turn : Nat]

FloodTyped(q, c, t, d) ==
  /\ d \subseteq Nodes \ {group.origin} /\ t \in Nat /\ DOMAIN c = Nodes
  /\ \A task \in q : /\ task \in OnTheWay(d)
                     /\ task.target \in Neighbors(task.via, Nodes)
                     /\ task.frame.previous_hop = task.via

(* A member's gate knows the frame exactly when the member has it.         *)
TheKey == <<group.origin, 1>>
Remembered(c, d) ==
  \A m \in Nodes :
    IF m \in d THEN TheKey \in DOMAIN c[m] /\ c[m][TheKey].expires_at = 10000
    ELSE DOMAIN c[m] = {}

(* A copy is on its way over every edge from a member that has one to a    *)
(* member that has none; served in order, it is not late.                  *)
Frontier(q, d) ==
  \A p \in Holders(d) : \A m \in Neighbors(p, Nodes) \ Holders(d) :
    \E task \in q : /\ task.via = p /\ task.target = m
                    /\ group.ordered => Due(task) <= Expected(p) + Rounds(p, m)

(* Tasks served in order are of one round or the next, in that order, and  *)
(* those that left the other half did so after the reunion.                *)
InRounds(q, t) ==
  group.ordered =>
    /\ \A task \in q : task.turn < t
    /\ \A task \in q : ~Home(task.via) => task.at >= group.partition_until
    /\ \A task, other \in q :
         /\ task.turn <= other.turn => Round(task) <= Round(other)
         /\ Round(other) <= Round(task) + 1

(* In any order, a copy has made no more hops than there are members to    *)
(* have passed it on.                                                      *)
InAnyOrder(q, d) ==
  ~group.ordered => \A task \in q : task.frame.hops <= Cardinality(d)

Flood(q, c, t, d) ==
  /\ FloodTyped(q, c, t, d) /\ Remembered(c, d) /\ Frontier(q, d)
  /\ InRounds(q, t) /\ InAnyOrder(q, d)

(* The group of a behaviour, which never changes.                          *)
Grouped ==
  /\ group.nodes \in Nat \ {0} /\ group.origin \in Nodes
  /\ group.partition_until \in Nat /\ group.partition_until < 10000 /\ group.ordered \in BOOLEAN
  /\ IF group.ordered
     THEN group.nodes \in 4 .. 4 * MaxRelayHops - 4 /\ group.nodes % 2 = 0
     ELSE group.nodes <= MaxRelayHops + 1

(* Members numbered without a gap are their own positions.                 *)
LEMMA OwnPlaces ==
  ASSUME Grouped
  PROVE  /\ Roster(Nodes) /\ Cardinality(Nodes) = group.nodes
         /\ \A m \in Nodes : Rank(m, Nodes) = m
<1>1. group.nodes \in Nat \ {0} /\ Nodes = 0 .. group.nodes - 1 BY DEF Grouped, Nodes
<1>2. IsFiniteSet(Nodes) /\ Cardinality(Nodes) = group.nodes
  <2>1. 0 \in Int /\ group.nodes - 1 \in Int BY <1>1
  <2>2. /\ IsFiniteSet(0 .. group.nodes - 1)
        /\ Cardinality(0 .. group.nodes - 1) = IF 0 > group.nodes - 1 THEN 0 ELSE (group.nodes - 1) - 0 + 1
    BY <2>1, FS_Interval, Zenon
  <2> QED BY <1>1, <2>2
<1>3. Roster(Nodes)
  <2>1. 0 \in Nodes BY <1>1
  <2> QED BY <1>1, <1>2, <2>1 DEF Roster
<1>4. ASSUME NEW m \in Nodes PROVE Rank(m, Nodes) = m
  <2>1. m \in Nat /\ m < group.nodes BY <1>1
  <2>2. {x \in Nodes : x < m} = 0 .. m - 1 BY <1>1, <2>1
  <2>3. Cardinality(0 .. m - 1) = m
    <3>1. m - 1 \in Int /\ 0 \in Int BY <2>1
    <3>2. Cardinality(0 .. m - 1) = IF 0 > m - 1 THEN 0 ELSE m - 1 - 0 + 1 BY <3>1, FS_Interval
    <3> QED BY <2>1, <3>2
  <2> QED BY <2>2, <2>3 DEF Rank
<1> QED BY <1>2, <1>3, <1>4

(* Who is whose neighbour in such a group.                                 *)
LEMMA Edges ==
  ASSUME Grouped, NEW m \in Nodes
  PROVE  /\ Neighbors(m, Nodes) \subseteq Nodes \ {m} /\ IsFiniteSet(Neighbors(m, Nodes))
         /\ \A q \in Neighbors(m, Nodes) : m \in Neighbors(q, Nodes)
         /\ group.ordered => \A q \in {After(m, group.nodes), Prior(m, group.nodes), Opposite(m, group.nodes)} :
                               q \in Nodes /\ q \in Neighbors(m, Nodes)
<1> DEFINE n == group.nodes
<1>1. /\ Roster(Nodes) /\ Cardinality(Nodes) = n
      /\ \A x \in Nodes : Rank(x, Nodes) = x
  BY OwnPlaces
<1>2. n \in Nat \ {0} /\ m \in 0 .. n - 1 /\ Nodes = 0 .. n - 1 BY DEF Grouped, Nodes
<1>3. /\ \A b : b \in WifiAware(m, Nodes) <=> b \in Nodes /\ n > 1 /\ Rank(b, Nodes) \in {After(m, n), Prior(m, n)}
      /\ \A b : b \in BluetoothFallback(m, Nodes) <=>
           b \in Nodes /\ n >= 4 /\ n % 2 = 0 /\ Rank(b, Nodes) = Opposite(m, n)
  BY <1>1, Plan
<1>4. Neighbors(m, Nodes) \subseteq Nodes \ {m}
  BY <1>1, <1>3, PlansAgreeOn DEF Neighbors
<1>5. IsFiniteSet(Neighbors(m, Nodes)) BY <1>1, <1>4, FS_Subset DEF Roster
<1>6. \A q \in Neighbors(m, Nodes) : m \in Neighbors(q, Nodes)
  BY <1>1, PlansAgreeOn DEF Neighbors
<1>7. ASSUME group.ordered, NEW q \in {After(m, n), Prior(m, n), Opposite(m, n)}
      PROVE  q \in Nodes /\ q \in Neighbors(m, Nodes)
  <2>1. n >= 4 /\ n % 2 = 0 BY <1>7 DEF Grouped
  <2>2. q \in Nodes
    <3>1. /\ After(m, n) \in 0 .. n - 1 /\ Prior(m, n) \in 0 .. n - 1
          /\ n % 2 = 0 => Opposite(m, n) \in 0 .. n - 1
      BY <1>2, Turns
    <3> HIDE DEF n
    <3> QED BY <1>2, <1>7, <2>1, <3>1
  <2>3. Rank(q, Nodes) = q BY <1>1, <2>2
  <2>4. n > 1 BY <1>2, <2>1
  <2> HIDE DEF n
  <2> QED BY <1>3, <1>7, <2>1, <2>2, <2>3, <2>4 DEF Neighbors
<1> QED BY <1>4, <1>5, <1>6, <1>7

(* Somebody next to a member expects the frame early enough to pass it on, *)
(* and nobody expects it beyond the hop budget.                            *)
LEMMA Nearer ==
  ASSUME Grouped, group.ordered, NEW m \in Nodes, m # group.origin
  PROVE  /\ Expected(m) \in Nat /\ Expected(m) <= MaxRelayHops
         /\ \E q \in Nodes : m \in Neighbors(q, Nodes) /\ Expected(q) + Rounds(q, m) <= Expected(m)
<1> DEFINE n == group.nodes
           h == group.nodes \div 2
           g == group.origin
<1>1. n \in Nat /\ h \in Nat /\ n = 2 * h /\ h >= 2 /\ g \in 0 .. n - 1 /\ m \in 0 .. n - 1
  <2>1. n \in Nat \ {0} /\ g \in 0 .. n - 1 /\ m \in 0 .. n - 1 /\ n % 2 = 0 /\ n \in 4 .. 4 * MaxRelayHops - 4
    BY DEF Grouped, Nodes
  <2>2. n = 2 * (n \div 2)
    BY <2>1, Turns
  <2> QED BY <2>1, <2>2, HopsAssumption
<1>2. h <= 2 * MaxRelayHops - 2 /\ MaxRelayHops \in Nat
  BY <1>1, HopsAssumption DEF Grouped
<1>3. \A x : Home(x) <=> ((x < h) <=> (g < h)) BY DEF Home, Half
<1>4. \A x : Far(x) = Shorter(Shorter(Dist(x, g), n - Dist(x, g)), 1 + Dist(Dist(x, g), h)) BY DEF Far
<1>5. \A x : Expected(x) = IF Home(x) THEN Shorter(Dist(x, g), Far(x) + 1) ELSE Far(x) + 1 BY DEF Expected
<1>6. m # g OBVIOUS
<1>7. \A q \in {After(m, n), Prior(m, n), Opposite(m, n)} : q \in Nodes /\ m \in Neighbors(q, Nodes)
  BY Edges
<1>8. /\ After(m, n) = IF m = n - 1 THEN 0 ELSE m + 1
      /\ Prior(m, n) = IF m = 0 THEN n - 1 ELSE m - 1
      /\ Opposite(m, n) = IF m < h THEN m + h ELSE m - h
  BY DEF After, Prior, Opposite
<1> HIDE DEF n, h, g
<1>9. Expected(m) \in Nat /\ Expected(m) <= MaxRelayHops
  <2>1. Far(m) \in Nat /\ 2 * Far(m) <= h + 1 BY <1>1, <1>4 DEF Shorter, Dist
  <2>2. Expected(m) <= Far(m) + 1 /\ Expected(m) \in Nat BY <1>1, <1>5, <2>1 DEF Shorter, Dist
  <2> QED BY <1>1, <1>2, <2>1, <2>2
<1>10. SUFFICES \E q \in {After(m, n), Prior(m, n), Opposite(m, n)} : Expected(q) + Rounds(q, m) <= Expected(m)
  BY <1>7, <1>9
<1> DEFINE d == Dist(m, g)
<1>11. d \in 1 .. n - 1 /\ (m < g => d = g - m) /\ (g < m => d = m - g) /\ (m < g \/ g < m)
  BY <1>1, <1>6 DEF Dist
<1>12. \A x \in 0 .. n - 1 : Far(x) \in Int /\ Dist(x, g) \in Int /\ Expected(x) \in Int /\ Expected(x) <= Far(x) + 1
                              /\ (Home(x) => Expected(x) <= Dist(x, g))
  BY <1>1, <1>4, <1>5 DEF Shorter, Dist
<1>13. /\ After(m, n) \in 0 .. n - 1 /\ Prior(m, n) \in 0 .. n - 1 /\ Opposite(m, n) \in 0 .. n - 1
  BY <1>1, <1>8
<1>14. \A q \in 0 .. n - 1 : \/ Rounds(q, m) = 1
                             \/ Rounds(q, m) = 2 /\ Home(q) /\ ~Home(m)
  BY DEF Rounds
(* It is enough that such a neighbour is nearer by any route, or nearer    *)
(* within the origin's half.                                               *)
<1>15. ASSUME NEW q \in 0 .. n - 1, Expected(m) = Far(m) + 1,
              Far(q) <= Far(m) - 1,
              Home(q) /\ ~Home(m) => Dist(q, g) <= Far(m) - 1
       PROVE  Expected(q) + Rounds(q, m) <= Expected(m)
  <2>1. /\ Far(q) \in Int /\ Dist(q, g) \in Int /\ Expected(q) \in Int /\ Far(m) \in Int
        /\ Expected(q) <= Far(q) + 1 /\ (Home(q) => Expected(q) <= Dist(q, g))
    BY <1>1, <1>12
  <2>2. \/ Rounds(q, m) = 1
        \/ Rounds(q, m) = 2 /\ Home(q) /\ ~Home(m)
    BY <1>14
  <2> QED BY <1>15, <2>1, <2>2
<1>16. CASE Home(m) /\ Expected(m) = d
  <2>1. CASE m < g
    <3>1. After(m, n) = m + 1 /\ Home(m + 1) /\ Dist(m + 1, g) = d - 1 /\ m + 1 \in 0 .. n - 1
      BY <1>1, <1>3, <1>8, <1>11, <1>16, <2>1 DEF Dist
    <3>2. Expected(m + 1) \in Int /\ Expected(m + 1) <= d - 1 /\ Rounds(m + 1, m) = 1
      BY <1>12, <1>14, <1>16, <3>1
    <3> QED BY <1>11, <1>16, <3>1, <3>2
  <2>2. CASE g < m
    <3>1. Prior(m, n) = m - 1 /\ Home(m - 1) /\ Dist(m - 1, g) = d - 1 /\ m - 1 \in 0 .. n - 1
      BY <1>1, <1>3, <1>8, <1>11, <1>16, <2>2 DEF Dist
    <3>2. Expected(m - 1) \in Int /\ Expected(m - 1) <= d - 1 /\ Rounds(m - 1, m) = 1
      BY <1>12, <1>14, <1>16, <3>1
    <3> QED BY <1>11, <1>16, <3>1, <3>2
  <2> QED BY <1>11, <2>1, <2>2
<1>17. CASE Expected(m) = Far(m) + 1 /\ Far(m) = d
  <2>1. CASE m < g
    <3>1. After(m, n) = m + 1 /\ m + 1 \in 0 .. n - 1 /\ Dist(m + 1, g) = d - 1
      BY <1>1, <1>8, <1>11, <2>1 DEF Dist
    <3>2. Far(m + 1) <= d - 1 BY <1>1, <1>4, <1>11, <3>1 DEF Shorter, Dist
    <3>3. Far(m + 1) <= Far(m) - 1 /\ Dist(m + 1, g) <= Far(m) - 1 BY <1>11, <1>17, <3>1, <3>2
    <3> QED BY <1>15, <1>17, <3>1, <3>3
  <2>2. CASE g < m
    <3>1. Prior(m, n) = m - 1 /\ m - 1 \in 0 .. n - 1 /\ Dist(m - 1, g) = d - 1
      BY <1>1, <1>8, <1>11, <2>2 DEF Dist
    <3>2. Far(m - 1) <= d - 1 BY <1>1, <1>4, <1>11, <3>1 DEF Shorter, Dist
    <3>3. Far(m - 1) <= Far(m) - 1 /\ Dist(m - 1, g) <= Far(m) - 1 BY <1>11, <1>17, <3>1, <3>2
    <3> QED BY <1>15, <1>17, <3>1, <3>3
  <2> QED BY <1>11, <2>1, <2>2
<1>18. CASE Expected(m) = Far(m) + 1 /\ Far(m) = n - d
  <2>1. CASE g < m
    <3> DEFINE q == After(m, n)
    <3>1. \/ q = m + 1 /\ Dist(q, g) = d + 1
          \/ q = 0 /\ m = n - 1 /\ Dist(q, g) = n - d - 1
      BY <1>1, <1>8, <1>11, <2>1 DEF Dist
    <3>2. Far(q) <= n - d - 1
      <4>1. Far(q) <= Dist(q, g) /\ Far(q) <= n - Dist(q, g)
        BY <1>1, <1>4, <1>13 DEF Shorter, Dist
      <4> QED BY <1>1, <1>11, <1>12, <1>13, <3>1, <4>1
    <3>3. ASSUME Home(q), ~Home(m) PROVE Dist(q, g) <= n - d - 1
      BY <1>1, <1>3, <1>11, <2>1, <3>1, <3>3
    <3> QED BY <1>13, <1>15, <1>18, <3>2, <3>3
  <2>2. CASE m < g
    <3> DEFINE q == Prior(m, n)
    <3>1. \/ q = m - 1 /\ Dist(q, g) = d + 1
          \/ q = n - 1 /\ m = 0 /\ Dist(q, g) = n - d - 1
      BY <1>1, <1>8, <1>11, <2>2 DEF Dist
    <3>2. Far(q) <= n - d - 1
      <4>1. Far(q) <= Dist(q, g) /\ Far(q) <= n - Dist(q, g)
        BY <1>1, <1>4, <1>13 DEF Shorter, Dist
      <4> QED BY <1>1, <1>11, <1>12, <1>13, <3>1, <4>1
    <3>3. ASSUME Home(q), ~Home(m) PROVE Dist(q, g) <= n - d - 1
      BY <1>1, <1>3, <1>11, <2>2, <3>1, <3>3
    <3> QED BY <1>13, <1>15, <1>18, <3>2, <3>3
  <2> QED BY <1>11, <2>1, <2>2
<1>19. CASE Expected(m) = Far(m) + 1 /\ Far(m) = 1 + Dist(d, h)
  <2> DEFINE q == Opposite(m, n)
  <2>1. (~Home(m) => Dist(q, g) = Dist(d, h)) /\ (Home(m) => d < h)
    BY <1>1, <1>3, <1>8, <1>11 DEF Dist
  <2>2. Far(q) <= Dist(d, h)
    <3>1. Far(q) <= Dist(q, g) /\ Far(q) <= n - Dist(q, g)
      BY <1>1, <1>4, <1>13 DEF Shorter, Dist
    <3>2. Home(m) => Dist(q, g) = h - d \/ Dist(q, g) = h + d
      BY <1>1, <1>3, <1>8, <1>11 DEF Dist
    <3>3. Home(m) => Dist(d, h) = h - d BY <1>1, <1>11, <2>1 DEF Dist
    <3> QED BY <1>1, <1>11, <1>12, <1>13, <2>1, <3>1, <3>2, <3>3
  <2>3. Home(q) /\ ~Home(m) => Dist(q, g) <= Dist(d, h)
    BY <1>1, <1>11, <1>12, <1>13, <2>1
  <2>4. Dist(d, h) \in Int BY <1>1, <1>11 DEF Dist
  <2> QED BY <1>13, <1>15, <1>19, <2>2, <2>3, <2>4
<1>20. \/ Home(m) /\ Expected(m) = d
       \/ Expected(m) = Far(m) + 1
  BY <1>5 DEF Shorter
<1>21. Far(m) = d \/ Far(m) = n - d \/ Far(m) = 1 + Dist(d, h)
  BY <1>4 DEF Shorter
<1> QED BY <1>16, <1>17, <1>18, <1>19, <1>20, <1>21

(* What the formulas above say of a task.                                  *)
LEMMA TaskTyped ==
  ASSUME Grouped, NEW q, NEW c, NEW t, NEW d, FloodTyped(q, c, t, d), NEW task \in q
  PROVE  /\ task.target \in Nodes /\ task.via \in Nodes /\ task.via \in Holders(d) /\ task.target # task.via
         /\ task.via \in Neighbors(task.target, Nodes)
         /\ task.frame \in Copies /\ task.frame.hops \in Nat /\ task.turn \in Nat
         /\ task.at \in {1, group.partition_until} /\ task.at \in Nat /\ task.at < 10000
         /\ Round(task) \in Nat /\ Due(task) \in Nat
         /\ ~Absent(task) => Due(task) = Round(task) + 1
         /\ Absent(task) => /\ task.at = 1 /\ group.partition_until > 1
                            /\ Due(task) = task.frame.hops + 2 /\ Round(task) = task.frame.hops
<1>1. /\ task \in OnTheWay(d) /\ d \subseteq Nodes /\ group.origin \in Nodes
      /\ task.target \in Neighbors(task.via, Nodes)
  BY DEF FloodTyped, Grouped
<1>2. /\ task.target \in Nodes /\ task.via \in Nodes /\ task.via \in Holders(d)
      /\ task.frame \in Copies /\ task.turn \in Nat /\ task.at \in {1, group.partition_until}
  BY <1>1 DEF OnTheWay, Holders
<1>3. task.frame.hops \in Nat BY <1>2 DEF Copies
<1>4. task.target # task.via /\ task.via \in Neighbors(task.target, Nodes) BY <1>1, <1>2, Edges
<1>5. task.at \in Nat /\ task.at < 10000 /\ group.partition_until \in Nat
  <2>1. group.partition_until \in Nat /\ group.partition_until < 10000 BY DEF Grouped
  <2> QED BY <1>2, <2>1
<1>6. Absent(task) => task.at = 1 /\ group.partition_until > 1 BY <1>2, <1>5 DEF Absent
<1>7. Absent(task) \in BOOLEAN BY DEF Absent
<1> QED BY <1>2, <1>3, <1>4, <1>5, <1>6, <1>7 DEF Round, Due, Late

(* A task that brings the frame to a member that has it already may go.    *)
LEMMA TaskDropped ==
  ASSUME Grouped, NEW q, NEW c, NEW t, NEW d, Flood(q, c, t, d), NEW task \in q, task.target \in Holders(d),
         NEW c2, DOMAIN c2 = Nodes, Remembered(c2, d)
  PROVE  Flood(q \ {task}, c2, t, d)
<1>1. FloodTyped(q \ {task}, c2, t, d) BY DEF Flood, FloodTyped
<1>2. Frontier(q \ {task}, d)
  <2> SUFFICES ASSUME NEW p \in Holders(d), NEW m \in Neighbors(p, Nodes) \ Holders(d)
               PROVE  \E x \in q \ {task} : /\ x.via = p /\ x.target = m
                                            /\ group.ordered => Due(x) <= Expected(p) + Rounds(p, m)
    BY DEF Frontier
  <2>1. PICK x \in q : /\ x.via = p /\ x.target = m
                       /\ group.ordered => Due(x) <= Expected(p) + Rounds(p, m)
    BY DEF Flood, Frontier
  <2> QED BY <2>1
<1>3. InRounds(q \ {task}, t) BY DEF Flood, InRounds
<1>4. InAnyOrder(q \ {task}, d) BY DEF Flood, InAnyOrder
<1> QED BY <1>1, <1>2, <1>3, <1>4 DEF Flood

(* A task that waits for the reunion goes to the end of the queue, where   *)
(* the next round is.                                                      *)
LEMMA TaskDeferred ==
  ASSUME Grouped, NEW q, NEW c, NEW t, NEW d, Flood(q, c, t, d), NEW task \in q,
         \A x \in q : task.turn <= x.turn, Absent(task)
  PROVE  Flood((q \ {task}) \cup {[task EXCEPT !.at = group.partition_until, !.turn = t]}, c, t + 1, d)
<1> DEFINE new == [task EXCEPT !.at = group.partition_until, !.turn = t]
           q2 == (q \ {task}) \cup {new}
<1>1. FloodTyped(q, c, t, d) /\ t \in Nat /\ group.partition_until \in Nat BY DEF Flood, FloodTyped, Grouped
<1>2. /\ task.at = 1 /\ group.partition_until > 1 /\ task.frame.hops \in Nat
      /\ Due(task) = task.frame.hops + 2 /\ Round(task) = task.frame.hops
  BY <1>1, TaskTyped
<1>3. task \in OnTheWay(d) BY <1>1 DEF FloodTyped
<1>4. /\ new \in OnTheWay(d) /\ new.target = task.target /\ new.via = task.via /\ new.frame = task.frame
      /\ new.at = group.partition_until /\ new.turn = t
  BY <1>1, <1>3 DEF OnTheWay
<1> HIDE DEF new
<1>5. FloodTyped(q2, c, t + 1, d) BY <1>1, <1>4 DEF FloodTyped
<1>6. Due(new) = Due(task) /\ Round(new) = Round(task) + 1
  <2>1. ~Absent(new) /\ Late(new) BY <1>1, <1>2, <1>4 DEF Absent, Late
  <2> QED BY <1>2, <1>4, <2>1 DEF Due, Round
<1>7. Frontier(q2, d)
  <2> SUFFICES ASSUME NEW p \in Holders(d), NEW m \in Neighbors(p, Nodes) \ Holders(d)
               PROVE  \E x \in q2 : /\ x.via = p /\ x.target = m
                                    /\ group.ordered => Due(x) <= Expected(p) + Rounds(p, m)
    BY DEF Frontier
  <2>1. PICK x \in q : /\ x.via = p /\ x.target = m
                       /\ group.ordered => Due(x) <= Expected(p) + Rounds(p, m)
    BY DEF Flood, Frontier
  <2>2. CASE x = task
    <3>1. new \in q2 OBVIOUS
    <3> QED BY <1>4, <1>6, <2>1, <2>2, <3>1
  <2>3. CASE x # task
    <3>1. x \in q2 BY <2>3
    <3> QED BY <2>1, <3>1
  <2> QED BY <2>2, <2>3
<1>8. InRounds(q2, t + 1)
  <2> SUFFICES ASSUME group.ordered
               PROVE  /\ \A x \in q2 : x.turn < t + 1
                      /\ \A x \in q2 : ~Home(x.via) => x.at >= group.partition_until
                      /\ \A x, y \in q2 : /\ x.turn <= y.turn => Round(x) <= Round(y)
                                          /\ Round(y) <= Round(x) + 1
    BY DEF InRounds
  <2>1. \A x \in q : /\ x.turn \in Nat /\ Round(x) \in Nat /\ x.turn < t
                     /\ ~Home(x.via) => x.at >= group.partition_until
                     /\ Round(task) <= Round(x) /\ Round(x) <= Round(task) + 1
    BY <1>1, TaskTyped DEF Flood, InRounds
  <2>2. \A x, y \in q : /\ x.turn <= y.turn => Round(x) <= Round(y)
                        /\ Round(y) <= Round(x) + 1
    BY DEF Flood, InRounds
  <2>3. \A x \in q2 : x.turn < t + 1 BY <1>1, <1>4, <2>1
  <2>4. \A x \in q2 : ~Home(x.via) => x.at >= group.partition_until BY <1>1, <1>4, <2>1
  <2>5. ASSUME NEW x \in q2, NEW y \in q2
        PROVE  (x.turn <= y.turn => Round(x) <= Round(y)) /\ Round(y) <= Round(x) + 1
    <3>1. CASE x \in q /\ y \in q BY <2>2, <3>1
    <3>2. CASE x = new /\ y = new BY <1>2, <1>6, <3>2
    <3>3. CASE x \in q /\ y = new BY <1>2, <1>6, <2>1, <3>3
    <3>4. CASE x = new /\ y \in q
      <4>1. ~(x.turn <= y.turn) BY <1>1, <1>4, <2>1, <3>4
      <4>2. Round(y) <= Round(x) + 1 BY <1>2, <1>6, <2>1, <3>4
      <4> QED BY <4>1, <4>2
    <3> QED BY <3>1, <3>2, <3>3, <3>4
  <2> QED BY <2>3, <2>4, <2>5
<1>9. InAnyOrder(q2, d) BY <1>4 DEF Flood, InAnyOrder
<1>10. Flood(q2, c, t + 1, d) BY <1>5, <1>7, <1>8, <1>9 DEF Flood
<1> QED BY <1>10 DEF new

(* The tasks of one sender: copies of a frame for each target, their turns *)
(* after those that came before and before those that will come after.     *)
LEMMA TasksFor ==
  ASSUME NEW targets, targets \subseteq Int, IsFiniteSet(targets), NEW via, NEW frame, NEW at, NEW first \in Nat
  PROVE  /\ Cardinality(targets) \in Nat
         /\ \A x \in Tasks(targets, via, frame, at, first) :
              /\ x = [target |-> x.target, via |-> via, frame |-> frame, at |-> at, turn |-> x.turn]
              /\ x.target \in targets /\ x.turn \in Nat
              /\ group.ordered => first <= x.turn /\ x.turn < first + Cardinality(targets)
         /\ \A m \in targets : \E x \in Tasks(targets, via, frame, at, first) : x.target = m
<1> DEFINE task(m) == [target |-> m, via |-> via, frame |-> frame, at |-> at,
                       turn |-> IF group.ordered THEN first + Rank(m, targets) ELSE 0]
<1>1. Tasks(targets, via, frame, at, first) = {task(m) : m \in targets} BY DEF Tasks
<1>2. Cardinality(targets) \in Nat BY FS_CardinalityType
<1>3. \A m \in targets : Rank(m, targets) \in 0 .. Cardinality(targets) - 1 BY Ranks
<1>4. ASSUME NEW m \in targets
      PROVE  /\ task(m) = [target |-> task(m).target, via |-> via, frame |-> frame, at |-> at,
                           turn |-> task(m).turn]
             /\ task(m).target = m /\ task(m).turn \in Nat
             /\ group.ordered => first <= task(m).turn /\ task(m).turn < first + Cardinality(targets)
  BY <1>2, <1>3
<1> HIDE DEF task
<1> QED BY <1>1, <1>2, <1>4

(* Served in order, the copy a member gets first comes in time.            *)
LEMMA InTime ==
  ASSUME Grouped, group.ordered, NEW q, NEW c, NEW t, NEW d, Flood(q, c, t, d), NEW task \in q,
         \A x \in q : task.turn <= x.turn, ~Absent(task), task.target \notin Holders(d)
  PROVE  Due(task) <= Expected(task.target)
<1> DEFINE Waiting == Nodes \ Holders(d)
           T == {Expected(m) : m \in Waiting}
<1>1. FloodTyped(q, c, t, d) BY DEF Flood
<1>2. task.target \in Waiting BY <1>1, TaskTyped
<1>3. \A m \in Waiting : Expected(m) \in Nat BY Nearer DEF Holders
<1>4. T \subseteq Nat /\ T # {} BY <1>2, <1>3
<1>5. PICK e \in T : \A y \in T : e <= y BY <1>4, Least
<1>6. PICK u \in Waiting : e = Expected(u) BY <1>5
<1>7. \A m \in Waiting : Expected(u) <= Expected(m) BY <1>5, <1>6
<1>8. PICK p \in Nodes : u \in Neighbors(p, Nodes) /\ Expected(p) + Rounds(p, u) <= Expected(u)
  BY Nearer DEF Holders
<1>9. p \in Holders(d)
  <2>1. CASE p \in Waiting
    <3>1. Expected(u) <= Expected(p) /\ Expected(u) \in Nat /\ Expected(p) \in Nat BY <1>3, <1>7, <2>1
    <3>2. Rounds(p, u) \in {1, 2} BY DEF Rounds
    <3> QED BY <1>8, <3>1, <3>2
  <2> QED BY <2>1
<1>10. PICK x \in q : x.via = p /\ x.target = u /\ Due(x) <= Expected(p) + Rounds(p, u)
  BY <1>8, <1>9 DEF Flood, Frontier
<1>11. /\ Round(task) \in Nat /\ Due(task) = Round(task) + 1
       /\ Round(x) \in Nat /\ Due(x) \in Nat /\ Due(x) >= Round(x) + 1
  <2>1. Round(task) \in Nat /\ Due(task) = Round(task) + 1 BY <1>1, TaskTyped
  <2>2. /\ Round(x) \in Nat /\ Due(x) \in Nat /\ x.frame.hops \in Nat
        /\ ~Absent(x) => Due(x) = Round(x) + 1
        /\ Absent(x) => Due(x) = x.frame.hops + 2 /\ Round(x) = x.frame.hops
    BY <1>1, TaskTyped
  <2> QED BY <2>1, <2>2
<1>12. Round(task) <= Round(x) BY DEF Flood, InRounds
<1>13. /\ Expected(u) \in Nat /\ Expected(task.target) \in Nat /\ Expected(u) <= Expected(task.target)
  BY <1>2, <1>3, <1>7
<1>14. Due(x) <= Expected(u)
  <2>1. Due(x) <= Expected(p) + Rounds(p, u) /\ Expected(p) + Rounds(p, u) <= Expected(u) BY <1>8, <1>10
  <2>2. Expected(p) \in Int
    <3>1. CASE p = group.origin
      <4>1. group.origin \in Nat BY DEF Grouped, Nodes
      <4>2. Home(p) /\ Dist(p, group.origin) = 0 BY <3>1, <4>1 DEF Home, Dist
      <4>3. Far(p) \in Int /\ Expected(p) = Shorter(0, Far(p) + 1)
        <5>1. group.nodes \div 2 \in Int /\ group.nodes \in Int BY DEF Grouped
        <5> QED BY <4>2, <5>1 DEF Expected, Far, Shorter, Dist
      <4> QED BY <4>3 DEF Shorter
    <3>2. CASE p # group.origin BY <3>2, Nearer
    <3> QED BY <3>1, <3>2
  <2>3. Rounds(p, u) \in Int BY DEF Rounds
  <2> QED BY <1>11, <1>13, <2>1, <2>2, <2>3
<1> QED BY <1>11, <1>12, <1>13, <1>14

(* Whatever the order, a member that gets its first copy passes it on: the *)
(* hop budget is not spent.                                                *)
LEMMA WithinBudget ==
  ASSUME Grouped, NEW q, NEW c, NEW t, NEW d, Flood(q, c, t, d), NEW task \in q,
         group.ordered => \A x \in q : task.turn <= x.turn, ~Absent(task), task.target \notin Holders(d)
  PROVE  task.frame.hops < MaxRelayHops
<1>1. FloodTyped(q, c, t, d) /\ MaxRelayHops \in Nat BY HopsAssumption DEF Flood
<1>2. /\ task.target \in Nodes /\ task.frame.hops \in Nat /\ Due(task) \in Nat
      /\ task.target # group.origin /\ task.target \notin d
  BY <1>1, TaskTyped DEF Holders
<1>3. CASE group.ordered
  <2>1. Due(task) <= Expected(task.target) BY <1>3, InTime
  <2>2. Expected(task.target) \in Nat /\ Expected(task.target) <= MaxRelayHops BY <1>2, <1>3, Nearer
  <2>3. task.frame.hops + 1 <= Due(task) BY <1>2 DEF Due
  <2> QED BY <1>1, <1>2, <2>1, <2>2, <2>3
<1>4. CASE ~group.ordered
  <2>1. task.frame.hops <= Cardinality(d) BY <1>4 DEF Flood, InAnyOrder
  <2>2. IsFiniteSet(Nodes) /\ Cardinality(Nodes) = group.nodes /\ group.nodes \in Nat
    BY OwnPlaces DEF Roster, Grouped
  <2>3. d \subseteq Nodes \ {group.origin} /\ group.origin \in Nodes BY <1>1 DEF FloodTyped, Grouped
  <2> DEFINE A == Nodes \ {group.origin}
  <2>4. IsFiniteSet(A) /\ Cardinality(A) = group.nodes - 1 BY <2>2, <2>3, FS_RemoveElement
  <2>5. /\ IsFiniteSet(A \ {task.target}) /\ Cardinality(A \ {task.target}) = group.nodes - 2
    <3>1. task.target \in A BY <1>2
    <3> HIDE DEF A
    <3>2. Cardinality(A \ {task.target}) = group.nodes - 1 - 1 /\ IsFiniteSet(A \ {task.target})
      BY <2>4, <3>1, FS_RemoveElement
    <3> QED BY <2>2, <3>2
  <2>6. Cardinality(d) <= group.nodes - 2 /\ Cardinality(d) \in Nat
    <3>1. d \subseteq A \ {task.target} BY <1>2, <2>3
    <3> QED BY <2>5, <3>1, FS_Subset, FS_CardinalityType
  <2>7. group.nodes <= MaxRelayHops + 1 BY <1>4 DEF Grouped
  <2> QED BY <1>1, <1>2, <2>1, <2>2, <2>6, <2>7
<1> QED BY <1>3, <1>4

(* Gates that have not met the frame forward it and remember it.           *)
LEMMA FirstCopy ==
  ASSUME Grouped, NEW q, NEW c, NEW t, NEW d, Flood(q, c, t, d), NEW task \in q,
         task.target \notin Holders(d), task.frame.hops < MaxRelayHops
  PROVE  LET me == task.target
             after == SeenAfter(c[me], task.frame, "Forward", task.at)
         IN  /\ Decision(c[me], me, task.frame, task.via, task.at) = "Forward"
             /\ TheKey \in DOMAIN after /\ after[TheKey].expires_at = 10000
<1> DEFINE me == task.target
           f == task.frame
<1>1. FloodTyped(q, c, t, d) /\ Remembered(c, d) BY DEF Flood
<1>2. /\ me \in Nodes /\ me # task.via /\ f \in Copies /\ f.hops \in Nat /\ task.at \in Nat /\ task.at < 10000
      /\ f.previous_hop = task.via
  <2>1. f.previous_hop = task.via BY <1>1 DEF FloodTyped
  <2> QED BY <1>1, <2>1, TaskTyped
<1>3. f.origin = group.origin /\ f.id = 1 /\ f.hop_limit = MaxRelayHops /\ f.expires_at = 10000
  BY <1>2 DEF Copies
<1>4. DOMAIN c[me] = {} /\ me # group.origin BY <1>1, <1>2 DEF Remembered, Holders
<1>5. Valid(me, f, task.via)
  BY <1>2, <1>3, <1>4, HopsAssumption DEF Valid
<1>6. DOMAIN ExpireSeen(c[me], task.at) = {} BY <1>4 DEF ExpireSeen, Keep
<1>7. Decision(c[me], me, f, task.via, task.at) = "Forward"
  <2>1. ~(task.at >= f.expires_at) /\ ~(f.hops >= f.hop_limit) BY <1>2, <1>3, HopsAssumption
  <2> QED BY <1>5, <1>6, <2>1 DEF Decision
<1>8. Key(f) = TheKey BY <1>3 DEF Key, TheKey
<1>9. SeenAfter(c[me], f, "Forward", task.at) = Reserve(ExpireSeen(c[me], task.at), TheKey, 10000, task.at)
  BY <1>3, <1>8 DEF SeenAfter
<1> HIDE DEF me, f
<1>10. \A s, k, at : /\ k \in DOMAIN Reserve(s, k, 10000, at)
                     /\ Reserve(s, k, 10000, at)[k].expires_at = 10000
  BY DEF Reserve
<1> QED BY <1>7, <1>9, <1>10 DEF me, f

(* Gates that know the frame forward no other copy of it and go on knowing *)
(* it: the simulator's clock stays short of its expiry.                    *)
LEMMA NextCopy ==
  ASSUME Grouped, NEW q, NEW c, NEW t, NEW d, Flood(q, c, t, d), NEW task \in q, task.target \in d
  PROVE  LET me == task.target
             said == Decision(c[me], me, task.frame, task.via, task.at)
             after == SeenAfter(c[me], task.frame, said, task.at)
         IN  said # "Forward" /\ TheKey \in DOMAIN after /\ after[TheKey].expires_at = 10000
<1> DEFINE me == task.target
           f == task.frame
           said == Decision(c[me], me, f, task.via, task.at)
<1>1. FloodTyped(q, c, t, d) /\ Remembered(c, d) BY DEF Flood
<1>2. me \in Nodes /\ f \in Copies /\ task.at \in Nat /\ task.at < 10000 BY <1>1, TaskTyped
<1>3. f.origin = group.origin /\ f.id = 1 BY <1>2 DEF Copies
<1>4. TheKey \in DOMAIN c[me] /\ c[me][TheKey].expires_at = 10000 BY <1>1, <1>2 DEF Remembered
<1>5. Key(f) = TheKey BY <1>3 DEF Key, TheKey
<1> HIDE DEF me, f
<1>6. TheKey \in DOMAIN ExpireSeen(c[me], task.at) /\ ExpireSeen(c[me], task.at)[TheKey] = c[me][TheKey]
  BY <1>2, <1>4 DEF ExpireSeen, Keep
<1>7. said # "Forward" BY <1>5, <1>6 DEF Decision
<1>8. \/ SeenAfter(c[me], f, said, task.at) = c[me]
      \/ SeenAfter(c[me], f, said, task.at) = ExpireSeen(c[me], task.at)
  <2> HIDE DEF said
  <2> QED BY <1>7 DEF SeenAfter
<1> QED BY <1>4, <1>6, <1>7, <1>8 DEF me, f

(* A member that gets its first copy sends one over each other edge.       *)
LEMMA TaskPassedOn ==
  ASSUME Grouped, NEW q, NEW c, NEW t, NEW d, Flood(q, c, t, d), NEW task \in q,
         group.ordered => \A x \in q : task.turn <= x.turn, ~Absent(task), task.target \notin Holders(d),
         NEW c2, NEW t2, DOMAIN c2 = Nodes, Remembered(c2, d \cup {task.target}),
         t2 = IF group.ordered THEN t + Cardinality(Neighbors(task.target, Nodes) \ {task.via}) ELSE t
  PROVE  Flood((q \ {task})
                 \cup Tasks(Neighbors(task.target, Nodes) \ {task.via}, task.target,
                            Forwarded(task.target, task.frame), task.at, t),
               c2, t2, d \cup {task.target})
<1> DEFINE me == task.target
           next == Neighbors(me, Nodes) \ {task.via}
           f == Forwarded(me, task.frame)
           new == Tasks(next, me, f, task.at, t)
           q2 == (q \ {task}) \cup new
           d2 == d \cup {me}
<1>1. FloodTyped(q, c, t, d) /\ t \in Nat /\ d \subseteq Nodes \ {group.origin} BY DEF Flood, FloodTyped
<1>2. /\ me \in Nodes /\ task.via \in Holders(d) /\ task.frame \in Copies /\ task.frame.hops \in Nat
      /\ task.at \in {1, group.partition_until} /\ Round(task) \in Nat /\ Due(task) = Round(task) + 1
      /\ task.at \in Nat
  BY <1>1, TaskTyped
<1>3. /\ f \in Copies /\ f.previous_hop = me /\ f.hops = task.frame.hops + 1
  <2>1. ASSUME NEW frame \in Copies, NEW m \in Nodes
        PROVE  /\ Forwarded(m, frame).previous_hop = m /\ Forwarded(m, frame).hops = frame.hops + 1
               /\ Forwarded(m, frame) \in Copies
    <3> DEFINE y == [frame EXCEPT !.previous_hop = m]
    <3>1. y \in Copies /\ frame.hops + 1 \in Nat BY DEF Copies
    <3>2. Forwarded(m, frame) = [y EXCEPT !.hops = frame.hops + 1] BY DEF Forwarded, Copies
    <3>3. Forwarded(m, frame).previous_hop = m /\ Forwarded(m, frame).hops = frame.hops + 1
      BY DEF Forwarded, Copies
    <3> HIDE DEF y
    <3>4. [y EXCEPT !.hops = frame.hops + 1] \in Copies BY <3>1 DEF Copies
    <3> QED BY <3>2, <3>3, <3>4
  <2> QED BY <1>2, <2>1
<1>4. next \subseteq Nodes /\ IsFiniteSet(next) /\ next \subseteq Int
  <2>1. Neighbors(me, Nodes) \subseteq Nodes /\ IsFiniteSet(Neighbors(me, Nodes)) BY <1>2, Edges
  <2>2. Nodes \subseteq Int BY OwnPlaces DEF Roster
  <2> QED BY <2>1, <2>2, FS_Subset
<1>5. me \in d2 /\ Holders(d2) = Holders(d) \cup {me} BY DEF Holders
<1> HIDE DEF f, next, d2
<1>6. /\ Cardinality(next) \in Nat
      /\ \A x \in new : /\ x = [target |-> x.target, via |-> me, frame |-> f, at |-> task.at, turn |-> x.turn]
                        /\ x.target \in next /\ x.turn \in Nat
                        /\ group.ordered => t <= x.turn /\ x.turn < t + Cardinality(next)
      /\ \A m \in next : \E x \in new : x.target = m
  BY <1>1, <1>4, TasksFor
<1> HIDE DEF new
<1>7. \A x \in new : x.via = me /\ x.frame = f /\ x.at = task.at BY <1>6
<1>8. t2 \in Nat /\ (group.ordered => t2 = t + Cardinality(next)) BY <1>1, <1>6 DEF next
<1>9. FloodTyped(q2, c2, t2, d2)
  <2>1. d2 \subseteq Nodes \ {group.origin} BY <1>1, <1>2 DEF d2, Holders
  <2>2. ASSUME NEW x \in q2
        PROVE  x \in OnTheWay(d2) /\ x.target \in Neighbors(x.via, Nodes) /\ x.frame.previous_hop = x.via
    <3>1. CASE x \in q
      <4>1. x \in OnTheWay(d) /\ x.target \in Neighbors(x.via, Nodes) /\ x.frame.previous_hop = x.via
        BY <1>1, <3>1 DEF FloodTyped
      <4>2. x \in OnTheWay(d2) BY <1>5, <4>1 DEF OnTheWay
      <4> QED BY <4>1, <4>2
    <3>2. CASE x \in new
      <4>1. /\ x = [target |-> x.target, via |-> me, frame |-> f, at |-> task.at, turn |-> x.turn]
            /\ x.target \in next /\ x.turn \in Nat
        BY <1>6, <3>2
      <4>2. x.target \in Nodes /\ x.target \in Neighbors(me, Nodes) BY <1>4, <4>1 DEF next
      <4>3. me \in Holders(d2) BY <1>5
      <4>4. [target |-> x.target, via |-> me, frame |-> f, at |-> task.at, turn |-> x.turn] \in OnTheWay(d2)
        <5> HIDE DEF me
        <5> QED BY <1>2, <1>3, <4>1, <4>2, <4>3 DEF OnTheWay
      <4> QED BY <1>3, <1>7, <3>2, <4>1, <4>2, <4>4
    <3> QED BY <3>1, <3>2
  <2> QED BY <1>8, <2>1, <2>2 DEF FloodTyped
<1>10. ASSUME group.ordered PROVE Due(task) <= Expected(me)
  BY <1>10, InTime
<1>11. Frontier(q2, d2)
  <2> SUFFICES ASSUME NEW p \in Holders(d2), NEW m \in Neighbors(p, Nodes) \ Holders(d2)
               PROVE  \E x \in q2 : /\ x.via = p /\ x.target = m
                                    /\ group.ordered => Due(x) <= Expected(p) + Rounds(p, m)
    BY DEF Frontier
  <2>1. CASE p \in Holders(d)
    <3>1. m \in Neighbors(p, Nodes) \ Holders(d) /\ m # me BY <1>5
    <3>2. PICK x \in q : /\ x.via = p /\ x.target = m
                         /\ group.ordered => Due(x) <= Expected(p) + Rounds(p, m)
      BY <2>1, <3>1 DEF Flood, Frontier
    <3>3. x \in q2 BY <3>1, <3>2
    <3> QED BY <3>2, <3>3
  <2>2. CASE p = me
    <3>1. m \in next
      <4>1. m # task.via BY <1>2, <1>5
      <4> QED BY <2>2, <4>1 DEF next
    <3>2. PICK x \in new : x.target = m BY <1>6, <3>1
    <3>3. x.via = me /\ x.frame = f /\ x.at = task.at BY <1>7
    <3>4. ASSUME group.ordered PROVE Due(x) <= Expected(me) + Rounds(me, m)
      <4>1. Expected(me) \in Nat BY <1>2, <3>4, Nearer DEF Holders
      <4>2. Due(task) <= Expected(me) BY <1>10, <3>4
      <4>3. CASE Late(task) \/ ~Absent(x)
        <5>1. Due(x) = Due(task) + 1 BY <1>2, <1>3, <3>3, <4>3 DEF Due, Late
        <5>2. Rounds(me, m) \in {1, 2} BY DEF Rounds
        <5> QED BY <1>2, <4>1, <4>2, <5>1, <5>2
      <4>4. CASE ~Late(task) /\ Absent(x)
        <5>1. task.at < group.partition_until /\ Half(m) # Half(me) BY <3>2, <3>3, <4>4 DEF Absent
        <5>2. Half(me) = Half(task.via) BY <5>1 DEF Absent
        <5>3. Home(task.via)
          <6>1. ~(task.at >= group.partition_until) BY <1>2, <5>1 DEF Grouped
          <6> QED BY <3>4, <6>1 DEF Flood, InRounds
        <5>4. Home(me) /\ ~Home(m)
          <6>1. Half(m) \in BOOLEAN /\ Half(me) \in BOOLEAN BY DEF Half
          <6> QED BY <5>1, <5>2, <5>3, <6>1 DEF Home
        <5>5. Rounds(me, m) = 2 BY <5>4 DEF Rounds
        <5>6. Due(x) = Due(task) + 2 BY <1>2, <1>3, <3>3, <4>4 DEF Due, Late
        <5> QED BY <1>2, <4>1, <4>2, <5>5, <5>6
      <4> QED BY <4>3, <4>4
    <3>5. x \in q2 OBVIOUS
    <3> QED BY <2>2, <3>2, <3>3, <3>4, <3>5
  <2> QED BY <1>5, <2>1, <2>2
<1>12. InRounds(q2, t2)
  <2> SUFFICES ASSUME group.ordered
               PROVE  /\ \A x \in q2 : x.turn < t2
                      /\ \A x \in q2 : ~Home(x.via) => x.at >= group.partition_until
                      /\ \A x, y \in q2 : /\ x.turn <= y.turn => Round(x) <= Round(y)
                                          /\ Round(y) <= Round(x) + 1
    BY DEF InRounds
  <2>1. \A x \in q : /\ x.turn \in Nat /\ Round(x) \in Nat /\ x.turn < t
                     /\ ~Home(x.via) => x.at >= group.partition_until
                     /\ Round(task) <= Round(x) /\ Round(x) <= Round(task) + 1
    BY <1>1, TaskTyped DEF Flood, InRounds
  <2>2. \A x, y \in q : /\ x.turn <= y.turn => Round(x) <= Round(y)
                        /\ Round(y) <= Round(x) + 1
    BY DEF Flood, InRounds
  <2>3. \A x \in new : /\ t <= x.turn /\ x.turn < t2 /\ x.turn \in Nat
                       /\ Round(x) = Round(task) + 1
    BY <1>2, <1>3, <1>6, <1>7, <1>8 DEF Round, Late
  <2>4. t2 >= t BY <1>1, <1>6, <1>8
  <2>5. ASSUME NEW x \in q2 PROVE x.turn < t2
    <3>1. CASE x \in q BY <1>1, <1>8, <2>1, <2>4, <3>1
    <3>2. CASE x \in new BY <2>3, <3>2
    <3> QED BY <3>1, <3>2
  <2>6. ASSUME NEW x \in q2, ~Home(x.via) PROVE x.at >= group.partition_until
    <3>1. CASE x \in q BY <2>1, <2>6, <3>1
    <3>2. CASE x \in new
      <4>1. ~Home(me) /\ x.at = task.at BY <1>7, <2>6, <3>2
      <4>2. CASE Home(task.via)
        <5>1. Half(me) # Half(task.via) BY <4>1, <4>2 DEF Home
        <5> QED BY <1>2, <4>1, <5>1 DEF Absent, Grouped
      <4>3. CASE ~Home(task.via) BY <2>1, <4>1, <4>3
      <4> QED BY <4>2, <4>3
    <3> QED BY <3>1, <3>2
  <2>7. ASSUME NEW x \in q2, NEW y \in q2
        PROVE  (x.turn <= y.turn => Round(x) <= Round(y)) /\ Round(y) <= Round(x) + 1
    <3>1. CASE x \in q /\ y \in q BY <2>2, <3>1
    <3>2. CASE x \in new /\ y \in new BY <1>2, <2>3, <3>2
    <3>3. CASE x \in q /\ y \in new BY <1>2, <2>1, <2>3, <3>3
    <3>4. CASE x \in new /\ y \in q
      <4>1. ~(x.turn <= y.turn) BY <1>1, <2>1, <2>3, <3>4
      <4>2. Round(y) <= Round(x) + 1 BY <1>2, <2>1, <2>3, <3>4
      <4> QED BY <4>1, <4>2
    <3> QED BY <3>1, <3>2, <3>3, <3>4
  <2> QED BY <2>5, <2>6, <2>7
<1>13. InAnyOrder(q2, d2)
  <2> SUFFICES ASSUME ~group.ordered, NEW x \in q2 PROVE x.frame.hops <= Cardinality(d2)
    BY DEF InAnyOrder
  <2>1. IsFiniteSet(d)
    <3>1. IsFiniteSet(Nodes) BY OwnPlaces DEF Roster
    <3> QED BY <1>1, <3>1, FS_Subset
  <2>2. Cardinality(d2) = Cardinality(d) + 1 /\ Cardinality(d) \in Nat
    <3>1. me \notin d BY DEF Holders
    <3> QED BY <2>1, <3>1, FS_AddElement, FS_CardinalityType DEF d2
  <2>3. \A y \in q : y.frame.hops \in Nat /\ y.frame.hops <= Cardinality(d)
    BY <1>1, TaskTyped DEF Flood, InAnyOrder
  <2>4. CASE x \in q BY <2>2, <2>3, <2>4
  <2>5. CASE x \in new BY <1>2, <1>3, <1>7, <2>2, <2>3, <2>5
  <2> QED BY <2>4, <2>5
<1>14. Remembered(c2, d2) BY DEF d2
<1>15. Flood(q2, c2, t2, d2) BY <1>9, <1>11, <1>12, <1>13, <1>14 DEF Flood
<1> QED BY <1>15 DEF d2, new, f, next

FloodInv == Grouped /\ Flood(queue, caches, turn, delivered)

(* What a step leaves alone is what the formulas above depend on.          *)
LEMMA SameGroup ==
  ASSUME Grouped, UNCHANGED group, Flood(queue', caches', turn', delivered')
  PROVE  FloodInv'
<1>1. Grouped' BY DEF Grouped, Nodes
<1>2. FloodTyped(queue, caches, turn, delivered)'
  BY DEF Flood, FloodTyped, OnTheWay, Holders, Copies, Nodes
<1>3. Remembered(caches, delivered)' BY DEF Flood, Remembered, TheKey, Nodes
<1>4. Frontier(queue, delivered)'
  BY DEF Flood, Frontier, Holders, Nodes, Due, Late, Absent, Half, Expected, Home, Far, Rounds
<1>5. InRounds(queue, turn)' BY DEF Flood, InRounds, Home, Half, Round, Late
<1>6. InAnyOrder(queue, delivered)' BY DEF Flood, InAnyOrder
<1> QED BY <1>1, <1>2, <1>3, <1>4, <1>5, <1>6 DEF FloodInv, Flood

(* The flood begins with the origin's copies.                              *)
LEMMA FloodBegins ==
  ASSUME TopologyInit PROVE FloodInv
<1>1. Grouped
  <2>1. \A n \in OrderedSizes : /\ n \in Nat \ {0} /\ n \in 4 .. 4 * MaxRelayHops - 4 /\ n % 2 = 0
                                /\ \A o \in Origins : o \in 0 .. n - 1
    <3> SUFFICES ASSUME NEW n \in OrderedSizes
                 PROVE  /\ n \in Nat \ {0} /\ n \in 4 .. 4 * MaxRelayHops - 4 /\ n % 2 = 0
                        /\ \A o \in Origins : o \in 0 .. n - 1
      OBVIOUS
    <3>1. n \in 4 .. 4 * MaxRelayHops - 4 /\ n % 2 = 0 /\ Origins \subseteq 0 .. n - 1
      BY OrderedAssumption
    <3>2. n \in Nat \ {0} BY <3>1, HopsAssumption
    <3> QED BY <3>1, <3>2
  <2>2. \A n \in AnyOrderSizes : n \in Nat \ {0} /\ n <= MaxRelayHops + 1 /\ 0 \in 0 .. n - 1
    <3>1. \A n \in 1 .. MaxRelayHops + 1 : n \in Nat \ {0} /\ n <= MaxRelayHops + 1 /\ 0 \in 0 .. n - 1
      BY HopsAssumption
    <3> QED BY <3>1, AnyOrderAssumption
  <2>3. \A u \in Reunions : u \in Nat /\ u < 10000 BY ReunionsAssumption
  <2>4. CASE group \in [nodes : OrderedSizes, origin : Origins, partition_until : Reunions, ordered : {TRUE}]
    <3>1. /\ group.nodes \in OrderedSizes /\ group.origin \in Origins
          /\ group.partition_until \in Reunions /\ group.ordered = TRUE
      BY <2>4
    <3>2. group.partition_until \in Nat /\ group.partition_until < 10000 BY <2>3, <3>1
    <3>3. /\ group.nodes \in Nat \ {0} /\ group.nodes \in 4 .. 4 * MaxRelayHops - 4 /\ group.nodes % 2 = 0
          /\ group.origin \in 0 .. group.nodes - 1
      BY <2>1, <3>1
    <3>4. group.ordered \in BOOLEAN /\ group.ordered BY <3>1
    <3>5. group.origin \in Nodes BY <3>3 DEF Nodes
    <3> QED BY <3>2, <3>3, <3>4, <3>5 DEF Grouped
  <2>5. CASE group \in [nodes : AnyOrderSizes, origin : {0}, partition_until : {0}, ordered : {FALSE}]
    <3>1. /\ group.nodes \in AnyOrderSizes /\ group.origin = 0
          /\ group.partition_until = 0 /\ group.ordered = FALSE
      BY <2>5
    <3>2. group.nodes \in Nat \ {0} /\ group.nodes <= MaxRelayHops + 1 /\ group.origin \in 0 .. group.nodes - 1
      BY <2>2, <3>1
    <3>3. group.ordered \in BOOLEAN /\ ~group.ordered BY <3>1
    <3>4. group.origin \in Nodes /\ group.partition_until \in Nat /\ group.partition_until < 10000
      BY <3>1, <3>2 DEF Nodes
    <3> QED BY <3>2, <3>3, <3>4 DEF Grouped
  <2> QED BY <2>4, <2>5 DEF TopologyInit
<1> DEFINE g == group.origin
           next == Neighbors(g, Nodes)
<1>2. g \in Nodes /\ next \subseteq Nodes /\ IsFiniteSet(next) /\ next \subseteq Int
  <2>1. g \in Nodes /\ Nodes \subseteq Int BY <1>1, OwnPlaces DEF Grouped, Roster
  <2> QED BY <1>1, <2>1, Edges
<1>3. /\ queue = Tasks(next, g, FirstFrame, 1, 0) /\ turn = Cardinality(queue) /\ delivered = {}
      /\ caches = [m \in Nodes |-> NothingSeen]
  BY DEF TopologyInit
<1>4. /\ FirstFrame \in Copies /\ FirstFrame.previous_hop = g /\ FirstFrame.hops = 0
  BY <1>2 DEF FirstFrame, Copies
<1>5. /\ Cardinality(next) \in Nat
      /\ \A x \in queue : /\ x = [target |-> x.target, via |-> g, frame |-> FirstFrame, at |-> 1, turn |-> x.turn]
                          /\ x.target \in next /\ x.turn \in Nat
                          /\ group.ordered => x.turn < Cardinality(next)
      /\ \A m \in next : \E x \in queue : x.target = m
  <2>1. 0 \in Nat /\ \A x \in Nat : 0 + x = x OBVIOUS
  <2> QED BY <1>2, <1>3, <2>1, TasksFor
<1> HIDE DEF next, g
<1>6. \A x \in queue : x.via = g /\ x.frame = FirstFrame /\ x.at = 1 BY <1>5
<1>7. IsFiniteSet(queue) /\ Cardinality(queue) = Cardinality(next)
  <2> DEFINE task(m) == [target |-> m, via |-> g, frame |-> FirstFrame, at |-> 1,
                         turn |-> IF group.ordered THEN 0 + Rank(m, next) ELSE 0]
             f == [m \in next |-> task(m)]
  <2>1. queue = {task(m) : m \in next} BY <1>3 DEF Tasks
  <2>2. \A m, o \in next : task(m) = task(o) => m = o
    <3>1. \A m : task(m).target = m OBVIOUS
    <3> HIDE DEF task
    <3> QED BY <3>1
  <2> HIDE DEF task
  <2>3. f \in Bijection(next, queue) BY <2>1, <2>2 DEF Bijection, Injection, Surjection, IsInjective
  <2>4. ExistsBijection(next, queue) BY <2>3 DEF ExistsBijection
  <2> QED BY <1>2, <2>4, FS_Bijection
<1>8. FloodTyped(queue, caches, turn, delivered)
  <2>1. ASSUME NEW x \in queue
        PROVE  x \in OnTheWay(delivered) /\ x.target \in Neighbors(x.via, Nodes) /\ x.frame.previous_hop = x.via
    <3>1. /\ x = [target |-> x.target, via |-> g, frame |-> FirstFrame, at |-> 1, turn |-> x.turn]
          /\ x.target \in next /\ x.turn \in Nat
      BY <1>5
    <3>2. [target |-> x.target, via |-> g, frame |-> FirstFrame, at |-> 1, turn |-> x.turn] \in OnTheWay(delivered)
      BY <1>2, <1>4, <3>1 DEF OnTheWay, Holders, g
    <3> QED BY <1>4, <1>6, <3>1, <3>2 DEF next
  <2> QED BY <1>3, <1>5, <1>7, <2>1 DEF FloodTyped
<1>9. Remembered(caches, delivered) BY <1>3 DEF Remembered, NothingSeen
<1>10. Frontier(queue, delivered)
  <2> SUFFICES ASSUME NEW p \in Holders(delivered), NEW m \in Neighbors(p, Nodes) \ Holders(delivered)
               PROVE  \E x \in queue : /\ x.via = p /\ x.target = m
                                       /\ group.ordered => Due(x) <= Expected(p) + Rounds(p, m)
    BY DEF Frontier
  <2>1. p = g BY <1>3 DEF Holders, g
  <2>2. PICK x \in queue : x.target = m BY <1>5, <2>1 DEF next
  <2>3. ASSUME group.ordered PROVE Due(x) <= Expected(g) + Rounds(g, m)
    <3>1. Expected(g) = 0
      <4>1. g \in Nat /\ group.nodes \in Nat /\ group.nodes \div 2 \in Int BY <1>1, <1>2 DEF Grouped, Nodes
      <4>2. Home(g) /\ Dist(g, group.origin) = 0 BY <4>1 DEF Home, Dist, g
      <4>3. Far(g) \in Nat BY <4>1, <4>2 DEF Far, Shorter, Dist
      <4> QED BY <4>2, <4>3 DEF Expected, Shorter
    <3>2. x.via = g /\ x.frame.hops = 0 /\ ~Late(x) BY <1>4, <1>6 DEF Late
    <3>3. CASE Absent(x)
      <4>1. Half(m) # Half(g) /\ Home(g) BY <2>2, <3>2, <3>3 DEF Absent, Home, g
      <4>2. Rounds(g, m) = 2 BY <4>1 DEF Rounds, Home, g
      <4> QED BY <3>1, <3>2, <3>3, <4>2 DEF Due
    <3>4. CASE ~Absent(x)
      <4>1. Rounds(g, m) \in {1, 2} BY DEF Rounds
      <4> QED BY <3>1, <3>2, <3>4, <4>1 DEF Due
    <3> QED BY <3>3, <3>4
  <2> QED BY <1>6, <2>1, <2>2, <2>3
<1>11. InRounds(queue, turn)
  <2> SUFFICES ASSUME group.ordered
               PROVE  /\ \A x \in queue : x.turn < turn
                      /\ \A x \in queue : ~Home(x.via) => x.at >= group.partition_until
                      /\ \A x, y \in queue : /\ x.turn <= y.turn => Round(x) <= Round(y)
                                             /\ Round(y) <= Round(x) + 1
    BY DEF InRounds
  <2>1. \A x \in queue : Home(x.via) BY <1>6 DEF Home, g
  <2>2. \A x \in queue : Round(x) = 0 BY <1>4, <1>6 DEF Round, Late
  <2> QED BY <1>3, <1>5, <1>7, <2>1, <2>2
<1>12. InAnyOrder(queue, delivered)
  <2>1. Cardinality(delivered) = 0 BY <1>3, FS_EmptySet
  <2> QED BY <1>4, <1>6, <2>1 DEF InAnyOrder
<1> QED BY <1>1, <1>8, <1>9, <1>10, <1>11, <1>12 DEF FloodInv, Flood

(* Every step of the flood keeps it going.                                 *)
LEMMA FloodGoesOn ==
  ASSUME FloodInv, [TopologyNext]_topology
  PROVE  FloodInv'
<1>1. /\ Grouped /\ Flood(queue, caches, turn, delivered)
      /\ FloodTyped(queue, caches, turn, delivered) /\ Remembered(caches, delivered)
      /\ DOMAIN caches = Nodes /\ delivered \subseteq Nodes
  BY DEF FloodInv, Flood, FloodTyped
<1>2. CASE UNCHANGED topology
  <2>1. UNCHANGED <<group, caches, queue, turn, delivered>> BY <1>2 DEF topology
  <2> QED BY <1>1, <2>1, SameGroup
<1>3. CASE TopologyNext
  <2>1. PICK task \in queue : Served(task) /\ (Defer(task) \/ Return(task) \/ Arrive(task))
    BY <1>3 DEF TopologyNext
  <2>2. \A x \in queue : task.turn <= x.turn BY <2>1 DEF Served
  <2>3. CASE Defer(task)
    <3>1. /\ Absent(task) /\ UNCHANGED <<group, caches, delivered>> /\ turn' = turn + 1
          /\ queue' = (queue \ {task}) \cup {[task EXCEPT !.at = group.partition_until, !.turn = turn]}
      BY <2>3 DEF Defer
    <3>2. Flood(queue', caches, turn + 1, delivered) BY <1>1, <2>2, <3>1, TaskDeferred, Zenon
    <3> QED BY <1>1, <3>1, <3>2, SameGroup
  <2>4. CASE Return(task)
    <3>1. /\ task.target = group.origin /\ queue' = queue \ {task}
          /\ UNCHANGED <<group, caches, turn, delivered>>
      BY <2>4 DEF Return
    <3>2. task.target \in Holders(delivered) BY <3>1 DEF Holders
    <3>3. Flood(queue \ {task}, caches, turn, delivered) BY <1>1, <3>2, TaskDropped
    <3> QED BY <1>1, <3>1, <3>3, SameGroup
  <2>5. CASE Arrive(task)
    <3> DEFINE me == task.target
               said == Decision(caches[me], me, task.frame, task.via, task.at)
               next == Neighbors(me, Nodes) \ {task.via}
               passed == (queue \ {task}) \cup Tasks(next, me, Forwarded(me, task.frame), task.at, turn)
               after == SeenAfter(caches[me], task.frame, said, task.at)
    <3>1. /\ ~Absent(task) /\ me # group.origin /\ UNCHANGED group
          /\ caches' = [caches EXCEPT ![me] = after]
          /\ said = "Forward" =>
               /\ delivered' = delivered \cup {me}
               /\ queue' = passed
               /\ turn' = IF group.ordered THEN turn + Cardinality(next) ELSE turn
          /\ said # "Forward" => queue' = queue \ {task} /\ UNCHANGED <<turn, delivered>>
      BY <2>5 DEF Arrive
    <3>2. me \in Nodes BY <1>1, TaskTyped
    <3> HIDE DEF said, after
    <3>3. DOMAIN caches' = Nodes /\ \A m \in Nodes : caches'[m] = IF m = me THEN after ELSE caches[m]
      BY <1>1, <3>1, <3>2
    <3>4. ASSUME TheKey \in DOMAIN after, after[TheKey].expires_at = 10000
          PROVE  Remembered(caches', delivered \cup {me})
      BY <1>1, <3>3, <3>4 DEF Remembered
    <3>5. CASE me \in delivered
      <4>1. said # "Forward" /\ TheKey \in DOMAIN after /\ after[TheKey].expires_at = 10000
        BY <1>1, <3>5, NextCopy DEF said, after
      <4>3. me \in Holders(delivered) BY <3>5 DEF Holders
      <4>4. Remembered(caches', delivered) BY <1>1, <3>3, <3>5, <4>1 DEF Remembered
      <4>5. Flood(queue \ {task}, caches', turn, delivered)
        BY <1>1, <3>3, <4>3, <4>4, TaskDropped
      <4>6. queue' = queue \ {task} /\ turn' = turn /\ delivered' = delivered /\ UNCHANGED group
        BY <3>1, <4>1
      <4>7. Flood(queue', caches', turn', delivered') BY <4>5, <4>6
      <4> QED BY <1>1, <4>6, <4>7, SameGroup
    <3>6. CASE me \notin delivered
      <4>1. me \notin Holders(delivered) BY <3>1, <3>6 DEF Holders
      <4>2. task.frame.hops < MaxRelayHops BY <1>1, <2>2, <3>1, <4>1, WithinBudget
      <4>3. said = "Forward" /\ TheKey \in DOMAIN after /\ after[TheKey].expires_at = 10000
        BY <1>1, <4>1, <4>2, FirstCopy DEF said, after
      <4>4. Remembered(caches', delivered \cup {me}) BY <3>4, <4>3
      <4>5. Flood(passed, caches', turn', delivered \cup {me})
        <5>1. /\ ~Absent(task) /\ DOMAIN caches' = Nodes
              /\ turn' = IF group.ordered THEN turn + Cardinality(Neighbors(me, Nodes) \ {task.via}) ELSE turn
          BY <3>1, <3>3, <4>3
        <5> QED BY <1>1, <2>2, <4>1, <4>4, <5>1, TaskPassedOn
      <4> HIDE DEF passed
      <4>6. queue' = passed /\ delivered' = delivered \cup {me} /\ UNCHANGED group BY <3>1, <4>3
      <4>7. Flood(queue', caches', turn', delivered') BY <4>5, <4>6
      <4> QED BY <1>1, <4>6, <4>7, SameGroup
    <3> QED BY <3>5, <3>6
  <2> QED BY <2>1, <2>3, <2>4, <2>5
<1> QED BY <1>2, <1>3

(* No copy left on its way means that no edge leads from a member with the *)
(* frame to one without it, and the ring leaves nobody out.                *)
LEMMA FloodEnds ==
  ASSUME FloodInv PROVE ReachesEveryMember
<1> SUFFICES ASSUME queue = {} PROVE delivered = Nodes \ {group.origin} BY DEF ReachesEveryMember
<1>1. /\ Grouped /\ Frontier(queue, delivered) /\ delivered \subseteq Nodes \ {group.origin}
      /\ group.origin \in Nodes
  BY DEF FloodInv, Flood, FloodTyped, Grouped
<1> DEFINE P == Holders(delivered)
<1>2. P \in SUBSET Nodes /\ P # {} BY <1>1 DEF Holders
<1>3. ASSUME NEW p \in P PROVE WifiAware(p, Nodes) \subseteq P
  <2>1. Neighbors(p, Nodes) \subseteq P BY <1>1 DEF Frontier
  <2> QED BY <2>1 DEF Neighbors
<1>4. P = Nodes BY <1>1, <1>2, <1>3, OwnPlaces, Connected
<1> QED BY <1>1, <1>4 DEF Holders

(* The flood of run_relay_topology_with_partition reaches every member:    *)
(* whatever the origin and the time of reunion, in every even group of up  *)
(* to 4 * MaxRelayHops - 4 members (60 of them, with sixteen hops) whose   *)
(* queue is served in order, and in every group of up to MaxRelayHops + 1  *)
(* members served in any order.                                            *)
THEOREM FloodReachesEveryMember ==
  TopologySpec => []ReachesEveryMember
<1>1. TopologyInit => FloodInv BY FloodBegins
<1>2. FloodInv /\ [TopologyNext]_topology => FloodInv' BY FloodGoesOn
<1>3. FloodInv => ReachesEveryMember BY FloodEnds
<1> QED BY <1>1, <1>2, <1>3, PTL DEF TopologySpec
=============================================================================
