------------------------- MODULE RelayCacheProofs --------------------------
(***************************************************************************)
(* The one-forward guarantee of the gate for any number of keys and any    *)
(* size of the table, its bound, and the condition under which the         *)
(* exception for evicted keys is empty: the keys other members can author  *)
(* fit in the table.                                                       *)
(***************************************************************************)
EXTENDS RelayCache, FiniteSetTheorems, WellFoundedInduction, TLAPS

(* A key forwarded once is remembered until its frames have expired, or    *)
(* was evicted.                                                            *)
Remembered ==
  \A k \in Keys \ evicted :
    forwards[k] > 0 => (k \in DOMAIN seen \/ now >= Expires[k])

GateInv == TypeOK /\ IsFiniteSet(DOMAIN seen) /\ AtMostOneForward /\ Remembered

(* An arriving frame leads to one of the decisions, with its table.        *)
LEMMA AcceptCases ==
  ASSUME TypeOK, NEW key \in Keys, NEW via \in Members, NEW hops \in 0 .. HopLimit,
         Accept(key, via, hops)
  PROVE  /\ now' = now
         /\ evicted' = evicted \cup {k \in DOMAIN seen \ DOMAIN seen' : now < seen[k].expires_at}
         /\ \/ seen' = seen /\ forwards' = forwards
            \/ seen' = ExpireSeen(seen, now) /\ forwards' = forwards
            \/ /\ seen' = Reserve(ExpireSeen(seen, now), key, Expires[key], now)
               /\ forwards' = [forwards EXCEPT ![key] = IF @ < 2 THEN @ + 1 ELSE @]
               /\ key \in OtherKeys
               /\ now < Expires[key]
               /\ key \notin DOMAIN ExpireSeen(seen, now)
<1> DEFINE f == Frame(key, via, hops)
           d == Decision(seen, Local, f, via, now)
<1>1. /\ f.origin = key[1] /\ f.id = key[2] /\ f.previous_hop = via
      /\ f.expires_at = Expires[key] /\ Key(f) = key
  BY DEF Frame, Key, Keys
<1>2. /\ now' = now /\ seen' = SeenAfter(seen, f, d, now)
      /\ evicted' = evicted \cup {k \in DOMAIN seen \ DOMAIN seen' : now < seen[k].expires_at}
      /\ forwards' = [forwards EXCEPT ![key] = IF d = "Forward" /\ @ < 2 THEN @ + 1 ELSE @]
  BY DEF Accept
<1>3. CASE d = "Forward"
  <2>1. seen' = Reserve(ExpireSeen(seen, now), key, Expires[key], now)
    BY <1>1, <1>2, <1>3 DEF SeenAfter
  <2>2. Valid(Local, f, via) /\ ~(now >= f.expires_at) /\ Key(f) \notin DOMAIN ExpireSeen(seen, now)
    BY <1>3 DEF Decision
  <2>3. key \in OtherKeys
    BY <1>1, <2>2 DEF Valid, OtherKeys, Keys
  <2>4. now < Expires[key]
    BY <1>1, <2>2, ExpiresAssumption, TimeAssumption DEF TypeOK
  <2>5. forwards' = [forwards EXCEPT ![key] = IF @ < 2 THEN @ + 1 ELSE @]
    BY <1>2, <1>3
  <2> QED BY <1>1, <1>2, <2>1, <2>2, <2>3, <2>4, <2>5
<1>4. CASE d # "Forward"
  <2>1. seen' = seen \/ seen' = ExpireSeen(seen, now)
    BY <1>2, <1>4 DEF SeenAfter
  <2>2. forwards' = forwards
    BY <1>2, <1>4 DEF TypeOK
  <2> QED BY <1>2, <2>1, <2>2
<1> QED BY <1>3, <1>4

(* Expiring entries forgets exactly the expired ones.                      *)
LEMMA ExpireEffect ==
  ASSUME TypeOK
  PROVE  LET live == ExpireSeen(seen, now)
         IN  /\ DOMAIN live = {k \in DOMAIN seen : now < Expires[k]}
             /\ \A k \in DOMAIN live : live[k] = seen[k]
  BY DEF ExpireSeen, Keep, TypeOK

(* A set of natural numbers has a least member.                            *)
LEMMA LeastNat ==
  ASSUME NEW T \in SUBSET Nat, T # {}
  PROVE  \E x \in T : \A y \in T : x <= y
<1>1. PICK x \in T : \A y \in T : <<y, x>> \notin OpToRel(<, Nat)
  BY NatLessThanWellFounded, WFMin, Zenon
<1>2. \A y \in T : ~(y < x)
  BY <1>1 DEF OpToRel
<1> QED BY <1>2

(* A table that is not empty has an entry no other one precedes.           *)
LEMMA EarliestExists ==
  ASSUME NEW table, DOMAIN table # {}, \A k \in DOMAIN table : table[k] \in SeenRelay
  PROVE  \E k \in DOMAIN table : \A j \in DOMAIN table : NoLater(table[k], table[j])
<1> DEFINE Expiries == {table[k].expires_at : k \in DOMAIN table}
<1>0. \A k \in DOMAIN table : table[k].expires_at \in Nat /\ table[k].received_at \in Nat
  BY DEF SeenRelay
<1>1. Expiries \in SUBSET Nat /\ Expiries # {}
  BY <1>0
<1>2. PICK e \in Expiries : \A x \in Expiries : e <= x
  BY <1>1, LeastNat
<1> DEFINE Receipts == {table[k].received_at : k \in {j \in DOMAIN table : table[j].expires_at = e}}
<1>3. Receipts \in SUBSET Nat /\ Receipts # {}
  BY <1>0
<1>4. PICK r \in Receipts : \A x \in Receipts : r <= x
  BY <1>3, LeastNat
<1>5. PICK k \in DOMAIN table : table[k].expires_at = e /\ table[k].received_at = r
  OBVIOUS
<1>6. ASSUME NEW j \in DOMAIN table PROVE NoLater(table[k], table[j])
  <2>1. e <= table[j].expires_at BY <1>2
  <2>2. table[j].expires_at = e => r <= table[j].received_at BY <1>4
  <2> QED BY <1>0, <1>5, <2>1, <2>2 DEF NoLater
<1> QED BY <1>5, <1>6

(* Expiry leaves a finite table of live keys within the bound.             *)
LEMMA ExpireBound ==
  ASSUME TypeOK, IsFiniteSet(DOMAIN seen)
  PROVE  /\ IsFiniteSet(DOMAIN ExpireSeen(seen, now))
         /\ Cardinality(DOMAIN ExpireSeen(seen, now)) \in Nat
         /\ Cardinality(DOMAIN ExpireSeen(seen, now)) <= MaxRelayDedup
<1>1. DOMAIN ExpireSeen(seen, now) \subseteq DOMAIN seen
  BY ExpireEffect
<1>2. /\ IsFiniteSet(DOMAIN ExpireSeen(seen, now))
      /\ Cardinality(DOMAIN ExpireSeen(seen, now)) <= Cardinality(DOMAIN seen)
  BY <1>1, FS_Subset
<1>3. Cardinality(DOMAIN seen) \in Nat /\ Cardinality(DOMAIN ExpireSeen(seen, now)) \in Nat
  BY <1>2, FS_CardinalityType
<1> QED BY <1>2, <1>3, DedupAssumption DEF TypeOK

(* Reserving keeps every live key but at most one, which goes only if the  *)
(* table is full, and the table stays within its bound.                    *)
LEMMA ReserveEffect ==
  ASSUME TypeOK, IsFiniteSet(DOMAIN seen), NEW key \in OtherKeys,
         key \notin DOMAIN ExpireSeen(seen, now)
  PROVE  LET live == ExpireSeen(seen, now)
             table == Reserve(live, key, Expires[key], now)
         IN  /\ key \in DOMAIN table
             /\ DOMAIN table \subseteq DOMAIN live \cup {key}
             /\ \A k \in DOMAIN table \ {key} : table[k] = live[k]
             /\ table[key] = [expires_at |-> Expires[key], received_at |-> now]
             /\ IsFiniteSet(DOMAIN table)
             /\ Cardinality(DOMAIN table) <= MaxRelayDedup
             /\ Cardinality(DOMAIN live) < MaxRelayDedup => DOMAIN live \subseteq DOMAIN table
<1> DEFINE live == ExpireSeen(seen, now)
           kept == MakeRoom(live)
           table == Reserve(live, key, Expires[key], now)
<1>1. /\ IsFiniteSet(DOMAIN live) /\ Cardinality(DOMAIN live) \in Nat
      /\ Cardinality(DOMAIN live) <= MaxRelayDedup
  BY ExpireBound
<1>2. /\ DOMAIN kept \subseteq DOMAIN live /\ IsFiniteSet(DOMAIN kept)
      /\ \A k \in DOMAIN kept : kept[k] = live[k]
      /\ Cardinality(DOMAIN kept) \in Nat /\ Cardinality(DOMAIN kept) < MaxRelayDedup
      /\ Cardinality(DOMAIN live) < MaxRelayDedup => kept = live
  <2>1. CASE Cardinality(DOMAIN live) >= MaxRelayDedup
    <3>1. DOMAIN live # {}
      BY <1>1, <2>1, FS_EmptySet, DedupAssumption
    <3>2. \E k \in DOMAIN live : \A j \in DOMAIN live : NoLater(live[k], live[j])
      <4>1. \A k \in DOMAIN live : live[k] \in SeenRelay
        BY ExpireEffect DEF TypeOK
      <4> QED BY <3>1, <4>1, EarliestExists
    <3>3. Oldest(live) \in DOMAIN live
      BY <3>2 DEF Oldest
    <3>4. kept = Keep(live, DOMAIN live \ {Oldest(live)})
      BY <2>1 DEF MakeRoom
    <3>5. DOMAIN kept = DOMAIN live \ {Oldest(live)} /\ \A k \in DOMAIN kept : kept[k] = live[k]
      BY <3>4 DEF Keep
    <3>6. /\ IsFiniteSet(DOMAIN live \ {Oldest(live)})
          /\ Cardinality(DOMAIN live \ {Oldest(live)}) = Cardinality(DOMAIN live) - 1
      BY <1>1, <3>3, FS_RemoveElement
    <3>7. Cardinality(DOMAIN live) = MaxRelayDedup
      BY <1>1, <2>1, DedupAssumption
    <3>8. Cardinality(DOMAIN kept) = MaxRelayDedup - 1 /\ IsFiniteSet(DOMAIN kept)
      BY <3>5, <3>6, <3>7
    <3> QED BY <3>5, <3>7, <3>8, DedupAssumption
  <2>2. CASE ~(Cardinality(DOMAIN live) >= MaxRelayDedup)
    <3>1. kept = live BY <2>2 DEF MakeRoom
    <3> QED BY <1>1, <2>2, <3>1, DedupAssumption
  <2> QED BY <2>1, <2>2
<1>3. /\ DOMAIN table = DOMAIN kept \cup {key}
      /\ \A k \in DOMAIN kept \cup {key} :
           table[k] = IF k = key THEN [expires_at |-> Expires[key], received_at |-> now]
                      ELSE kept[k]
  BY DEF Reserve
<1>4. key \notin DOMAIN kept
  BY <1>2
<1>5. /\ IsFiniteSet(DOMAIN kept \cup {key})
      /\ Cardinality(DOMAIN kept \cup {key}) = Cardinality(DOMAIN kept) + 1
  BY <1>2, <1>4, FS_AddElement
<1> HIDE DEF kept, live, table
<1>6. /\ key \in DOMAIN table /\ DOMAIN table \subseteq DOMAIN live \cup {key}
      /\ \A k \in DOMAIN table \ {key} : table[k] = live[k]
      /\ table[key] = [expires_at |-> Expires[key], received_at |-> now]
  BY <1>2, <1>3
<1>7. IsFiniteSet(DOMAIN table) /\ Cardinality(DOMAIN table) <= MaxRelayDedup
  BY <1>2, <1>3, <1>5, DedupAssumption
<1>8. Cardinality(DOMAIN live) < MaxRelayDedup => DOMAIN live \subseteq DOMAIN table
  BY <1>2, <1>3
<1> QED BY <1>6, <1>7, <1>8 DEF live, table

(* Each step keeps the invariant.                                          *)
LEMMA NextGate == GateInv /\ [Next]_vars => GateInv'
<1> SUFFICES ASSUME GateInv, [Next]_vars PROVE GateInv'
  OBVIOUS
<1>t. /\ TypeOK /\ IsFiniteSet(DOMAIN seen) /\ AtMostOneForward /\ Remembered
      /\ now \in Nat /\ MaxTime \in Nat /\ \A k \in Keys : Expires[k] \in Nat
      /\ OtherKeys \subseteq Keys
  BY ExpiresAssumption, TimeAssumption DEF GateInv, TypeOK, OtherKeys, Keys
<1>s. forwards \in [Keys -> 0 .. 2] /\ DOMAIN seen \subseteq OtherKeys
  BY <1>t DEF TypeOK
<1>1. ASSUME NEW key \in Keys, NEW via \in Members, NEW hops \in 0 .. HopLimit,
             Accept(key, via, hops)
      PROVE  GateInv'
  <2> DEFINE live == ExpireSeen(seen, now)
             lost == {k \in DOMAIN seen \ DOMAIN seen' : now < seen[k].expires_at}
  <2>1. now' = now /\ evicted' = evicted \cup lost BY <1>1, <1>t, AcceptCases
  <2>2. /\ DOMAIN live = {k \in DOMAIN seen : now < Expires[k]}
        /\ \A k \in DOMAIN live : live[k] = seen[k]
    BY <1>t, ExpireEffect
  <2>3. /\ \A k \in lost : k \in DOMAIN live /\ k \notin DOMAIN seen'
        /\ \A k \in DOMAIN live \ DOMAIN seen' : k \in evicted'
        /\ evicted' \subseteq OtherKeys
    BY <1>t, <2>1, <2>2 DEF TypeOK
  <2>4. CASE seen' = seen /\ forwards' = forwards
    BY <1>t, <2>1, <2>3, <2>4 DEF GateInv, TypeOK, AtMostOneForward, Remembered
  <2>5. CASE seen' = live /\ forwards' = forwards
    <3>1. IsFiniteSet(DOMAIN seen') /\ Cardinality(DOMAIN seen') <= MaxRelayDedup
      BY <1>t, <2>5, ExpireBound
    <3>2. TypeOK' BY <1>t, <2>1, <2>2, <2>3, <2>5, <3>1 DEF TypeOK
    <3>3. Remembered' BY <1>t, <2>1, <2>2, <2>5 DEF TypeOK, Remembered
    <3>4. AtMostOneForward' BY <1>t, <2>1, <2>5 DEF AtMostOneForward
    <3> QED BY <3>1, <3>2, <3>3, <3>4 DEF GateInv
  <2>6. CASE /\ seen' = Reserve(live, key, Expires[key], now)
             /\ forwards' = [forwards EXCEPT ![key] = IF @ < 2 THEN @ + 1 ELSE @]
             /\ key \in OtherKeys
             /\ now < Expires[key]
             /\ key \notin DOMAIN live
    <3>1. /\ key \in DOMAIN seen' /\ DOMAIN seen' \subseteq DOMAIN live \cup {key}
          /\ \A k \in DOMAIN seen' \ {key} : seen'[k] = live[k]
          /\ seen'[key] = [expires_at |-> Expires[key], received_at |-> now]
          /\ IsFiniteSet(DOMAIN seen') /\ Cardinality(DOMAIN seen') <= MaxRelayDedup
      BY <1>t, <2>6, ReserveEffect
    <3>2. key \in evicted \/ forwards[key] = 0
      <4>1. key \notin evicted => ~(forwards[key] > 0)
        BY <1>t, <2>2, <2>6 DEF Remembered
      <4> QED BY <1>s, <4>1
    <3>3. /\ forwards' \in [Keys -> 0 .. 2]
          /\ \A k \in Keys \ {key} : forwards'[k] = forwards[k]
          /\ key \in evicted' \/ forwards'[key] = 1
      BY <1>s, <2>1, <2>6, <3>2
    <3>4. \A k \in DOMAIN seen' : seen'[k] \in SeenRelay /\ seen'[k].expires_at = Expires[k]
      <4>1. seen'[key] \in SeenRelay /\ seen'[key].expires_at = Expires[key]
        BY <1>t, <3>1 DEF SeenRelay
      <4>2. \A k \in DOMAIN live : live[k] \in SeenRelay /\ live[k].expires_at = Expires[k]
        BY <1>t, <2>2 DEF TypeOK
      <4> QED BY <3>1, <4>1, <4>2
    <3>5. DOMAIN seen' \subseteq OtherKeys
      BY <1>s, <2>2, <2>6, <3>1
    <3>6. now' \in 0 .. MaxTime BY <1>t, <2>1 DEF TypeOK
    <3>7. TypeOK' BY <2>3, <3>1, <3>3, <3>4, <3>5, <3>6 DEF TypeOK
    <3>8. AtMostOneForward'
      BY <1>t, <2>1, <3>3 DEF AtMostOneForward
    <3>9. Remembered'
      <4> SUFFICES ASSUME NEW k \in Keys \ evicted', forwards'[k] > 0
                   PROVE  (k \in DOMAIN seen' \/ now >= Expires[k])
        BY <2>1 DEF Remembered
      <4>1. CASE k = key BY <3>1, <4>1
      <4>2. CASE k # key
        <5>1. k \in DOMAIN seen \/ now >= Expires[k]
          BY <1>t, <2>1, <3>3, <4>2 DEF Remembered
        <5>2. k \in DOMAIN live \/ now >= Expires[k]
          BY <1>t, <2>2, <5>1
        <5> QED BY <2>3, <5>2
      <4> QED BY <4>1, <4>2
    <3> QED BY <3>1, <3>7, <3>8, <3>9 DEF GateInv
  <2> QED BY <1>1, <1>t, <2>4, <2>5, <2>6, AcceptCases
<1>2. CASE Tick
  <2>1. now' = now + 1 /\ UNCHANGED <<seen, forwards, evicted>> /\ now < MaxTime
    BY <1>2 DEF Tick
  <2> QED BY <1>t, <2>1 DEF GateInv, TypeOK, AtMostOneForward, Remembered
<1>3. CASE Reopen
  <2>1. DOMAIN seen' = {} /\ forwards' = [k \in Keys |-> 0] /\ now' = now /\ evicted' = {}
    BY <1>3 DEF Reopen, NothingSeen
  <2>2. IsFiniteSet(DOMAIN seen') /\ Cardinality(DOMAIN seen') <= MaxRelayDedup
    BY <2>1, FS_EmptySet, DedupAssumption
  <2> QED BY <1>t, <2>1, <2>2 DEF GateInv, TypeOK, AtMostOneForward, Remembered
<1>4. CASE UNCHANGED vars
  BY <1>4 DEF vars, GateInv, TypeOK, AtMostOneForward, Remembered
<1> QED BY <1>1, <1>2, <1>3, <1>4 DEF Next

(* The invariant holds at the start.                                       *)
LEMMA InitGate == Init => GateInv
<1> SUFFICES ASSUME Init PROVE GateInv
  OBVIOUS
<1>1. DOMAIN seen = {} /\ now = 0 /\ forwards = [k \in Keys |-> 0] /\ evicted = {}
  BY DEF Init, NothingSeen
<1>2. IsFiniteSet(DOMAIN seen) /\ Cardinality(DOMAIN seen) <= MaxRelayDedup
  BY <1>1, FS_EmptySet, DedupAssumption
<1> QED BY <1>1, <1>2, TimeAssumption DEF GateInv, TypeOK, AtMostOneForward, Remembered

(* A key the gate never had to give up is forwarded at most once while the *)
(* gate is open and time moves on, for every size of table, and the table  *)
(* keeps its bound.                                                        *)
THEOREM GateForwardsOnce == Spec => [](TypeOK /\ AtMostOneForward)
<1>1. GateInv => TypeOK /\ AtMostOneForward
  BY DEF GateInv
<1> QED BY InitGate, NextGate, <1>1, PTL DEF Spec

(* The table never outgrows MAX_RELAY_DEDUP and holds only keys of other   *)
(* members with the expiry their origin gave them.                         *)
THEOREM GateTypeCorrect == Spec => []TypeOK
  BY GateForwardsOnce, PTL

(* A live key that makes room is the oldest of a full table.               *)
LEMMA GivenUpIsOldest ==
  ASSUME TypeOK, NEW key,
         NEW k \in DOMAIN ExpireSeen(seen, now) \ DOMAIN Reserve(ExpireSeen(seen, now), key, Expires[key], now)
  PROVE  /\ Cardinality(DOMAIN ExpireSeen(seen, now)) >= MaxRelayDedup
         /\ \A j \in DOMAIN ExpireSeen(seen, now) :
              NoLater(ExpireSeen(seen, now)[k], ExpireSeen(seen, now)[j])
<1> DEFINE live == ExpireSeen(seen, now)
<1>1. DOMAIN Reserve(live, key, Expires[key], now) = DOMAIN MakeRoom(live) \cup {key}
  BY DEF Reserve
<1>2. k \in DOMAIN live /\ k \notin DOMAIN MakeRoom(live) BY <1>1
<1>3. Cardinality(DOMAIN live) >= MaxRelayDedup /\ MakeRoom(live) = Keep(live, DOMAIN live \ {Oldest(live)})
  BY <1>2 DEF MakeRoom
<1>4. k = Oldest(live) BY <1>2, <1>3 DEF Keep
<1>5. \E i \in DOMAIN live : \A j \in DOMAIN live : NoLater(live[i], live[j])
  <2>1. \A i \in DOMAIN live : live[i] \in SeenRelay BY ExpireEffect DEF TypeOK
  <2> QED BY <1>2, <2>1, EarliestExists
<1> QED BY <1>3, <1>4, <1>5 DEF Oldest

(* RelayCache::accept expires before it counts and evicts the earliest     *)
(* entry only to admit a new key into a full table, so no call forgets a   *)
(* live key beside one that would have gone first.                         *)
THEOREM GateEvictsEarliest == Spec => EvictsEarliest
<1> DEFINE Evicts(k) ==
             (now < seen[k].expires_at /\ seen' # NothingSeen) =>
               /\ Cardinality(DOMAIN seen) >= MaxRelayDedup
               /\ \A j \in DOMAIN seen \cap DOMAIN seen' : NoLater(seen[k], seen[j])
<1>1. GateInv /\ [Next]_vars => [\A k \in DOMAIN seen \ DOMAIN seen' : Evicts(k)]_vars
  <2> SUFFICES ASSUME GateInv, Next, NEW k \in DOMAIN seen \ DOMAIN seen',
                      now < seen[k].expires_at, seen' # NothingSeen
               PROVE  /\ Cardinality(DOMAIN seen) >= MaxRelayDedup
                      /\ \A j \in DOMAIN seen \cap DOMAIN seen' : NoLater(seen[k], seen[j])
    OBVIOUS
  <2>1. TypeOK /\ IsFiniteSet(DOMAIN seen) BY DEF GateInv
  <2> DEFINE live == ExpireSeen(seen, now)
  <2>2. /\ DOMAIN live = {i \in DOMAIN seen : now < Expires[i]}
        /\ \A i \in DOMAIN live : live[i] = seen[i]
        /\ \A i \in DOMAIN seen : seen[i].expires_at = Expires[i]
    BY <2>1, ExpireEffect DEF TypeOK
  <2>3. k \in DOMAIN live BY <2>2
  <2>4. PICK key \in Keys, via \in Members, hops \in 0 .. HopLimit : Accept(key, via, hops)
    BY DEF Next, Tick, Reopen
  <2>5. /\ seen' = Reserve(live, key, Expires[key], now) /\ key \in OtherKeys /\ now < Expires[key]
        /\ key \notin DOMAIN live
    BY <2>1, <2>3, <2>4, AcceptCases
  <2>6. /\ Cardinality(DOMAIN live) >= MaxRelayDedup
        /\ \A j \in DOMAIN live : NoLater(live[k], live[j])
    BY <2>1, <2>3, <2>5, GivenUpIsOldest
  <2>7. Cardinality(DOMAIN seen) >= MaxRelayDedup
    <3>1. DOMAIN live \subseteq DOMAIN seen BY <2>2
    <3>2. Cardinality(DOMAIN live) <= Cardinality(DOMAIN seen) BY <2>1, <3>1, FS_Subset
    <3>3. Cardinality(DOMAIN live) \in Nat /\ Cardinality(DOMAIN seen) \in Nat
      BY <2>1, ExpireBound, FS_CardinalityType
    <3> QED BY <2>6, <3>2, <3>3, DedupAssumption
  <2>8. DOMAIN seen \cap DOMAIN seen' \subseteq DOMAIN live
    <3>1. DOMAIN seen' \subseteq DOMAIN live \cup {key} BY <2>1, <2>5, ReserveEffect
    <3>2. key \notin DOMAIN seen BY <2>2, <2>5
    <3> QED BY <3>1, <3>2
  <2> QED BY <2>2, <2>3, <2>6, <2>7, <2>8
<1>2. Spec => []GateInv BY InitGate, NextGate, PTL DEF Spec
<1> QED BY <1>1, <1>2, PTL DEF Spec, EvictsEarliest

(* If the keys other members may author fit in the table, no live key is   *)
(* ever given up: RelayCache then keeps its promise without exception.     *)
THEOREM GateWithRoomKeepsAll ==
  ASSUME IsFiniteSet(OtherKeys), Cardinality(OtherKeys) <= MaxRelayDedup
  PROVE  Spec => [](evicted = {})
<1> DEFINE I == GateInv /\ evicted = {}
<1>1. Init => I
  BY InitGate DEF Init
<1>2. I /\ [Next]_vars => I'
  <2> SUFFICES ASSUME GateInv, evicted = {}, [Next]_vars PROVE evicted' = {}
    BY NextGate
  <2>1. TypeOK /\ IsFiniteSet(DOMAIN seen) BY DEF GateInv
  <2>2. ASSUME NEW key \in Keys, NEW via \in Members, NEW hops \in 0 .. HopLimit,
               Accept(key, via, hops)
        PROVE  evicted' = {}
    <3> DEFINE live == ExpireSeen(seen, now)
    <3>1. /\ DOMAIN live = {k \in DOMAIN seen : now < Expires[k]}
          /\ DOMAIN seen \subseteq OtherKeys
          /\ \A k \in DOMAIN seen : seen[k].expires_at = Expires[k]
      BY <2>1, ExpireEffect DEF TypeOK
    <3>2. CASE seen' = seen \/ seen' = live
      BY <2>1, <2>2, <3>1, <3>2, AcceptCases
    <3>3. CASE /\ seen' = Reserve(live, key, Expires[key], now)
               /\ key \in OtherKeys /\ key \notin DOMAIN live
      <4>1. /\ IsFiniteSet(OtherKeys \ {key})
            /\ Cardinality(OtherKeys \ {key}) = Cardinality(OtherKeys) - 1
        BY <3>3, FS_RemoveElement
      <4>2. DOMAIN live \subseteq OtherKeys \ {key} BY <3>1, <3>3
      <4>3. Cardinality(DOMAIN live) <= Cardinality(OtherKeys \ {key})
        BY <4>1, <4>2, FS_Subset
      <4>4. Cardinality(OtherKeys) \in Nat /\ Cardinality(DOMAIN live) \in Nat
        BY <2>1, ExpireBound, FS_CardinalityType
      <4>5. Cardinality(DOMAIN live) < MaxRelayDedup
        BY <4>1, <4>3, <4>4, DedupAssumption
      <4>6. DOMAIN live \subseteq DOMAIN seen'
        BY <2>1, <3>3, <4>5, ReserveEffect
      <4> QED BY <2>1, <2>2, <3>1, <4>6, AcceptCases
    <3> QED BY <2>1, <2>2, <3>2, <3>3, AcceptCases
  <2>3. CASE Tick BY <2>3 DEF Tick
  <2>4. CASE Reopen BY <2>4 DEF Reopen
  <2>5. CASE UNCHANGED vars BY <2>5 DEF vars
  <2> QED BY <2>2, <2>3, <2>4, <2>5 DEF Next
<1>3. I => evicted = {}
  OBVIOUS
<1> QED BY <1>1, <1>2, <1>3, PTL DEF Spec
=============================================================================
