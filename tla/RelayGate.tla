----------------------------- MODULE RelayGate -----------------------------
(***************************************************************************)
(* The forwarding gate of crates/mesh-replication (RelayCache) as          *)
(* operators on its table.  `seen` maps the key of a frame, its origin and *)
(* relay identifier, to the time it expires and the time it was received.  *)
(* RelayCache.tla is the gate on its own; DurableMesh.tla puts one gate in *)
(* every phone.                                                            *)
(***************************************************************************)
EXTENDS Integers, FiniteSets

CONSTANTS
  MaxRelayDedup,  \* MAX_RELAY_DEDUP
  MaxRelayHops    \* MAX_RELAY_HOPS

ASSUME DedupAssumption == MaxRelayDedup \in Nat \ {0}
ASSUME HopsAssumption == MaxRelayHops \in Nat \ {0}

SeenRelay == [expires_at : Nat, received_at : Nat]
NothingSeen == [k \in {} |-> [expires_at |-> 0, received_at |-> 0]]

Key(frame) == <<frame.origin, frame.id>>

Keep(seen, keys) == [k \in keys |-> seen[k]]

(* The earliest expiry goes first, then the earliest receipt; the code     *)
(* breaks the remaining ties by key order, the model by an arbitrary fixed *)
(* choice.                                                                 *)
NoLater(a, b) ==
  \/ a.expires_at < b.expires_at
  \/ a.expires_at = b.expires_at /\ a.received_at <= b.received_at

(* Mutant: the latest expiry goes first.                                   *)
OldestIsNewest(seen) ==
  CHOOSE k \in DOMAIN seen : \A j \in DOMAIN seen : NoLater(seen[j], seen[k])

Oldest(seen) ==
  CHOOSE k \in DOMAIN seen : \A j \in DOMAIN seen : NoLater(seen[k], seen[j])

(* Mutant: entries expire one instant before the frames they stand for.    *)
ExpireSeenEarly(seen, now) ==
  Keep(seen, {k \in DOMAIN seen : now + 1 < seen[k].expires_at})

ExpireSeen(seen, now) ==
  Keep(seen, {k \in DOMAIN seen : now < seen[k].expires_at})

(* Mutant: the table may grow one past its limit.                          *)
MakeRoomLate(seen) ==
  IF Cardinality(DOMAIN seen) > MaxRelayDedup
  THEN Keep(seen, DOMAIN seen \ {Oldest(seen)})
  ELSE seen

MakeRoom(seen) ==
  IF Cardinality(DOMAIN seen) >= MaxRelayDedup
  THEN Keep(seen, DOMAIN seen \ {Oldest(seen)})
  ELSE seen

Reserve(seen, key, expires, now) ==
  LET kept == MakeRoom(seen)
  IN  [k \in DOMAIN kept \cup {key} |->
         IF k = key THEN [expires_at |-> expires, received_at |-> now] ELSE kept[k]]

Valid(local, frame, via) ==
  /\ frame.previous_hop = via
  /\ frame.hop_limit \in 1 .. MaxRelayHops
  /\ frame.hops <= frame.hop_limit
  /\ frame.origin # local
  /\ via # local

Decision(seen, local, frame, via, now) ==
  IF ~Valid(local, frame, via) THEN "Invalid"
  ELSE IF now >= frame.expires_at THEN "Expired"
  ELSE IF frame.hops >= frame.hop_limit THEN "HopLimit"
  ELSE IF Key(frame) \in DOMAIN ExpireSeen(seen, now) THEN "Duplicate"
  ELSE "Forward"

(* The table after RelayCache::accept returned the decision.               *)
SeenAfter(seen, frame, decision, now) ==
  CASE decision = "Invalid" -> seen
    [] decision = "Forward" ->
         Reserve(ExpireSeen(seen, now), Key(frame), frame.expires_at, now)
    [] OTHER -> ExpireSeen(seen, now)

(* Mutant: a hop is counted when it is received and when it is sent.       *)
ForwardedTwice(local, frame) ==
  [frame EXCEPT !.previous_hop = local, !.hops = @ + 2]

Forwarded(local, frame) ==
  [frame EXCEPT !.previous_hop = local, !.hops = @ + 1]
=============================================================================
