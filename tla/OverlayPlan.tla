---------------------------- MODULE OverlayPlan -----------------------------
(***************************************************************************)
(* What every phone derives for itself from the certified roster           *)
(* (crates/mesh-replication): neighbor_plan, whom to link with, and        *)
(* broadcast_audiences, how a message to the group is split into objects.  *)
(* Members are numbers: the code orders them by identifier.                *)
(***************************************************************************)
EXTENDS Integers, FiniteSets

CONSTANT MaxTargets  \* MAX_TARGETS

(* Position of a member in the sorted roster, from 0, and its inverse.     *)
Rank(member, members) == Cardinality({m \in members : m < member})
At(members, index) == CHOOSE m \in members : Rank(m, members) = index

(* NeighborPlan.wifi_aware: predecessor and successor on the ring.         *)
WifiAware(local, members) ==
  LET index == Rank(local, members)  count == Cardinality(members)
  IN  CASE count = 1 -> {}
        [] count = 2 -> {At(members, (index + 1) % count)}
        [] OTHER     -> {At(members, (index + count - 1) % count),
                         At(members, (index + 1) % count)}

(* NeighborPlan.bluetooth_fallback: the opposite member of an even ring,   *)
(* as a set of at most one.                                                *)
(* Mutant: odd rosters get a chord as well.                                *)
BluetoothAlways(local, members) ==
  LET index == Rank(local, members)  count == Cardinality(members)
  IN  IF count >= 4 THEN {At(members, (index + count \div 2) % count)} ELSE {}

BluetoothFallback(local, members) ==
  LET index == Rank(local, members)  count == Cardinality(members)
  IN  IF count >= 4 /\ count % 2 = 0
      THEN {At(members, (index + count \div 2) % count)}
      ELSE {}

Neighbors(local, members) == WifiAware(local, members) \cup BluetoothFallback(local, members)

(* Mutant: an audience has room for one more.                              *)
AudiencesTooLarge(local, members) ==
  LET targets == members \ {local}
      count == (Cardinality(targets) + MaxTargets) \div (MaxTargets + 1)
  IN  [k \in 1 .. count |->
         {m \in targets : Rank(m, targets) \div (MaxTargets + 1) = k - 1}]

(* broadcast_audiences: the sorted roster without the origin, in chunks.   *)
BroadcastAudiences(local, members) ==
  LET targets == members \ {local}
      count == (Cardinality(targets) + MaxTargets - 1) \div MaxTargets
  IN  [k \in 1 .. count |-> {m \in targets : Rank(m, targets) \div MaxTargets = k - 1}]
=============================================================================
