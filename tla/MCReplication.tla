---------------------------- MODULE MCReplication ---------------------------
(***************************************************************************)
(* Instances of the reducers of crates/mesh-replication for TLC.  They     *)
(* share no state, so each behaviour exercises one of them (part) and      *)
(* leaves the others in their initial state.                               *)
(***************************************************************************)
EXTENDS RelayCache, Replication

VARIABLE part

transport == <<candidates, current, decision>>

(* Keys expire at different times, one of them before the last tick.       *)
MCExpires == [k \in Keys |-> IF k[1] = "a" THEN 2 ELSE IF k[2] = 1 THEN 3 ELSE 5]

Heartbeat(member, incarnation, sequence, expires_at) ==
  [member |-> member, version |-> <<incarnation, sequence>>, expires_at |-> expires_at]

(* "a" restarted between its two heartbeats; the older one outlives its    *)
(* place in the table.                                                     *)
MCRecords == {Heartbeat("a", 1, 2, 5), Heartbeat("a", 2, 1, 2), Heartbeat("b", 1, 1, 3)}

(* Every even roster of the field profile.                                 *)
MCOrderedSizes == {n \in 4 .. 50 : n % 2 = 0}

PartInit ==
  /\ part \in {"gate", "presence", "overlay", "topology", "transport"}
  /\ Init
  /\ PresenceInit
  /\ IF part = "overlay" THEN OverlayInit ELSE roster = {}
  /\ TopologyInit
  /\ part # "topology" =>
       group = [nodes |-> 4, origin |-> 0, partition_until |-> 0, ordered |-> TRUE]
  /\ Tran!Init

GateStep == part = "gate" /\ Next /\ UNCHANGED <<part, presence, roster, topology, transport>>
PresenceStep ==
  part = "presence" /\ PresenceNext /\ UNCHANGED <<part, vars, roster, topology, transport>>
OverlayStep ==
  part = "overlay" /\ OverlayNext /\ UNCHANGED <<part, vars, presence, topology, transport>>
TopologyStep ==
  part = "topology" /\ TopologyNext /\ UNCHANGED <<part, vars, presence, roster, transport>>
TransportStep ==
  part = "transport" /\ Tran!Next /\ UNCHANGED <<part, vars, presence, roster, topology>>

PartNext == GateStep \/ PresenceStep \/ OverlayStep \/ TopologyStep \/ TransportStep

PartSpec == PartInit /\ [][PartNext]_<<part, vars, presence, roster, topology, transport>>
=============================================================================
