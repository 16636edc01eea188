------------------------------ MODULE Overlay -------------------------------
(***************************************************************************)
(* The overlay of OverlayPlan under a roster that grows as members are     *)
(* enrolled, one policy at a time.  No code takes a member out of one.     *)
(***************************************************************************)
EXTENDS OverlayPlan

CONSTANTS
  Candidates,       \* members that may be enrolled
  MaxRoster         \* MAX_GROUP_MEMBERS

VARIABLE roster

OverlayInit == \E m \in Candidates : roster = {m}

Enrol(member) ==
  /\ member \notin roster
  /\ Cardinality(roster) < MaxRoster
  /\ roster' = roster \cup {member}

OverlayNext == \E member \in Candidates : Enrol(member)

OverlaySpec == OverlayInit /\ [][OverlayNext]_roster

-----------------------------------------------------------------------------
(* Two phones that hold the same roster agree on every edge although each  *)
(* computes its own plan: "Derives the same sparse overlay on every        *)
(* member".  No plan asks for more than two Wi-Fi Aware links or a link to *)
(* oneself, the Bluetooth edge is a distinct one, and the Wi-Fi Aware      *)
(* edges alone connect the group: no proper part of it keeps all of its    *)
(* edges to itself.                                                        *)
PlansAgree ==
  /\ \A a \in roster :
       /\ a \notin Neighbors(a, roster)
       /\ Cardinality(WifiAware(a, roster)) <= 2
       /\ BluetoothFallback(a, roster) \cap WifiAware(a, roster) = {}
       /\ \A b \in WifiAware(a, roster) : a \in WifiAware(b, roster)
       /\ \A b \in BluetoothFallback(a, roster) : a \in BluetoothFallback(b, roster)
  /\ \A part \in (SUBSET roster) \ {{}} :
       UNION {WifiAware(a, roster) : a \in part} \subseteq part => part = roster

(* The audiences of a group message are a partition of the other members   *)
(* into sets an object can address, as few as possible, in the order of    *)
(* the members.                                                            *)
AudiencesPartition ==
  \A local \in roster :
    LET audiences == BroadcastAudiences(local, roster)
        ks == DOMAIN audiences
    IN  /\ UNION {audiences[k] : k \in ks} = roster \ {local}
        /\ \A k \in ks : Cardinality(audiences[k]) \in 1 .. MaxTargets
        /\ \A j, k \in ks : j < k =>
             /\ Cardinality(audiences[j]) = MaxTargets
             /\ \A a \in audiences[j], b \in audiences[k] : a < b
=============================================================================
