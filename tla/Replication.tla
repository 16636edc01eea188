---------------------------- MODULE Replication ----------------------------
(***************************************************************************)
(* The reducers of crates/mesh-replication that a phone runs beside its    *)
(* relay gate: the presence table, the plans of the overlay, the flooding  *)
(* of a frame over it and the choice of a bearer.  They share no state.    *)
(***************************************************************************)
EXTENDS Presence, Overlay, RelayTopology

CONSTANTS Sender, Peers, Slots, MaxEta, ReceivedFrom   \* transport selection

VARIABLES candidates, current, decision                \* transport selection

Tran == INSTANCE Transport WITH Local <- Sender

(* An attempt takes a sound and steady bearer (Transport.tla).             *)
SendsWell == Tran!SendsWell
=============================================================================
