----------------------------- MODULE MCEnqueue ------------------------------
(* Instances of Enqueue for TLC.                                           *)
EXTENDS Enqueue

(* Three members; one or the other has left; nobody else; no valid policy. *)
MCRosters == {{1, 2, 3}, {1, 2}, {1, 3}, {1}, {}}
=============================================================================
