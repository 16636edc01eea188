---------------------------- MODULE MCAuthority -----------------------------
(* Instances of Authority for TLC.                                         *)
EXTENDS Authority, TLC

(* Phones that found no group are interchangeable.                         *)
Interchangeable == Permutations(Phones \ Founders)
=============================================================================
