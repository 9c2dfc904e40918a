------------------------- MODULE MCHeadSynchronizer -------------------------
(* HeadSynchronizer for TLC: its clients are interchangeable.              *)
EXTENDS HeadSynchronizer, TLC

ClientSymmetry == Permutations(Clients)
=============================================================================
