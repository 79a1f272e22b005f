----------------------------- MODULE MCMyMalloc -----------------------------
(* Small heaps and clients for MyMalloc. *)
EXTENDS MyMalloc, TLC

Symmetry == Permutations(Slots)
=============================================================================
