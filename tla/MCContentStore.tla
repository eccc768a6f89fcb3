--------------------------- MODULE MCContentStore ---------------------------
(* A small instance of ContentStore. *)
EXTENDS ContentStore, TLC

Symmetry == Permutations(Writers)
=============================================================================
