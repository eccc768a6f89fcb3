----------------------------- MODULE MCSnapshot -----------------------------
(* A small instance of Snapshot. *)
EXTENDS Snapshot, TLC

Symmetry == Permutations(Paths)
=============================================================================
