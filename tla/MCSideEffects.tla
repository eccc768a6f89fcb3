--------------------------- MODULE MCSideEffects ---------------------------
(* Small instances of SideEffects. *)
EXTENDS SideEffects, TLC

CONSTANTS t1, t2, a, f

WorkerSymmetry == Permutations(Workers)

\* Two intents that want the same approval.
OneApproval == [t \in Txns |-> a]
=============================================================================
