----------------------------- MODULE MCRunStore -----------------------------
(* Small instances of RunStore. *)
EXTENDS RunStore

\* A forward move, and the shortest way to a terminal state.
Forward == { <<"bind_repository", "REPOSITORY_READY">> }
ForwardAndFail == Forward \union { <<"fail", "FAILED">> }

WritingOps == {"run", "reject", "cancel", "advance"}
UsedOps == WritingOps \union {"resume"}
=============================================================================
