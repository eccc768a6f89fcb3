--------------------------- MODULE MCRunLifecycle ---------------------------
(* Small instances of RunLifecycle. *)
EXTENDS RunLifecycle, TLC

Symmetry == Permutations(Requesters)

\* The run is disturbed in these states, by every exceptional command; in the
\* terminal ones none is valid.
Disturbed ==
  {"INTENT_REVIEW", "ACCEPTING", "RECONCILIATION_REQUIRED", "INTERRUPTED"} \union TerminalStates
UsedTransitions ==
  [s \in States |->
    { move[2] : move \in { t \in ForwardTransitions : t[1] = s } }
      \union (IF s \in Disturbed THEN { e[1] : e \in ExceptionalTransitions } ELSE {})]
=============================================================================
