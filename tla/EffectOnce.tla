----------------------------- MODULE EffectOnce -----------------------------
(***************************************************************************)
(* What the side-effect journal is for: an effect happens only between its *)
(* durable intent and its settlement, and at most once, whoever crashes.   *)
(* SideEffects implements this when recoveries exclude each other.         *)
(***************************************************************************)
EXTENDS Naturals

CONSTANT Txns

VARIABLES status,  \* txn -> "none", "open" or "settled"
          count    \* txn -> how often its effect was executed

vars == <<status, count>>

Init ==
  /\ status = [t \in Txns |-> "none"]
  /\ count = [t \in Txns |-> 0]

Intend(t) ==
  /\ status[t] = "none"
  /\ status' = [status EXCEPT ![t] = "open"]
  /\ UNCHANGED count

Execute(t) ==
  /\ status[t] = "open" /\ count[t] = 0
  /\ count' = [count EXCEPT ![t] = 1]
  /\ UNCHANGED status

Settle(t) ==
  /\ status[t] = "open"
  /\ status' = [status EXCEPT ![t] = "settled"]
  /\ UNCHANGED count

Next == \E t \in Txns : Intend(t) \/ Execute(t) \/ Settle(t)

Spec == Init /\ [][Next]_vars
=============================================================================
