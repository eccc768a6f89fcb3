----------------------------- MODULE ObjectStore -----------------------------
(***************************************************************************)
(* What a content-addressed store promises, over process and power         *)
(* failures: an object appears at its path whole and at once, only         *)
(* something else damages it, a caller is told of an object only when it   *)
(* is there (of one installed by put, when its bytes were read and found   *)
(* whole), and an entry that was made to last is not lost with the power.  *)
(***************************************************************************)
CONSTANTS Writers, PutPaths, OutputPaths

VARIABLES
  store,    \* path -> "none", "whole" or "rotten"
  lasting,  \* the paths whose entries outlive the power
  pending,  \* writer -> the path it asked to install, or "nothing"
  reply     \* writer -> how its last call ended

vars == <<store, lasting, pending, reply>>
Paths == PutPaths \union OutputPaths

Init ==
  /\ store = [p \in Paths |-> "none"] /\ lasting = {}
  /\ pending = [w \in Writers |-> "nothing"]
  /\ reply = [w \in Writers |-> "none"]

Ask(w, p) ==
  /\ pending[w] = "nothing"
  /\ pending' = [pending EXCEPT ![w] = p] /\ reply' = [reply EXCEPT ![w] = "none"]
  /\ UNCHANGED <<store, lasting>>

Install(w) ==
  /\ pending[w] \in Paths
  /\ store' = [store EXCEPT ![pending[w]] = "whole"]
  /\ UNCHANGED <<lasting, pending, reply>>

MakeLasting(w) ==
  /\ pending[w] \in PutPaths /\ store[pending[w]] # "none"
  /\ lasting' = lasting \union {pending[w]}
  /\ UNCHANGED <<store, pending, reply>>

Reply(w, code) ==
  /\ pending[w] \in Paths
  /\ code = "stored" => /\ store[pending[w]] # "none"
                        /\ pending[w] \in PutPaths => store[pending[w]] = "whole"
  /\ code = "corrupt" => pending[w] \in PutPaths /\ store[pending[w]] = "rotten"
  /\ pending' = [pending EXCEPT ![w] = "nothing"] /\ reply' = [reply EXCEPT ![w] = code]
  /\ UNCHANGED <<store, lasting>>

Damage(p) ==
  /\ store[p] # "none" /\ store' = [store EXCEPT ![p] = "rotten"]
  /\ UNCHANGED <<lasting, pending, reply>>

\* A process dies: its call is never answered.
Forget(w) ==
  /\ pending' = [pending EXCEPT ![w] = "nothing"]
  /\ UNCHANGED <<store, lasting, reply>>

\* The power fails: every call is forgotten, entries of before are found.
Loss ==
  /\ store' \in [Paths -> {"none", "whole", "rotten"}]
  /\ \A p \in Paths : /\ store[p] = "none" => store'[p] = "none"
                      /\ p \in lasting => store'[p] # "none"
  /\ pending' = [w \in Writers |-> "nothing"]
  /\ reply' = [w \in Writers |-> "none"]
  /\ UNCHANGED lasting

Next ==
  \/ \E w \in Writers :
       \/ \E p \in Paths : Ask(w, p)
       \/ \E code \in {"stored", "corrupt", "raised"} : Reply(w, code)
       \/ Install(w) \/ MakeLasting(w) \/ Forget(w)
  \/ \E p \in Paths : Damage(p)
  \/ Loss

Spec == Init /\ [][Next]_vars
=============================================================================
