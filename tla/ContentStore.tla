---------------------------- MODULE ContentStore ----------------------------
(***************************************************************************)
(* Installing content-addressed objects: ContentAddressedStore.put of      *)
(* _side_effects.py and the artifacts of _output (_tool_protocol.py), step *)
(* by step, by processes that fail, die or lose power with the host.  A    *)
(* path is named by the digest of the only bytes that belong there, so a   *)
(* file is reduced to what they are: whole, partial or rotten.  The file   *)
(* system is external: bytes that were not synced may be found partial     *)
(* after a power loss, an entry that was not synced may not be found.      *)
(***************************************************************************)
EXTENDS FiniteSets

CONSTANTS Writers,
          PutPaths,     \* where put installs
          OutputPaths,  \* where _output installs
          Rooted        \* the paths whose directory was there, and synced

ASSUME ContentStoreAssumption ==
  /\ PutPaths \intersect OutputPaths = {}
  /\ "nothing" \notin PutPaths \union OutputPaths

VARIABLES
  object,  \* path -> the file found there: "none", "whole", "partial", "rotten"
  kept,    \* path -> the files that may be found there after a power loss
  pc,      \* writer -> where it is in its call
  path,    \* writer -> the path of its call
  temp,    \* writer -> its temporary file: "none", "written" or "synced"
  answer,  \* writer -> how its last call ended
  synced   \* history: the paths put has synced in a directory of Rooted

vars == <<object, kept, pc, path, temp, answer, synced>>

Paths == PutPaths \union OutputPaths

\* verify: the file is there and has the digest its path names.
Whole(p) == object[p] = "whole"

Init ==
  /\ object = [p \in Paths |-> "none"]
  /\ kept = [p \in Paths |-> {"none"}]
  /\ pc = [w \in Writers |-> "idle"]
  /\ path \in [Writers -> Paths]
  /\ temp = [w \in Writers |-> "none"]
  /\ answer = [w \in Writers |-> "none"]
  /\ synced = {}

GoTo(w, label) == pc' = [pc EXCEPT ![w] = label]

\* The call ends; its temporary file, if it is still there, is unlinked.
End(w, code) ==
  /\ GoTo(w, "idle")
  /\ answer' = [answer EXCEPT ![w] = code]
  /\ temp' = [temp EXCEPT ![w] = "none"]

-----------------------------------------------------------------------------
(* One call. *)

Begin(w, p) ==
  /\ pc[w] = "idle"
  /\ path' = [path EXCEPT ![w] = p] /\ answer' = [answer EXCEPT ![w] = "none"]
  /\ GoTo(w, "look")
  /\ UNCHANGED <<object, kept, temp, synced>>

\* Mutant: put takes what it finds for the object, too.
LookUnread(w) ==
  /\ pc[w] = "look"
  /\ GoTo(w, IF object[path[w]] = "none" THEN "write" ELSE "answer")
  /\ UNCHANGED <<object, kept, path, temp, answer, synced>>

\* target.exists(): put reads what it finds, _output takes it for the object.
Look(w) ==
  /\ pc[w] = "look"
  /\ GoTo(w, IF object[path[w]] = "none" THEN "write"
             ELSE IF path[w] \in PutPaths THEN "compare" ELSE "answer")
  /\ UNCHANGED <<object, kept, path, temp, answer, synced>>

Write(w) ==
  /\ pc[w] = "write"
  /\ temp' = [temp EXCEPT ![w] = "written"] /\ GoTo(w, "sync")
  /\ UNCHANGED <<object, kept, path, answer, synced>>

\* Mutant: the bytes get their name before they are synced.
SyncNothing(w) ==
  /\ pc[w] = "sync" /\ GoTo(w, "replace")
  /\ UNCHANGED <<object, kept, path, temp, answer, synced>>

SyncFile(w) ==
  /\ pc[w] = "sync"
  /\ temp' = [temp EXCEPT ![w] = "synced"] /\ GoTo(w, "replace")
  /\ UNCHANGED <<object, kept, path, answer, synced>>

\* os.replace: what was found there before may be found there again.
Replace(w) ==
  /\ pc[w] = "replace"
  /\ object' = [object EXCEPT ![path[w]] = "whole"]
  /\ kept' = [kept EXCEPT ![path[w]] =
       @ \union {"whole"} \union IF temp[w] = "synced" THEN {} ELSE {"partial"}]
  /\ temp' = [temp EXCEPT ![w] = "none"]
  /\ GoTo(w, IF path[w] \in PutPaths THEN "sync directory" ELSE "answer")
  /\ UNCHANGED <<path, answer, synced>>

\* Mutant: the file's own sync is taken to be enough.
SyncNoDirectory(w) ==
  /\ pc[w] = "sync directory" /\ GoTo(w, "compare")
  /\ synced' = synced \union ({path[w]} \intersect Rooted)
  /\ UNCHANGED <<object, kept, path, temp, answer>>

\* os.fsync of the directory: the entry stays, as far as the directory does.
\* Where it fails or is not to be had put goes on without.
SyncDirectory(w) ==
  /\ pc[w] = "sync directory" /\ GoTo(w, "compare")
  /\ \/ /\ path[w] \in Rooted
        /\ kept' = [kept EXCEPT ![path[w]] = @ \ {"none"}]
        /\ synced' = synced \union {path[w]}
     \/ UNCHANGED <<kept, synced>>
  /\ UNCHANGED <<object, path, temp, answer>>

\* put reads back what it found or installed.
Compare(w) ==
  /\ pc[w] = "compare"
  /\ End(w, IF Whole(path[w]) THEN "stored" ELSE "corrupt")
  /\ UNCHANGED <<object, kept, path, synced>>

Answer(w) ==
  /\ pc[w] = "answer" /\ End(w, "stored")
  /\ UNCHANGED <<object, kept, path, synced>>

\* A call of the operating system raises; the finally clause cleans up.
Fail(w) ==
  /\ pc[w] \in {"look", "compare", "write", "sync", "replace"}
  /\ End(w, "raised")
  /\ UNCHANGED <<object, kept, path, synced>>

-----------------------------------------------------------------------------
(* The environment. *)

\* The process is killed: nothing cleans up, the temporary file is litter
\* under a name of its own that no later call looks at.
Die(w) ==
  /\ pc[w] # "idle"
  /\ GoTo(w, "idle") /\ temp' = [temp EXCEPT ![w] = "none"]
  /\ UNCHANGED <<object, kept, path, answer, synced>>

PowerLoss ==
  /\ object' \in [Paths -> {"none", "whole", "partial", "rotten"}]
  /\ \A p \in Paths : object'[p] \in kept[p]
  /\ kept' = [p \in Paths |-> {object'[p]}]
  /\ pc' = [w \in Writers |-> "idle"]
  /\ temp' = [w \in Writers |-> "none"]
  /\ answer' = [w \in Writers |-> "none"]
  /\ UNCHANGED <<path, synced>>

\* Something else truncates or overwrites an installed file.
Rot(p) ==
  /\ object[p] # "none"
  /\ object' = [object EXCEPT ![p] = "rotten"]
  /\ kept' = [kept EXCEPT ![p] = @ \union {"rotten"}]
  /\ UNCHANGED <<pc, path, temp, answer, synced>>

Step(w) ==
  \/ \E p \in Paths : Begin(w, p)
  \/ Look(w) \/ Write(w) \/ SyncFile(w) \/ Replace(w) \/ SyncDirectory(w)
  \/ Compare(w) \/ Answer(w) \/ Fail(w) \/ Die(w)

Next ==
  \/ \E w \in Writers : Step(w)
  \/ \E p \in Paths : Rot(p)
  \/ PowerLoss

Spec == Init /\ [][Next]_vars

-----------------------------------------------------------------------------
(* Properties. *)

\* No interleaving of puts, deaths and power losses ever leaves part of an
\* object at its digest path: the bytes are synced before os.replace gives
\* them their name, so a later put never finds its own crash as corruption.
ObjectsWhole == \A p \in Paths : object[p] # "partial"

\* An object put has synced into a directory that itself lasts is still
\* there after every later power loss, whoever replaced it since.
InstalledSurvives == \A p \in synced : object[p] # "none"

\* The store is an ObjectStore: objects appear at once, and put answers
\* "stored" for bytes it has found whole and "corrupt" for others only.
Store == INSTANCE ObjectStore WITH
  store <- object, lasting <- synced, reply <- answer,
  pending <- [w \in Writers |-> IF pc[w] = "idle" THEN "nothing" ELSE path[w]]

ImplementsStore == Store!Spec
=============================================================================
