----------------------------- MODULE MCPatching -----------------------------
(* A small instance of Patching: two files, one in a directory that is also *)
(* reached through a link, a link to the other file and one out of the      *)
(* root, two places that directories have to be made for, one of them       *)
(* ignored, and requests of each kind, one that changes a mode alone.       *)
EXTENDS Patching, TLC

CONSTANT x

f == <<"f">>
g == <<"d", "g">>
SomeFiles == {f, g, <<"n", "h">>, <<"f", "y">>, <<"..", "o">>}
SomeIgnored == {<<"n", "h">>}
SomeDirectories == {<<>>, <<"d">>, <<"..">>}
SomeLinks == <<"l">> :> <<"d">> @@ <<"k">> :> f @@ <<"e">> :> <<"..">>

Operation(kind, path) ==
  [kind |-> kind, path |-> path, from |-> None, preimage |-> None, content |-> x,
   expected |-> None, new |-> None]
Checked(kind, path) == [Operation(kind, path) EXCEPT !.preimage = Empty]
Rename(from, path) == [Checked("RenameFile", path) EXCEPT !.from = from]
MakeExecutable(path) ==
  [Operation("SetExecutable", path) EXCEPT !.expected = "plain", !.new = "exec"]

PatchSets ==
  { <<Checked("ModifyFile", <<"l", "g">>), Checked("DeleteFile", f)>>,
    <<Rename(f, <<"n", "h">>), Checked("ModifyFile", g)>>,
    <<MakeExecutable(<<"k">>), Operation("CreateFile", <<"n", "h">>)>>,
    <<Checked("DeleteFile", f), Operation("CreateFile", <<"f", "y">>)>>,
    <<Checked("ModifyFile", f), Checked("DeleteFile", <<"k">>)>>,
    <<Checked("ModifyFile", f), Operation("CreateFile", <<"e", "o">>)>> }
Writings ==
  { <<[Operation("WriteFile", <<"l", "..", "f">>) EXCEPT !.content = Empty]>>,
    <<Checked("WriteFile", g)>> }

AllRequests == PatchSets \union Writings

\* What any operation may have made or removed when a name is looked at.
Made == UNION { { SubSeq(name, 1, n) : n \in 0..Len(name) } : name \in Files \union Directories }

\* Names lead to one place of the instance, whatever else there is: a constant
\* expression, TRUE here.
NamesAreDirect ==
  \A ask \in Requests : \A i \in DOMAIN ask : \A raw \in Tree!Names(ask[i]) :
    /\ Place(raw) \in Files \union Directories
    /\ Paths!Resolve(Place(raw)) = Place(raw)
    /\ \A made \in SUBSET Made :
         Paths!NormalizeRepoPath(raw, Directories \union made) \in {None, Place(raw)}
=============================================================================
