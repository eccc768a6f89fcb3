----------------------------- MODULE PatchTree -----------------------------
(***************************************************************************)
(* What a PatchSet promises (Blueprint 9.14.5): it is validated as a whole *)
(* against the tree and then changes the tree in one step, or it changes   *)
(* nothing and says so.  In a Git repository the tree it changes is, as far *)
(* as a snapshot sees it, the one it was made for.  A call that dies, or    *)
(* whose restoration fails, may leave each of its files old or new.         *)
(* Patching implements this while one call at a time is at work.            *)
(***************************************************************************)
EXTENDS Naturals, Sequences

CONSTANTS Callers, Files,
          Shown,     \* the files a snapshot of the repository shows
          Requests,  \* the requests callers make: sequences of operations
          Empty,     \* the bytes of an empty file
          None       \* Python's None

VARIABLES tree,       \* file -> its content and mode, or NoFile
          repository, \* the root is a Git repository
          base,       \* caller -> the snapshot its request was made for
          answer      \* caller -> how its last call ended

vars == <<tree, repository, base, answer>>

\* content_digest(current or b""): an absent file looks like an empty one.
NoFile == [content |-> Empty, mode |-> "absent"]

\* What a snapshot shows of the files: of a mode only whether it is executable.
Look(files) ==
  [f \in Shown |-> [files[f] EXCEPT !.mode = IF @ = "private" THEN "plain" ELSE @]]

\* The file an operation starts from, and every file it names.
Source(op) == IF op.kind = "RenameFile" THEN op.from ELSE op.path
Names(op) == {Source(op), op.path}

\* The preconditions of one operation.
Fits(op, files) ==
  LET file == files[Source(op)] IN
  /\ op.kind = "CreateFile" => file = NoFile
  /\ op.kind \in {"ModifyFile", "DeleteFile", "RenameFile"} =>
       op.preimage # None /\ file # NoFile
  /\ op.preimage # None => file.content = op.preimage
  /\ op.kind = "RenameFile" => files[op.path] = NoFile
  /\ op.kind = "SetExecutable" => file # NoFile /\ file.mode = op.expected

\* No file is named twice, by one operation or by two.
NamesDiffer(op) == op.kind = "RenameFile" => op.from # op.path
Disjoint(ops, i) ==
  NamesDiffer(ops[i]) /\ \A j \in 1..(i - 1) : Names(ops[i]) \intersect Names(ops[j]) = {}

Valid(ops, files) == \A i \in DOMAIN ops : Disjoint(ops, i) /\ Fits(ops[i], files)

\* mkstemp makes the file that replaces the old one: whatever is written
\* becomes private.
Effect(op, files) ==
  CASE op.kind \in {"CreateFile", "ModifyFile", "WriteFile"} ->
         [files EXCEPT ![op.path] = [content |-> op.content, mode |-> "private"]]
    [] op.kind = "DeleteFile"    -> [files EXCEPT ![op.path] = NoFile]
    [] op.kind = "SetExecutable" -> [files EXCEPT ![op.path].mode = op.new]
    [] op.kind = "RenameFile"    ->
         [files EXCEPT ![op.path] = files[op.from], ![op.from] = NoFile]

\* The tree after operations on disjoint files.
After(ops, files) ==
  [f \in Files |->
     IF \E i \in DOMAIN ops : f \in Names(ops[i])
     THEN LET i == CHOOSE i \in DOMAIN ops : f \in Names(ops[i])
          IN Effect(ops[i], files)[f]
     ELSE files[f]]

Init ==
  /\ tree \in [Files -> [content : {Empty}, mode : {"plain"}] \union {NoFile}]
  /\ repository \in BOOLEAN
  /\ base = [c \in Callers |-> Look(tree)]
  /\ answer = [c \in Callers |-> "none"]

Answer(c, code) == answer' = [answer EXCEPT ![c] = code] /\ UNCHANGED repository

\* A request may be made for whatever was seen, while another call was at work too.
Begin(c) ==
  /\ Answer(c, "none")
  /\ base' = [base EXCEPT ![c] = base'[c]]
  /\ UNCHANGED tree

Apply(c, ops) ==
  /\ answer[c] = "none" /\ Valid(ops, tree)
  /\ repository /\ ops[1].kind # "WriteFile" => base[c] = Look(tree)
  /\ tree' = After(ops, tree)
  /\ Answer(c, "applied") /\ UNCHANGED base

Refuse(c) ==
  /\ answer[c] = "none"
  /\ \E code \in {"refused", "raised"} : Answer(c, code)
  /\ UNCHANGED <<tree, base>>

Break(c, ops) ==
  /\ answer[c] # "broken"
  /\ \E kept \in SUBSET UNION { Names(ops[i]) : i \in DOMAIN ops } :
       tree' = [f \in Files |-> IF f \in kept THEN tree[f] ELSE After(ops, tree)[f]]
  /\ Answer(c, "broken") /\ UNCHANGED base

Next == \E c \in Callers :
  Begin(c) \/ Refuse(c) \/ \E ops \in Requests : Apply(c, ops) \/ Break(c, ops)

Spec == Init /\ [][Next]_vars
=============================================================================
