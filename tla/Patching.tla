------------------------------ MODULE Patching ------------------------------
(***************************************************************************)
(* The file-writing tools of _tool_protocol.py, atomic_write and           *)
(* apply_patch_set, step by step on a tree that other calls change too.  A *)
(* request is a sequence of operations on names; fs.write_file is the      *)
(* one-operation request "WriteFile", which has neither a base snapshot    *)
(* nor backups.  Digests are the contents they identify.  Nobody makes or  *)
(* removes a link.                                                         *)
(***************************************************************************)
EXTENDS Naturals, Sequences

CONSTANTS Callers, Requests, Empty, None,
          Files,        \* the places where a file may be
          Ignored,      \* those that Git neither tracks nor shows as untracked
          Links,        \* place of a link -> the place it leads to
          Directories,  \* the places of the directories there are at first
          Exclusive,  \* one call at a time is at work
          Faults,     \* what may go wrong: subset of {"operation", "restore", "crash"}
          MaxCalls    \* bound on the calls of a caller

VARIABLES
  repository, \* the root is a Git repository
  disk,     \* file -> content and mode, or NoFile
  dirs,     \* the places of the directories
  temps,    \* the callers whose temporary file lies in the tree
  pc,       \* caller -> where it is
  ops,      \* caller -> its request; from the preflight on, on places
  base,     \* caller -> the snapshot its request was prepared against
  seen,     \* caller -> the canonical names of its request
  index,    \* caller -> the operation it is at
  backups,  \* caller -> file -> what the file was before the first mutation
  answer,   \* caller -> how its last call ended
  calls     \* caller -> calls made

vars == <<repository, disk, dirs, temps, pc, ops, base, seen, index, backups, answer, calls>>
request == <<repository, ops, base, seen, calls>>

Paths == INSTANCE RepoPaths WITH Refused <- None

Shown == { f \in Files \ Ignored : Paths!Inside(f) }
Tree == INSTANCE PatchTree WITH tree <- disk
NoFile == Tree!NoFile
Op(c) == ops[c][index[c]]

\* capture_repository_snapshot: the tracked files and the untracked ones that
\* are not ignored, a temporary file among them (one beside an ignored file is
\* ignored too).  HEAD, the index and the links do not change here.
Snapshot == [files |-> Tree!Look(disk),
             temps |-> { c \in temps : Op(c).path \notin Ignored }]

There == dirs \union { f \in Files : disk[f] # NoFile }
NoBackups == <<>>

Kinds == {"CreateFile", "ModifyFile", "DeleteFile", "RenameFile", "SetExecutable", "WriteFile"}
Fields == {"kind", "path", "from", "preimage", "content", "expected", "new"}

ASSUME PatchingAssumption ==
  /\ Exclusive \in BOOLEAN /\ MaxCalls \in Nat
  /\ Faults \subseteq {"operation", "restore", "crash"}
  /\ Files \intersect Directories = {} /\ Ignored \subseteq Files
  /\ \A link \in DOMAIN Links : Paths!Resolve(Links[link]) = Links[link]
  /\ \A ask \in Requests :
       /\ Len(ask) \in Nat \ {0} /\ ask = [i \in 1..Len(ask) |-> ask[i]]
       /\ \A i \in DOMAIN ask :
            /\ DOMAIN ask[i] = Fields /\ ask[i].kind \in Kinds
            /\ ask[i].kind = "RenameFile" <=> ask[i].from # None
            /\ ask[i].kind = "WriteFile" => Len(ask) = 1

Init ==
  /\ repository \in BOOLEAN
  /\ disk \in [Files -> [content : {Empty}, mode : {"plain"}] \union {NoFile}]
  /\ dirs = Directories
  /\ \A f \in Files : disk[f] # NoFile => Paths!Parents(f) \subseteq dirs
  /\ temps = {}
  /\ pc = [c \in Callers |-> "idle"]
  /\ ops = [c \in Callers |-> <<>>]
  /\ seen = [c \in Callers |-> {}]
  /\ index = [c \in Callers |-> 1]
  /\ base = [c \in Callers |-> Snapshot]
  /\ backups = [c \in Callers |-> NoBackups]
  /\ answer = [c \in Callers |-> "none"]
  /\ calls = [c \in Callers |-> 0]

GoTo(c, label) == pc' = [pc EXCEPT ![c] = label]
Answer(c, code) ==
  /\ answer' = [answer EXCEPT ![c] = code]
  /\ GoTo(c, "idle")
  /\ backups' = [backups EXCEPT ![c] = NoBackups]

\* The next operation, or what follows the last one.
Advance(c, label) ==
  IF index[c] < Len(ops[c])
  THEN index' = [index EXCEPT ![c] = @ + 1] /\ UNCHANGED pc
  ELSE index' = [index EXCEPT ![c] = 1] /\ GoTo(c, label)

-----------------------------------------------------------------------------
(* Preconditions.                                                           *)

Prepare(c, request_ops) ==
  /\ pc[c] = "idle" /\ calls[c] < MaxCalls
  /\ ops' = [ops EXCEPT ![c] = request_ops]
  /\ base' = [base EXCEPT ![c] = Snapshot]
  /\ calls' = [calls EXCEPT ![c] = @ + 1]
  /\ seen' = [seen EXCEPT ![c] = {}]
  /\ index' = [index EXCEPT ![c] = 1]
  /\ answer' = [answer EXCEPT ![c] = "none"]
  /\ GoTo(c, "prepared")
  /\ UNCHANGED <<repository, disk, dirs, temps, backups>>

\* Mutant: the candidate is not compared with the base snapshot.
StartUnchecked(c) ==
  /\ pc[c] = "prepared"
  /\ Exclusive => \A d \in Callers : pc[d] \in {"idle", "prepared", "dead"}
  /\ GoTo(c, "preflight")
  /\ UNCHANGED <<disk, dirs, temps, request, index, backups, answer>>

\* The call starts: a snapshot of the candidate must be the one the PatchSet was
\* made for, and may be unavailable.
CheckSnapshot(c) ==
  /\ pc[c] = "prepared"
  /\ Exclusive => \A d \in Callers : pc[d] \in {"idle", "prepared", "dead"}
  /\ LET compared == repository /\ Op(c).kind # "WriteFile" IN
     \/ (compared => base[c] = Snapshot) /\ GoTo(c, "preflight") /\ UNCHANGED <<answer, backups>>
     \/ compared /\ Answer(c, "refused")
  /\ UNCHANGED <<disk, dirs, temps, request, index>>

\* What an operation is planned as: its names normalized against the tree there
\* is, its places where these names lead.
Named(op) == [raw \in Tree!Names(op) |-> Paths!NormalizeRepoPath(raw, There)]
At(op, path, from) == [op EXCEPT !.path = path, !.from = from]
Planned(op) ==
  At(op, Paths!Resolve(Named(op)[op.path]),
     IF op.kind = "RenameFile" THEN Paths!Resolve(Named(op)[op.from]) ELSE op.from)

\* No name is refused or was named before, and the files are what they must be.
\* (atomic_write by itself makes no directory behind a link that leads nowhere.)
Acceptable(c, op) ==
  /\ \A raw \in Tree!Names(op) :
       /\ Named(op)[raw] # None
       /\ Named(op)[raw] \notin seen[c]
       /\ op.kind = "WriteFile" => Named(op)[raw] = Paths!Resolve(Named(op)[raw])
  /\ op.kind = "RenameFile" => Named(op)[op.from] # Named(op)[op.path]
  /\ Tree!Names(Planned(op)) \intersect dirs = {}
  /\ Tree!Fits(Planned(op), disk)

Preflight(c) ==
  /\ pc[c] = "preflight"
  /\ IF Acceptable(c, Op(c))
     THEN /\ Advance(c, IF Op(c).kind = "WriteFile" THEN "apply" ELSE "backup")
          /\ ops' = [ops EXCEPT ![c][index[c]] = Planned(@)]
          /\ seen' = [seen EXCEPT ![c] = @ \union {Named(Op(c))[raw] : raw \in Tree!Names(Op(c))}]
          /\ UNCHANGED <<answer, backups>>
     ELSE Answer(c, "refused") /\ UNCHANGED <<index, ops, seen>>
  /\ UNCHANGED <<disk, dirs, temps, repository, base, calls>>

\* Mutant: only the file an operation starts from is backed up.
BackupSource(c) ==
  /\ pc[c] = "backup"
  /\ backups' = [backups EXCEPT ![c] =
       [f \in DOMAIN @ \union {Tree!Source(Op(c))} |->
          IF f \in DOMAIN @ THEN @[f] ELSE disk[f]]]
  /\ Advance(c, "apply")
  /\ UNCHANGED <<disk, dirs, temps, request, answer>>

Backup(c) ==
  /\ pc[c] = "backup"
  /\ backups' = [backups EXCEPT ![c] =
       [f \in DOMAIN @ \union Tree!Names(Op(c)) |->
          IF f \in DOMAIN @ THEN @[f] ELSE disk[f]]]
  /\ Advance(c, "apply")
  /\ UNCHANGED <<disk, dirs, temps, request, answer>>

-----------------------------------------------------------------------------
(* Mutation.                                                                *)

Writes == {"CreateFile", "ModifyFile", "WriteFile"}

\* Missing directories are made, unless a file is in the way.
Makeable(place) == \A f \in Paths!Parents(place) \intersect Files : disk[f] = NoFile

\* os.replace, unlink, chmod: what an operation starts from must exist, whatever
\* it now holds, and what it writes must have a place to lie.
Possible(op) ==
  /\ op.kind \notin Writes => disk[Tree!Source(op)] # NoFile
  /\ op.kind \in Writes => Paths!Inside(op.path)
  /\ op.kind \in Writes \union {"RenameFile"} => op.path \notin dirs /\ Makeable(op.path)

MakeDirectories(place) == dirs' = dirs \union Paths!Parents(place)

\* atomic_write: the content goes to a temporary file beside the target first.
Stage(c) ==
  /\ pc[c] = "apply" /\ Op(c).kind \in Writes /\ c \notin temps /\ Possible(Op(c))
  /\ MakeDirectories(Op(c).path)
  /\ temps' = temps \union {c}
  /\ UNCHANGED <<disk, pc, request, index, backups, answer>>

ApplyOperation(c) ==
  /\ pc[c] = "apply" /\ (Op(c).kind \in Writes <=> c \in temps) /\ Possible(Op(c))
  /\ disk' = Tree!Effect(Op(c), disk)
  /\ IF Op(c).kind = "RenameFile" THEN MakeDirectories(Op(c).path) ELSE UNCHANGED dirs
  /\ temps' = temps \ {c}
  /\ IF index[c] < Len(ops[c])
     THEN index' = [index EXCEPT ![c] = @ + 1] /\ UNCHANGED <<pc, answer, backups>>
     ELSE Answer(c, "applied") /\ UNCHANGED index
  /\ UNCHANGED request

\* Mutant: no finally around the replacement.
FailLeavingTemp(c) ==
  /\ pc[c] = "apply"
  /\ "operation" \in Faults \/ ~ Possible(Op(c))
  /\ GoTo(c, "rollback")
  /\ UNCHANGED <<disk, dirs, temps, request, index, backups, answer>>

\* An operation raises: its temporary file is removed and every touched file
\* restored; directories that were made for it stay.
FailOperation(c) ==
  /\ pc[c] = "apply"
  /\ "operation" \in Faults \/ ~ Possible(Op(c))
  /\ \/ UNCHANGED dirs
     \/ Op(c).kind = "RenameFile" /\ Possible(Op(c)) /\ MakeDirectories(Op(c).path)
  /\ temps' = temps \ {c}
  /\ GoTo(c, "rollback")
  /\ UNCHANGED <<disk, request, index, backups, answer>>

Restorable(c, f) == f \notin dirs /\ (backups[c][f] # NoFile => Makeable(f))

\* (write_bytes truncates before it writes; only a crash could show it.)
Restore(c, f) ==
  /\ pc[c] = "rollback" /\ f \in DOMAIN backups[c] /\ Restorable(c, f)
  /\ disk' = [disk EXCEPT ![f] = backups[c][f]]
  /\ IF backups[c][f] = NoFile THEN UNCHANGED dirs ELSE MakeDirectories(f)
  /\ backups' = [backups EXCEPT ![c] = [g \in DOMAIN @ \ {f} |-> @[g]]]
  /\ UNCHANGED <<temps, pc, request, index, answer>>

EndRollback(c) ==
  /\ pc[c] = "rollback" /\ DOMAIN backups[c] = {}
  /\ Answer(c, "raised")
  /\ UNCHANGED <<disk, dirs, temps, request, index>>

\* Restoring raises: the remaining files stay as they are, and the exception is
\* no longer the operation's.
FailRestore(c) ==
  /\ pc[c] = "rollback" /\ DOMAIN backups[c] # {}
  /\ "restore" \in Faults \/ \E f \in DOMAIN backups[c] : ~Restorable(c, f)
  /\ Answer(c, "broken")
  /\ UNCHANGED <<disk, dirs, temps, request, index>>

\* The process dies; its temporary file stays.
Crash(c) ==
  /\ "crash" \in Faults /\ pc[c] \notin {"idle", "dead"}
  /\ GoTo(c, "dead")
  /\ UNCHANGED <<disk, dirs, temps, request, index, backups, answer>>

Next == \E c \in Callers :
  \/ \E o \in Requests : Prepare(c, o)
  \/ CheckSnapshot(c) \/ Preflight(c) \/ Backup(c)
  \/ Stage(c) \/ ApplyOperation(c) \/ FailOperation(c)
  \/ \E f \in Files : Restore(c, f)
  \/ EndRollback(c) \/ FailRestore(c) \/ Crash(c)

Spec == Init /\ [][Next]_vars

-----------------------------------------------------------------------------
(* Properties.                                                              *)

\* apply_patch_set's docstring: whatever operation fails, a PatchSet changes
\* the whole tree or none of it, and its answer tells which, unless its process
\* dies or the restoration fails (PatchTree).  In a Git repository the tree it
\* changes is, as far as a snapshot shows it, the one the PatchSet was made for,
\* whatever other calls applied, left half done or left behind meanwhile; what
\* a snapshot does not show, ignored files and modes but for the execute bit,
\* is only what each operation's own precondition asks for.  A file counts as
\* it was until the call has answered or died.
Holds(c, f) == pc[c] # "dead" /\ f \in DOMAIN backups[c]
Settled ==
  [f \in Files |->
     IF \E c \in Callers : Holds(c, f)
     THEN backups[CHOOSE c \in Callers : Holds(c, f)][f] ELSE disk[f]]
Told == [c \in Callers |-> IF pc[c] = "dead" THEN "broken" ELSE answer[c]]
\* Where a name leads, whatever exists.
Place(raw) == Paths!Resolve(Paths!Collapse(raw))
PlannedRequest(ask) ==
  [i \in DOMAIN ask |->
     At(ask[i], Place(ask[i].path),
        IF ask[i].kind = "RenameFile" THEN Place(ask[i].from) ELSE ask[i].from)]
PlannedRequests == { PlannedRequest(ask) : ask \in Requests }
Bases == [c \in Callers |-> base[c].files]
Promise == INSTANCE PatchTree WITH tree <- Settled, answer <- Told, base <- Bases,
                                   Requests <- PlannedRequests
ImplementsPatchTree == Promise!Spec

\* A call that has answered leaves no temporary file in the candidate, or the
\* next snapshot would count it as an untracked file.
NoTempLeft == \A c \in Callers : pc[c] = "idle" => c \notin temps

\* A call changes no file but those of the canonical names policy was asked about
\* and the call answers with, whatever links its names lead through and whatever
\* directories come into being meanwhile; and none outside the root.  (No name
\* here passes a link that leads nowhere.)
ChangesWhatItNames ==
  [][\A f \in Files : disk'[f] # disk[f] =>
       Paths!Inside(f) /\ \E c \in Callers : pc[c] \in {"apply", "rollback"} /\ f \in seen[c]]_vars
=============================================================================
