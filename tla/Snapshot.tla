------------------------------ MODULE Snapshot ------------------------------
(***************************************************************************)
(* Repository snapshots and overlays (_repository_identity.py): a capture  *)
(* that asks Git and the file system one question after the other while    *)
(* the user goes on editing, the choice about a dirty state, the overlay   *)
(* that reads the bytes later, and its replay into a worktree made from    *)
(* the base commit.  A content stands for a file's kind, mode and bytes.   *)
(* Git is external: operators on its repository say what its commands      *)
(* answer.  Submodules and sparse checkouts are left out.                  *)
(***************************************************************************)
EXTENDS FiniteSets, Naturals

CONSTANTS Paths,
          Contents,
          Empty,     \* the content whose blob an intent-to-add entry names
          MaxEdits   \* bound on what the user does meanwhile

ASSUME SnapshotAssumption ==
  /\ Empty \in Contents /\ MaxEdits \in Nat
  /\ Contents \intersect {"none", "intent", "conflict", "both"} = {}

None == "none"   \* no file, no entry

VARIABLES
  repo,      \* the user's repository: head, index and work, by path
  target,    \* the isolated worktree
  pc,        \* what is asked next
  todo,      \* the paths still to be read in this step
  snap,      \* RepositorySnapshot
  overlay,   \* WorkspaceOverlay: path -> bytes, None to unlink
  edits,     \* how often the user has acted
  source,    \* history: repo at the last question of the capture
  touched    \* history: "head", "capture", "overlay": what an edit fell into

vars == <<repo, target, pc, todo, snap, overlay, edits, source, touched>>

Files == [Paths -> Contents \union {None}]
IndexStates == Contents \union {None, "intent", "conflict"}
Checkout(head) == [head |-> head, index |-> head, work |-> head]
Nothing == [p \in Paths |-> None]

-----------------------------------------------------------------------------
(* What Git answers. *)

\* ls-files --stage: the paths with an entry, and the blob an entry names.
Entries(r) == { p \in Paths : r.index[p] # None }
Blob(entry) == IF entry = "intent" THEN Empty ELSE entry

\* The paths with a stage 0 entry; a conflict has stages 1 to 3 only.
Tracked(index) == { p \in DOMAIN index : index[p] \notin {None, "conflict"} }

\* The lines "1 .A" of status --porcelain=v2.
Intents(r) ==
  { p \in Paths : r.index[p] = "intent" /\ r.head[p] = None /\ r.work[p] # None }

\* ls-files --others; ignored files are no part of any answer.
Others(r) == { p \in Paths : r.index[p] = None /\ r.work[p] # None }

\* Mutant: status is not asked for untracked files.
IsCleanButUntracked(r) ==
  r.index = r.head /\ \A p \in Paths : r.index[p] # None => r.work[p] = r.head[p]

\* status --porcelain prints nothing.
IsClean(r) == r.index = r.head /\ r.work = r.head

-----------------------------------------------------------------------------
(* capture_repository_snapshot, one question at a time. *)

NoSnapshot == [head |-> Nothing, index |-> Nothing, intents |-> {},
               tracked |-> Nothing, untracked |-> Nothing, others |-> {}, dirty |-> FALSE]

Init ==
  /\ repo \in [head : Files, index : [Paths -> IndexStates], work : Files]
  /\ target = Checkout(Nothing) /\ pc = "head" /\ todo = {}
  /\ snap = NoSnapshot /\ overlay = Nothing
  /\ edits = 0 /\ source = Checkout(Nothing) /\ touched = {}

\* The next question, with the paths it is asked for.
Then(label, paths) == pc' = label /\ todo' = paths

ReadHead ==
  /\ pc = "head"
  /\ snap' = [snap EXCEPT !.head = repo.head]
  /\ Then("index", {})
  /\ UNCHANGED <<repo, target, overlay, edits, source, touched>>

ListIndex ==
  /\ pc = "index"
  /\ snap' = [snap EXCEPT !.index = [p \in Paths |-> Blob(repo.index[p])]]
  /\ Then("intents", {})
  /\ UNCHANGED <<repo, target, overlay, edits, source, touched>>

\* Only what the listing had is flagged.
ListIntents ==
  /\ pc = "intents"
  /\ snap' = [snap EXCEPT !.intents = { p \in Intents(repo) : snap.index[p] # None }]
  /\ Then("tracked", Tracked(snap.index))
  /\ UNCHANGED <<repo, target, overlay, edits, source, touched>>

ReadTracked(p) ==
  /\ pc = "tracked" /\ p \in todo
  /\ snap' = [snap EXCEPT !.tracked[p] = repo.work[p]]
  /\ todo' = todo \ {p}
  /\ UNCHANGED <<repo, target, pc, overlay, edits, source, touched>>

ListOthers ==
  /\ pc = "tracked" /\ todo = {}
  /\ snap' = [snap EXCEPT !.others = Others(repo)]
  /\ Then("untracked", Others(repo))
  /\ UNCHANGED <<repo, target, overlay, edits, source, touched>>

\* A file that has gone since it was listed is recorded as missing.
ReadUntracked(p) ==
  /\ pc = "untracked" /\ p \in todo
  /\ snap' = [snap EXCEPT !.untracked[p] = repo.work[p]]
  /\ todo' = todo \ {p}
  /\ UNCHANGED <<repo, target, pc, overlay, edits, source, touched>>

AskDirty ==
  /\ pc = "untracked" /\ todo = {}
  /\ snap' = [snap EXCEPT !.dirty = ~IsClean(repo)]
  /\ source' = repo
  /\ Then("choose", {})
  /\ UNCHANGED <<repo, target, overlay, edits, touched>>

-----------------------------------------------------------------------------
(* choose_dirty_state, WorkspaceOverlay.capture and replay. *)

\* CLEAN_BASE: the candidate is made from the base commit.
TakeBase ==
  /\ pc = "choose" /\ ~snap.dirty
  /\ target' = Checkout(snap.head) /\ Then("clean", {})
  /\ UNCHANGED <<repo, snap, overlay, edits, source, touched>>

\* BLOCK_DIRTY_STATE, and the error that is raised without a choice.
Block ==
  /\ pc = "choose" /\ snap.dirty /\ Then("blocked", {})
  /\ UNCHANGED <<repo, target, snap, overlay, edits, source, touched>>

\* CAPTURE_DIRTY_STATE: entries recorded as missing are not read again.
CaptureDirty ==
  /\ pc = "choose" /\ snap.dirty
  /\ Then("overlay", { p \in Tracked(snap.index) : snap.tracked[p] # None } \union snap.others)
  /\ UNCHANGED <<repo, target, snap, overlay, edits, source, touched>>

\* The bytes are those of now; a file that has gone raises.
ReadBytes(p) ==
  /\ pc = "overlay" /\ p \in todo
  /\ overlay' = [overlay EXCEPT ![p] = repo.work[p]]
  /\ IF repo.work[p] = None THEN Then("raised", {}) ELSE Then("overlay", todo \ {p})
  /\ UNCHANGED <<repo, target, snap, edits, source, touched>>

\* The paths the overlay writes or unlinks, the rest being the base's.
Replayed == Tracked(snap.index) \union snap.others

\* Mutant: files that were deleted are left as the base has them.
ReplayWithoutUnlink ==
  [head  |-> snap.head, index |-> IF snap.index = Nothing THEN snap.head ELSE snap.index,
   work  |-> [p \in Paths |-> IF p \in Replayed /\ overlay[p] # None
                              THEN overlay[p] ELSE snap.head[p]]]

\* read-tree of the base, the files, then the index unless it has no entry:
\* what is not listed is removed from it, each stage is added.  A stage 0 entry
\* of the base stays beside the stages of a conflict.
ReplayedTree ==
  [head  |-> snap.head,
   index |-> IF snap.index = Nothing THEN snap.head
             ELSE [p \in Paths |-> IF snap.index[p] = "conflict" /\ snap.head[p] # None
                                   THEN "both" ELSE snap.index[p]],
   work  |-> [p \in Paths |-> IF p \in Replayed THEN overlay[p] ELSE snap.head[p]]]

\* update-index knows no --intent-to-add: an entry so flagged raises.
Replay ==
  /\ pc = "overlay" /\ todo = {}
  /\ target' = ReplayedTree
  /\ Then(IF snap.intents = {} THEN "replayed" ELSE "raised", {})
  /\ UNCHANGED <<repo, snap, overlay, edits, source, touched>>

\* Mutant: the records of files tell only whether they are missing.
SamePresence(r) ==
  /\ \A p \in Paths : Blob(r.index[p]) = snap.index[p]
  /\ Intents(r) = snap.intents /\ Others(r) = snap.others
  /\ \A p \in Tracked(r.index) : r.work[p] = None <=> snap.tracked[p] = None

\* A snapshot of r that nobody disturbs has the digests of snap.
SameDigests(r) ==
  /\ \A p \in Paths : Blob(r.index[p]) = snap.index[p]
  /\ Intents(r) = snap.intents
  /\ \A p \in Tracked(r.index) : r.work[p] = snap.tracked[p]
  /\ Others(r) = snap.others /\ \A p \in Others(r) : r.work[p] = snap.untracked[p]

\* Nobody works in the target yet: it is captured in one step, and compared.
Verify ==
  /\ pc = "replayed"
  /\ Then(IF SameDigests(target) THEN "verified" ELSE "differs", {})
  /\ UNCHANGED <<repo, target, snap, overlay, edits, source, touched>>

-----------------------------------------------------------------------------
(* The user, at any time before the last question of all. *)

Asking == pc \in {"head", "index", "intents", "tracked", "untracked"}

Edit(part, p, value) ==
  /\ Asking \/ pc \in {"choose", "overlay"}
  /\ edits < MaxEdits /\ edits' = edits + 1
  /\ repo' = [repo EXCEPT ![part][p] = value] /\ repo' # repo
  /\ touched' = touched \union {IF Asking THEN "capture" ELSE "overlay"}
                        \union IF Asking /\ part = "head" THEN {"head"} ELSE {}
  /\ UNCHANGED <<target, pc, todo, snap, overlay, source>>

Next ==
  \/ ReadHead \/ ListIndex \/ ListIntents \/ ListOthers \/ AskDirty
  \/ TakeBase \/ Block \/ CaptureDirty \/ Replay \/ Verify
  \/ \E p \in Paths :
       \/ ReadTracked(p) \/ ReadUntracked(p) \/ ReadBytes(p)
       \/ \E value \in Contents \union {None} : Edit("head", p, value) \/ Edit("work", p, value)
       \/ \E value \in IndexStates : Edit("index", p, value)

Spec == Init /\ [][Next]_vars

-----------------------------------------------------------------------------
(* Properties. *)

\* No dirty input is silently dropped (choose_dirty_state): unless the head
\* itself moved meanwhile, whatever else was edited, a candidate made from the
\* base alone holds all there was when the capture ended.
NothingDropped ==
  pc = "clean" /\ "head" \notin touched => source = target

\* A replay whose digests were verified holds what the user had at the
\* snapshot, even if the bytes were read again after an edit: of every path
\* but those in a conflict, whose bytes are in no digest.
VerifiedIsSource ==
  pc = "verified" /\ "capture" \notin touched =>
    \A p \in Paths :
      /\ Blob(target.index[p]) = Blob(source.index[p])
      /\ source.index[p] # "conflict" => target.work[p] = source.work[p]

\* What replay can bring about in a worktree of the base.
Replayable(r) ==
  /\ Intents(r) = {}
  /\ Entries(r) = {} => r.head = Nothing
  /\ \A p \in Paths : r.head[p] # None =>
       r.index[p] # "conflict" /\ (r.index[p] = None => r.work[p] # None)

\* An overlay is sufficient for a replay (WorkspaceOverlay): of a replayable
\* state that nobody edits meanwhile it verifies, and of no other.
ReplayReproduces ==
  touched = {} =>
    /\ pc \in {"differs", "raised"} => ~Replayable(source)
    /\ pc = "verified" => Replayable(source)
=============================================================================
