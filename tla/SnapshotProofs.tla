--------------------------- MODULE SnapshotProofs ---------------------------
(***************************************************************************)
(* Nothing dirty is dropped, a verified replay holds what the user had,    *)
(* and exactly the replayable states verify: for any paths, contents and   *)
(* number of edits.  The invariant says, for every question asked, that    *)
(* the snapshot agrees with the repository while no edit fell into the     *)
(* capture, and with the state at its end afterwards.                      *)
(***************************************************************************)
EXTENDS Snapshot, TLAPS

Repositories == [head : Files, index : [Paths -> IndexStates], work : Files]
Answered == {"choose", "clean", "blocked", "overlay", "replayed", "raised", "verified", "differs"}
Ended == {"replayed", "verified", "differs"}

Typed ==
  /\ repo \in Repositories /\ source \in Repositories
  /\ pc \in {"head", "index", "intents", "tracked", "untracked"} \union Answered
  /\ todo \subseteq Paths
  /\ snap \in [head : Files, index : [Paths -> Contents \union {None, "conflict"}],
               intents : SUBSET Paths, tracked : Files, untracked : Files,
               others : SUBSET Paths, dirty : BOOLEAN]
  /\ overlay \in Files

\* What the snapshot has of r, with rest still to be read.
IndexRead(r) == \A p \in Paths : snap.index[p] = Blob(r.index[p])
TrackedRead(r, rest) == \A p \in Tracked(snap.index) \ rest : snap.tracked[p] = r.work[p]
UntrackedRead(r, rest) == \A p \in snap.others \ rest : snap.untracked[p] = r.work[p]

Matches(r) ==
  /\ snap.head = r.head /\ IndexRead(r) /\ snap.intents = Intents(r)
  /\ TrackedRead(r, {}) /\ snap.others = Others(r) /\ UntrackedRead(r, {})

\* While the capture is under way ...
Reading ==
  /\ pc \in {"index", "intents", "tracked", "untracked"} /\ "head" \notin touched =>
       snap.head = repo.head
  /\ "capture" \notin touched =>
       /\ pc \in {"index", "intents", "tracked", "untracked"} => snap.head = repo.head
       /\ pc \in {"intents", "tracked", "untracked"} => IndexRead(repo)
       /\ pc \in {"tracked", "untracked"} => snap.intents = Intents(repo)
       /\ pc = "tracked" => TrackedRead(repo, todo)
       /\ pc = "untracked" => /\ TrackedRead(repo, {}) /\ snap.others = Others(repo)
                              /\ UntrackedRead(repo, todo)

\* ... and once it has ended.
Captured ==
  pc \in Answered =>
    /\ "head" \notin touched => snap.head = source.head
    /\ "capture" \notin touched => Matches(source)
    /\ ~snap.dirty => IsClean(source)

\* The overlay has the bytes of the snapshot as long as nobody edits.
Overlaid ==
  /\ pc \in {"head", "index", "intents", "tracked", "untracked", "choose"} => overlay = Nothing
  /\ touched = {} =>
       /\ pc \in {"choose", "overlay"} => repo = source
       /\ pc \in {"overlay"} \union Ended =>
            \A p \in Replayed \ todo : overlay[p] = source.work[p]
       /\ pc = "overlay" => \A p \in todo : source.work[p] # None
       /\ pc = "raised" => snap.intents # {}

Made ==
  /\ pc = "clean" => target = Checkout(snap.head) /\ ~snap.dirty
  /\ pc \in Ended => target = ReplayedTree /\ snap.intents = {} /\ todo = {}
  /\ pc = "verified" => SameDigests(target)
  /\ pc = "differs" => ~SameDigests(target)

IInv == Typed /\ Reading /\ Captured /\ Overlaid /\ Made

-----------------------------------------------------------------------------

LEMMA NamesDiffer ==
  /\ Empty \in Contents /\ None \notin Contents
  /\ "intent" \notin Contents /\ "conflict" \notin Contents /\ "both" \notin Contents
  BY SnapshotAssumption DEF None

LEMMA InitIInv == Init => IInv
<1> SUFFICES ASSUME Init PROVE IInv
  OBVIOUS
<1>1. Nothing \in Files
  BY DEF Nothing, Files
<1>2. Checkout(Nothing) \in Repositories
  BY <1>1 DEF Checkout, Repositories, Nothing, Files, IndexStates
<1>3. NoSnapshot \in [head : Files, index : [Paths -> Contents \union {None, "conflict"}],
               intents : SUBSET Paths, tracked : Files, untracked : Files,
               others : SUBSET Paths, dirty : BOOLEAN]
  BY <1>1 DEF NoSnapshot, Nothing, Files
<1> QED
  BY <1>1, <1>2, <1>3
     DEF Init, IInv, Typed, Reading, Captured, Overlaid, Made, Answered, Ended, Repositories

-----------------------------------------------------------------------------
(* The questions of the capture. *)

LEMMA ReadHeadKeepsIInv == IInv /\ ReadHead => IInv'
  BY DEF ReadHead, Then, IInv, Typed, Reading, Captured, Overlaid, Made, Answered, Ended,
         Repositories

LEMMA ListIndexKeepsIInv == IInv /\ ListIndex => IInv'
<1> SUFFICES ASSUME IInv, ListIndex PROVE IInv'
  OBVIOUS
<1>1. [p \in Paths |-> Blob(repo.index[p])] \in [Paths -> Contents \union {None, "conflict"}]
  BY NamesDiffer DEF IInv, Typed, Repositories, IndexStates, Blob
<1>2. Typed' /\ IndexRead(repo)'
  BY <1>1 DEF ListIndex, Then, IInv, Typed, IndexRead, Blob
<1> QED
  BY <1>2 DEF ListIndex, Then, IInv, Typed, Reading, Captured, Overlaid, Made, Answered, Ended

LEMMA ListIntentsKeepsIInv == IInv /\ ListIntents => IInv'
<1> SUFFICES ASSUME IInv, ListIntents PROVE IInv'
  OBVIOUS
<1>1. IndexRead(repo) => { p \in Intents(repo) : snap.index[p] # None } = Intents(repo)
  BY NamesDiffer DEF IndexRead, Intents, Blob
<1>2. Tracked(snap.index) \subseteq Paths /\ Intents(repo) \subseteq Paths
  BY DEF Tracked, Intents, IInv, Typed
<1>3. snap'.head = snap.head /\ snap'.index = snap.index /\ Typed'
  BY <1>2 DEF ListIntents, Then, IInv, Typed, Answered
<1>4. TrackedRead(repo, todo)'
  BY <1>3 DEF ListIntents, Then, TrackedRead
<1>5. IndexRead(repo) => IndexRead(repo)' /\ snap'.intents = Intents(repo)
  BY <1>1, <1>3 DEF ListIntents, Then, IInv, Typed, IndexRead
<1>6. Reading'
  BY <1>3, <1>4, <1>5 DEF ListIntents, Then, IInv, Reading, Intents
<1> QED
  BY <1>3, <1>6 DEF ListIntents, Then, IInv, Captured, Overlaid, Made, Answered, Ended

LEMMA ReadTrackedKeepsIInv == \A p \in Paths : IInv /\ ReadTracked(p) => IInv'
<1> SUFFICES ASSUME NEW p \in Paths, IInv, ReadTracked(p) PROVE IInv'
  OBVIOUS
<1>1. /\ snap' = [snap EXCEPT !.tracked = [@ EXCEPT ![p] = repo.work[p]]]
      /\ todo' = todo \ {p} /\ pc = "tracked" /\ pc' = pc
      /\ UNCHANGED <<repo, target, overlay, source, touched>>
  BY DEF ReadTracked
<1>2. repo.work[p] \in Contents \union {None}
  BY DEF IInv, Typed, Repositories, Files
<1>3. /\ snap'.head = snap.head /\ snap'.index = snap.index /\ snap'.intents = snap.intents
      /\ snap'.tracked = [snap.tracked EXCEPT ![p] = repo.work[p]]
  BY <1>1 DEF IInv, Typed
<1>4. Typed'
  BY <1>1, <1>2, <1>3 DEF IInv, Typed, Files
<1>5. TrackedRead(repo, todo) => TrackedRead(repo, todo)'
  <2>1. \A q \in Paths \ {p} : snap'.tracked[q] = snap.tracked[q]
    BY <1>3 DEF IInv, Typed, Files
  <2>2. snap'.tracked[p] = repo.work[p]
    BY <1>3 DEF IInv, Typed, Files
  <2>3. Tracked(snap.index) \subseteq Paths
    BY DEF IInv, Typed, Tracked
  <2> QED  BY <1>1, <1>3, <2>1, <2>2, <2>3 DEF TrackedRead
<1>6. Reading'
  BY <1>1, <1>3, <1>5 DEF IInv, Reading, IndexRead
<1> QED
  BY <1>1, <1>4, <1>6 DEF IInv, Captured, Overlaid, Made, Answered, Ended

LEMMA ListOthersKeepsIInv == IInv /\ ListOthers => IInv'
<1> SUFFICES ASSUME IInv, ListOthers PROVE IInv'
  OBVIOUS
<1>1. /\ snap' = [snap EXCEPT !.others = Others(repo)]
      /\ todo' = Others(repo) /\ pc = "tracked" /\ pc' = "untracked" /\ todo = {}
      /\ UNCHANGED <<repo, target, overlay, source, touched>>
  BY DEF ListOthers, Then
<1>2. /\ snap'.head = snap.head /\ snap'.index = snap.index /\ snap'.intents = snap.intents
      /\ snap'.tracked = snap.tracked /\ snap'.others = Others(repo)
  BY <1>1 DEF IInv, Typed
<1>3. Typed'
  BY <1>1, <1>2 DEF IInv, Typed, Others, Answered
<1>4. UntrackedRead(repo, todo)'
  BY <1>1, <1>2 DEF UntrackedRead
<1>5. TrackedRead(repo, todo) => TrackedRead(repo, {})'
  BY <1>1, <1>2 DEF TrackedRead
<1>6. Others(repo)' = Others(repo) /\ Intents(repo)' = Intents(repo)
  BY <1>1 DEF Others, Intents
<1>7. Reading'
  BY <1>1, <1>2, <1>4, <1>5, <1>6 DEF IInv, Reading, IndexRead
<1> QED
  BY <1>1, <1>3, <1>7 DEF IInv, Captured, Overlaid, Made, Answered, Ended

LEMMA ReadUntrackedKeepsIInv == \A p \in Paths : IInv /\ ReadUntracked(p) => IInv'
<1> SUFFICES ASSUME NEW p \in Paths, IInv, ReadUntracked(p) PROVE IInv'
  OBVIOUS
<1>1. /\ snap' = [snap EXCEPT !.untracked = [@ EXCEPT ![p] = repo.work[p]]]
      /\ todo' = todo \ {p} /\ pc = "untracked" /\ pc' = pc
      /\ UNCHANGED <<repo, target, overlay, source, touched>>
  BY DEF ReadUntracked
<1>2. repo.work[p] \in Contents \union {None}
  BY DEF IInv, Typed, Repositories, Files
<1>3. /\ snap'.head = snap.head /\ snap'.index = snap.index /\ snap'.intents = snap.intents
      /\ snap'.tracked = snap.tracked /\ snap'.others = snap.others
      /\ snap'.untracked = [snap.untracked EXCEPT ![p] = repo.work[p]]
  BY <1>1 DEF IInv, Typed
<1>4. Typed'
  BY <1>1, <1>2, <1>3 DEF IInv, Typed, Files
<1>5. UntrackedRead(repo, todo) => UntrackedRead(repo, todo)'
  <2>1. \A q \in Paths \ {p} : snap'.untracked[q] = snap.untracked[q]
    BY <1>3 DEF IInv, Typed, Files
  <2>2. snap'.untracked[p] = repo.work[p]
    BY <1>3 DEF IInv, Typed, Files
  <2>3. snap.others \subseteq Paths
    BY DEF IInv, Typed
  <2> QED  BY <1>1, <1>3, <2>1, <2>2, <2>3 DEF UntrackedRead
<1>6. /\ TrackedRead(repo, {}) => TrackedRead(repo, {})'
      /\ Others(repo)' = Others(repo) /\ Intents(repo)' = Intents(repo)
  BY <1>1, <1>3 DEF TrackedRead, Others, Intents
<1>7. Reading'
  BY <1>1, <1>3, <1>5, <1>6 DEF IInv, Reading, IndexRead
<1> QED
  BY <1>1, <1>4, <1>7 DEF IInv, Captured, Overlaid, Made, Answered, Ended

LEMMA AskDirtyKeepsIInv == IInv /\ AskDirty => IInv'
<1> SUFFICES ASSUME IInv, AskDirty PROVE IInv'
  OBVIOUS
<1>1. /\ snap' = [snap EXCEPT !.dirty = ~IsClean(repo)]
      /\ todo' = {} /\ pc = "untracked" /\ pc' = "choose" /\ todo = {}
      /\ source' = repo /\ UNCHANGED <<repo, target, overlay, touched>>
  BY DEF AskDirty, Then
<1>2. /\ snap'.head = snap.head /\ snap'.index = snap.index /\ snap'.intents = snap.intents
      /\ snap'.tracked = snap.tracked /\ snap'.others = snap.others
      /\ snap'.untracked = snap.untracked /\ snap'.dirty = ~IsClean(repo)
  BY <1>1 DEF IInv, Typed
<1>3. Typed'
  <2>1. (~IsClean(repo)) \in BOOLEAN
    OBVIOUS
  <2> QED  BY <1>1, <1>2, <2>1 DEF IInv, Typed, Answered
<1>4. "capture" \notin touched => Matches(source)'
  BY <1>1, <1>2 DEF IInv, Reading, Matches, IndexRead, TrackedRead, UntrackedRead, Others, Intents
<1>5. Captured'
  BY <1>1, <1>2, <1>4 DEF IInv, Reading, Captured, IsClean
<1> QED
  BY <1>1, <1>3, <1>5 DEF IInv, Reading, Overlaid, Made, Answered, Ended

-----------------------------------------------------------------------------
(* The choice, the overlay and the replay. *)

LEMMA TakeBaseKeepsIInv == IInv /\ TakeBase => IInv'
<1> SUFFICES ASSUME IInv, TakeBase PROVE IInv'
  OBVIOUS
<1>1. /\ pc = "choose" /\ ~snap.dirty /\ target' = Checkout(snap.head)
      /\ pc' = "clean" /\ todo' = {}
      /\ UNCHANGED <<repo, snap, overlay, source, touched>>
  BY DEF TakeBase, Then
<1>2. Typed' /\ Reading' /\ Overlaid'
  BY <1>1 DEF IInv, Typed, Reading, Overlaid, Answered, Ended
<1>3. Captured'
  BY <1>1 DEF IInv, Captured, Answered, Matches, IndexRead, TrackedRead, UntrackedRead
<1>4. Made'
  BY <1>1 DEF Made, Checkout, Ended
<1> QED  BY <1>2, <1>3, <1>4 DEF IInv

\* A step after the capture leaves the snapshot and its source alone.
LEMMA CapturedStays ==
  ASSUME IInv, pc \in Answered, UNCHANGED <<snap, source, touched>>
  PROVE  Captured'
  BY DEF IInv, Captured, Matches, IndexRead, TrackedRead, UntrackedRead, IsClean, Others, Intents

LEMMA BlockKeepsIInv == IInv /\ Block => IInv'
<1> SUFFICES ASSUME IInv, Block PROVE IInv'
  OBVIOUS
<1>1. Captured'
  BY CapturedStays DEF Block, Answered
<1> QED
  BY <1>1 DEF Block, Then, IInv, Typed, Reading, Overlaid, Made, Answered, Ended

LEMMA CaptureDirtyKeepsIInv == IInv /\ CaptureDirty => IInv'
<1> SUFFICES ASSUME IInv, CaptureDirty PROVE IInv'
  OBVIOUS
<1>1. /\ pc = "choose" /\ pc' = "overlay"
      /\ todo' = { p \in Tracked(snap.index) : snap.tracked[p] # None } \union snap.others
      /\ UNCHANGED <<repo, target, snap, overlay, source, touched>>
  BY DEF CaptureDirty, Then
<1>2. Captured'
  BY <1>1, CapturedStays DEF Answered
<1>3. Typed'
  BY <1>1 DEF IInv, Typed, Tracked, Answered
<1>4. ASSUME touched = {} PROVE Matches(source)
  BY <1>1, <1>4 DEF IInv, Captured, Answered
<1>5. ASSUME touched = {} PROVE \A p \in todo' : source.work[p] # None
  BY <1>1, <1>4, <1>5 DEF Matches, TrackedRead, Others
<1>6. ASSUME touched = {}, NEW p \in Replayed \ todo' PROVE overlay[p] = source.work[p]
  <2>1. p \in Tracked(snap.index) /\ snap.tracked[p] = None /\ p \in Paths
    BY <1>1, <1>6 DEF Replayed, Tracked, IInv, Typed
  <2>2. source.work[p] = None
    BY <1>4, <1>6, <2>1 DEF Matches, TrackedRead
  <2>3. overlay[p] = None
    BY <1>1, <2>1 DEF IInv, Overlaid, Nothing
  <2> QED  BY <2>2, <2>3
<1>7. Overlaid'
  BY <1>1, <1>5, <1>6 DEF IInv, Overlaid, Replayed, Ended
<1> QED
  BY <1>1, <1>2, <1>3, <1>7 DEF IInv, Reading, Made, Ended

LEMMA ReadBytesKeepsIInv == \A p \in Paths : IInv /\ ReadBytes(p) => IInv'
<1> SUFFICES ASSUME NEW p \in Paths, IInv, ReadBytes(p) PROVE IInv'
  OBVIOUS
<1>1. /\ pc = "overlay" /\ p \in todo
      /\ overlay' = [overlay EXCEPT ![p] = repo.work[p]]
      /\ \/ repo.work[p] = None /\ pc' = "raised" /\ todo' = {}
         \/ repo.work[p] # None /\ pc' = "overlay" /\ todo' = todo \ {p}
      /\ UNCHANGED <<repo, target, snap, source, touched>>
  BY DEF ReadBytes, Then
<1>2. Captured'
  BY <1>1, CapturedStays DEF Answered
<1>3. overlay' \in Files /\ \A q \in Paths : overlay'[q] = IF q = p THEN repo.work[p] ELSE overlay[q]
  BY <1>1 DEF IInv, Typed, Repositories, Files
<1>4. Typed'
  BY <1>1, <1>3 DEF IInv, Typed, Answered
<1>5. Replayed' = Replayed /\ Replayed \subseteq Paths
  BY <1>1 DEF Replayed, Tracked, IInv, Typed
<1>6. Overlaid'
  BY <1>1, <1>3, <1>5 DEF IInv, Overlaid, Ended
<1> QED
  BY <1>1, <1>2, <1>4, <1>6 DEF IInv, Reading, Made, Ended

LEMMA ReplayKeepsIInv == IInv /\ Replay => IInv'
<1> SUFFICES ASSUME IInv, Replay PROVE IInv'
  OBVIOUS
<1>1. /\ pc = "overlay" /\ todo = {} /\ todo' = {} /\ target' = ReplayedTree
      /\ \/ pc' = "replayed" /\ snap.intents = {}
         \/ pc' = "raised" /\ snap.intents # {}
      /\ UNCHANGED <<repo, snap, overlay, source, touched>>
  BY DEF Replay, Then
<1>2. Captured'
  BY <1>1, CapturedStays DEF Answered
<1>3. Replayed' = Replayed /\ ReplayedTree' = ReplayedTree
  BY <1>1 DEF Replayed, ReplayedTree
<1>4. Made'
  BY <1>1, <1>3 DEF Made, Ended
<1> QED
  BY <1>1, <1>2, <1>3, <1>4 DEF IInv, Typed, Reading, Overlaid, Answered, Ended

LEMMA VerifyKeepsIInv == IInv /\ Verify => IInv'
<1> SUFFICES ASSUME IInv, Verify PROVE IInv'
  OBVIOUS
<1>1. /\ pc = "replayed" /\ todo' = {}
      /\ \/ pc' = "verified" /\ SameDigests(target)
         \/ pc' = "differs" /\ ~SameDigests(target)
      /\ UNCHANGED <<repo, target, snap, overlay, source, touched>>
  BY DEF Verify, Then
<1>2. Captured'
  BY <1>1, CapturedStays DEF Answered
<1>3. /\ Replayed' = Replayed /\ ReplayedTree' = ReplayedTree
      /\ SameDigests(target)' <=> SameDigests(target)
  BY <1>1 DEF Replayed, ReplayedTree, SameDigests, Others, Intents
<1>4. todo = {} /\ Made'
  BY <1>1, <1>3 DEF IInv, Made, Ended
<1> QED
  BY <1>1, <1>2, <1>3, <1>4 DEF IInv, Typed, Reading, Overlaid, Answered, Ended

LEMMA EditKeepsIInv ==
  ASSUME IInv, NEW part \in {"head", "index", "work"}, NEW p \in Paths,
         NEW value \in IF part = "index" THEN IndexStates ELSE Contents \union {None},
         Edit(part, p, value)
  PROVE  IInv'
<1>1. /\ pc \in {"head", "index", "intents", "tracked", "untracked", "choose", "overlay"}
      /\ touched' # {} /\ touched \subseteq touched'
      /\ Asking => "capture" \in touched'
      /\ Asking /\ part = "head" => "head" \in touched'
      /\ repo' = [repo EXCEPT ![part] = [@ EXCEPT ![p] = value]]
      /\ UNCHANGED <<target, pc, todo, snap, overlay, source>>
  BY DEF Edit, Asking
<1>2. repo' \in Repositories /\ (part # "head" => repo'.head = repo.head)
  <2>1. CASE part = "head"
    BY <1>1, <2>1 DEF IInv, Typed, Repositories, Files
  <2>2. CASE part = "index"
    BY <1>1, <2>2 DEF IInv, Typed, Repositories
  <2>3. CASE part = "work"
    BY <1>1, <2>3 DEF IInv, Typed, Repositories, Files
  <2> QED  BY <2>1, <2>2, <2>3
<1>3. Typed'
  BY <1>1, <1>2 DEF IInv, Typed
<1>4. Reading'
  BY <1>1, <1>2 DEF IInv, Reading, Asking
<1>5. Captured'
  BY <1>1 DEF IInv, Captured, Matches, IndexRead, TrackedRead, UntrackedRead, Answered,
              Asking, IsClean
<1>6. Overlaid' /\ Made'
  BY <1>1 DEF IInv, Overlaid, Made, Ended
<1> QED  BY <1>3, <1>4, <1>5, <1>6 DEF IInv

LEMMA NextIInv == IInv /\ [Next]_vars => IInv'
<1> SUFFICES ASSUME IInv, [Next]_vars PROVE IInv'
  OBVIOUS
<1>1. CASE UNCHANGED vars
  BY <1>1 DEF vars, IInv, Typed, Reading, Captured, Overlaid, Made, Matches, IndexRead,
              TrackedRead, UntrackedRead, Replayed, ReplayedTree, SameDigests, Others, Intents
<1>2. CASE \E p \in Paths : ReadTracked(p) \/ ReadUntracked(p) \/ ReadBytes(p)
  BY <1>2, ReadTrackedKeepsIInv, ReadUntrackedKeepsIInv, ReadBytesKeepsIInv
<1>3. CASE \E p \in Paths : \E value \in Contents \union {None} :
             Edit("head", p, value) \/ Edit("work", p, value)
  BY <1>3, EditKeepsIInv
<1>4. CASE \E p \in Paths : \E value \in IndexStates : Edit("index", p, value)
  BY <1>4, EditKeepsIInv
<1> QED
  BY <1>1, <1>2, <1>3, <1>4, ReadHeadKeepsIInv, ListIndexKeepsIInv, ListIntentsKeepsIInv,
     ListOthersKeepsIInv, AskDirtyKeepsIInv, TakeBaseKeepsIInv, BlockKeepsIInv,
     CaptureDirtyKeepsIInv, ReplayKeepsIInv, VerifyKeepsIInv DEF Next

LEMMA Inductive == Spec => []IInv
  BY InitIInv, NextIInv, PTL DEF Spec

-----------------------------------------------------------------------------

\* A candidate made from the base alone drops nothing (choose_dirty_state,
\* lines 293-303), whatever was edited during the capture but the head.
THEOREM CleanBase == Spec => []NothingDropped
<1>1. IInv => NothingDropped
  BY DEF IInv, Captured, Made, Answered, NothingDropped, IsClean, Checkout, Typed, Repositories
<1> QED  BY <1>1, Inductive, PTL

\* A verified replay holds what the user had at the snapshot (replay, lines
\* 361-408): a file that was read again after an edit is found out.
THEOREM VerifiedReplay == Spec => []VerifiedIsSource
<1>1. ASSUME IInv, pc = "verified", "capture" \notin touched, NEW p \in Paths
      PROVE  /\ Blob(target.index[p]) = Blob(source.index[p])
             /\ source.index[p] # "conflict" => target.work[p] = source.work[p]
  <2>1. Matches(source) /\ SameDigests(target)
    BY <1>1 DEF IInv, Captured, Made, Answered
  <2>2. Blob(target.index[p]) = snap.index[p] /\ snap.index[p] = Blob(source.index[p])
    BY <2>1 DEF SameDigests, Matches, IndexRead
  <2>3. target.index[p] \in Contents \union {None, "conflict", "both"}
    <3>1. snap.index[p] \in Contents \union {None, "conflict"}
      BY <1>1 DEF IInv, Typed
    <3> QED  BY <1>1, <2>2, <3>1, NamesDiffer DEF Blob, IInv, Made, Ended, ReplayedTree, Typed, Files
  <2>4. ASSUME source.index[p] # "conflict" PROVE target.work[p] = source.work[p]
    <3>1. source.index[p] \in IndexStates
      BY <1>1 DEF IInv, Typed, Repositories
    <3>2. CASE source.index[p] = None
      <4>1. snap.index[p] = None /\ target.index[p] = None
        BY <2>2, <2>3, <3>2, NamesDiffer DEF Blob, None
      <4>2. (p \in Others(target) <=> target.work[p] # None)
            /\ (p \in Others(source) <=> source.work[p] # None)
        BY <3>2, <4>1 DEF Others
      <4>3. Others(target) = snap.others /\ snap.others = Others(source)
        BY <2>1 DEF SameDigests, Matches
      <4>4. p \in snap.others => target.work[p] = snap.untracked[p]
                                 /\ source.work[p] = snap.untracked[p]
        BY <2>1, <4>3 DEF SameDigests, Matches, UntrackedRead
      <4> QED  BY <4>2, <4>3, <4>4
    <3>3. CASE source.index[p] # None
      <4>1. snap.index[p] \in Contents /\ target.index[p] \in Contents
        BY <2>2, <2>3, <2>4, <3>1, <3>3, NamesDiffer DEF Blob, None, IndexStates
      <4>2. p \in Tracked(snap.index)
        BY <1>1, <4>1, NamesDiffer DEF Tracked, IInv, Typed
      <4>3. p \in Tracked(target.index)
        BY <1>1, <4>1, NamesDiffer DEF Tracked, IInv, Made, Ended, ReplayedTree, Typed, Files
      <4> QED  BY <2>1, <4>2, <4>3 DEF SameDigests, Matches, TrackedRead
    <3> QED  BY <3>2, <3>3
  <2> QED  BY <2>2, <2>4
<1>2. IInv => VerifiedIsSource
  BY <1>1 DEF VerifiedIsSource
<1> QED  BY <1>2, Inductive, PTL

\* With the bytes of the snapshot, what replay makes has its digests if and
\* only if the state was replayable.
LEMMA ReplayExact ==
  ASSUME Typed, Matches(source), snap.intents = {},
         \A p \in Replayed : overlay[p] = source.work[p]
  PROVE  SameDigests(ReplayedTree) <=> Replayable(source)
<1> DEFINE T == ReplayedTree
           T_index(p) == IF snap.index = Nothing THEN snap.head[p]
                         ELSE IF snap.index[p] = "conflict" /\ snap.head[p] # None
                              THEN "both" ELSE snap.index[p]
           T_work(p) == IF p \in Replayed THEN source.work[p] ELSE source.head[p]
<1>1. /\ \A p \in Paths : T.head[p] = snap.head[p] /\ T.index[p] = T_index(p) /\ T.work[p] = T_work(p)
      /\ DOMAIN T.index = Paths
  BY DEF ReplayedTree, Typed, Files, Matches
<1>2. \A p \in Paths :
        /\ source.index[p] \in IndexStates /\ source.head[p] \in Contents \union {None}
        /\ source.work[p] \in Contents \union {None}
        /\ snap.index[p] = Blob(source.index[p]) /\ snap.head[p] = source.head[p]
  BY DEF Typed, Repositories, Files, Matches, IndexRead
<1>3. \A p \in Paths :
        /\ snap.index[p] \in Contents \union {None, "conflict"}
        /\ snap.index[p] = None <=> source.index[p] = None
        /\ snap.index[p] = "conflict" <=> source.index[p] = "conflict"
        /\ T_index(p) # "intent"
        /\ Blob(T_index(p)) = T_index(p)
  BY <1>2, NamesDiffer DEF Blob, None, IndexStates
<1>4. snap.index = Nothing <=> Entries(source) = {}
  <2>1. snap.index = Nothing <=> \A p \in Paths : snap.index[p] = None
    BY DEF Typed, Nothing
  <2> QED  BY <1>3, <2>1 DEF Entries
<1>5. source.head = Nothing <=> \A p \in Paths : source.head[p] = None
  BY DEF Typed, Repositories, Files, Nothing
<1>6. \A p \in Paths :
        /\ p \in snap.others <=> source.index[p] = None /\ source.work[p] # None
        /\ p \in Tracked(snap.index) <=> snap.index[p] \notin {None, "conflict"}
        /\ p \in snap.others => snap.untracked[p] = source.work[p]
        /\ p \in Tracked(snap.index) => snap.tracked[p] = source.work[p]
  BY DEF Typed, Matches, TrackedRead, UntrackedRead, Others, Tracked
<1>7. /\ Intents(source) = {} /\ Intents(T) = {}
      /\ \A p \in Paths : p \in Others(T) <=> T_index(p) = None /\ T_work(p) # None
      /\ \A p \in Paths : p \in Tracked(T.index) <=> T_index(p) \notin {None, "conflict"}
      /\ Others(T) \subseteq Paths /\ snap.others \subseteq Paths /\ Tracked(T.index) \subseteq Paths
  BY <1>1, <1>3 DEF Matches, Intents, Others, Tracked, Typed
<1>8. SameDigests(T) <=>
        /\ \A p \in Paths : T_index(p) = snap.index[p]
        /\ Others(T) = snap.others
        /\ \A p \in Tracked(T.index) : T_work(p) = snap.tracked[p]
        /\ \A p \in Others(T) : T_work(p) = snap.untracked[p]
  BY <1>1, <1>3, <1>7 DEF SameDigests
<1>9. Replayable(source) <=>
        /\ snap.index = Nothing => \A p \in Paths : source.head[p] = None
        /\ \A p \in Paths : source.head[p] # None =>
             snap.index[p] # "conflict" /\ (snap.index[p] = None => source.work[p] # None)
  BY <1>3, <1>4, <1>5, <1>7 DEF Replayable
<1> HIDE DEF T
<1>10. \A p \in Paths : p \in Replayed <=> p \in snap.others \/ p \in Tracked(snap.index)
  BY DEF Replayed
<1>11. snap.index = Nothing => \A p \in Paths : snap.index[p] = None
  BY DEF Nothing
<1>12. ASSUME Replayable(source) PROVE SameDigests(T)
  <2>1. \A p \in Paths : T_index(p) = snap.index[p]
    BY <1>2, <1>9, <1>11, <1>12
  <2>2. \A p \in Paths : p \in Others(T) <=> p \in snap.others
    BY <1>3, <1>6, <1>7, <1>9, <1>10, <1>12, <2>1
  <2>3. \A p \in Paths : p \in Tracked(T.index) => T_work(p) = snap.tracked[p]
    BY <1>6, <1>7, <1>10, <2>1
  <2>4. \A p \in Paths : p \in Others(T) => T_work(p) = snap.untracked[p]
    BY <1>6, <1>10, <2>2
  <2>5. Others(T) = snap.others
    BY <1>7, <2>2
  <2> QED  BY <1>7, <1>8, <2>1, <2>3, <2>4, <2>5
<1>13. ASSUME SameDigests(T) PROVE Replayable(source)
  <2>1. \A p \in Paths : T_index(p) = snap.index[p] /\ (p \in Others(T) <=> p \in snap.others)
    BY <1>8, <1>13
  <2>2. snap.index = Nothing => \A p \in Paths : source.head[p] = None
    BY <1>2, <1>11, <2>1
  <2>3. ASSUME NEW p \in Paths, source.head[p] # None PROVE snap.index[p] # "conflict"
    BY <1>2, <2>1, <2>2, <2>3
  <2>4. ASSUME NEW p \in Paths, source.head[p] # None, snap.index[p] = None
        PROVE  source.work[p] # None
    BY <1>3, <1>6, <1>7, <1>10, <2>1, <2>4
  <2> QED  BY <1>9, <2>2, <2>3, <2>4
<1> QED  BY <1>12, <1>13 DEF T

\* Of a state nobody edits the overlay reproduces exactly the replayable ones
\* (WorkspaceOverlay, lines 306-408).
THEOREM ReplayOfReplayable == Spec => []ReplayReproduces
<1>1. ASSUME IInv, touched = {} PROVE ReplayReproduces
  <2>1. CASE pc = "raised"
    BY <1>1, <2>1 DEF IInv, Overlaid, Captured, Answered, Matches, ReplayReproduces, Replayable
  <2>2. CASE pc \in {"verified", "differs"}
    <3>1. Matches(source) /\ snap.intents = {} /\ target = ReplayedTree
          /\ \A p \in Replayed : overlay[p] = source.work[p]
      BY <1>1, <2>2 DEF IInv, Overlaid, Captured, Made, Answered, Ended
    <3>2. SameDigests(target) <=> Replayable(source)
      BY <1>1, <3>1, ReplayExact DEF IInv
    <3> QED  BY <1>1, <2>2, <3>2 DEF IInv, Made, ReplayReproduces
  <2> QED  BY <2>1, <2>2 DEF ReplayReproduces
<1>2. IInv => ReplayReproduces
  BY <1>1 DEF ReplayReproduces
<1> QED  BY <1>2, Inductive, PTL
=============================================================================
