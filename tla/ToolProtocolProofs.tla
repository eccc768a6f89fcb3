------------------------- MODULE ToolProtocolProofs -------------------------
(***************************************************************************)
(* The file tools, for any callers, files, links and requests.             *)
(* That no temporary file stays holds however calls interleave.  So does   *)
(* that only files a call named are changed, if names lead somewhere       *)
(* (NamesLead).  That a PatchSet is atomic, on the base it was made for,   *)
(* needs calls that exclude each other (Exclusive) and names that lead to  *)
(* one place (Direct).  Then one call is at work at a time (Alone), only it holds    *)
(* backups (Quiet), and where it is tells what it has done of the request  *)
(* it was made with (Does): which operations have passed, are backed up,   *)
(* are applied or are still to be restored, seen from the tree there was   *)
(* before (Before).                                                        *)
(* The process tool: whom a timeout or a cancellation has signalled.       *)
(***************************************************************************)
EXTENDS Patching, ToolProcess, TLAPS

Labels == {"idle", "prepared", "preflight", "backup", "apply", "rollback", "dead"}
Working == {"preflight", "backup", "apply", "rollback"}

(* No name of a request leads through a link that leads nowhere: it is       *)
(* refused, or canonical for the one place it leads to.                     *)
Direct ==
  \A ask \in Requests : \A i \in DOMAIN ask : \A raw \in Tree!Names(ask[i]) :
    /\ Place(raw) \in Files \union Directories
    /\ Paths!Resolve(Place(raw)) = Place(raw)
    /\ \A there : Directories \subseteq there =>
         Paths!NormalizeRepoPath(raw, there) \in {None, Place(raw)}

-----------------------------------------------------------------------------
(* Operations and plans.                                                    *)

(* What is assumed of a request.                                            *)
LEMMA Asked ==
  ASSUME NEW ask \in Requests
  PROVE  /\ Len(ask) \in Nat \ {0} /\ DOMAIN ask = 1..Len(ask)
         /\ ask = [i \in DOMAIN ask |-> ask[i]]
         /\ \A i \in DOMAIN ask :
              /\ DOMAIN ask[i] = Fields /\ ask[i].kind \in Kinds
              /\ ask[i].kind = "WriteFile" => Len(ask) = 1
  <1>1. Len(ask) \in Nat \ {0} /\ ask = [i \in 1..Len(ask) |-> ask[i]]
    BY PatchingAssumption
  <1>2. DOMAIN ask = 1..Len(ask)
    BY <1>1
  <1>3. \A i \in DOMAIN ask : DOMAIN ask[i] = Fields /\ ask[i].kind \in Kinds
                             /\ (ask[i].kind = "WriteFile" => Len(ask) = 1)
    BY PatchingAssumption
  <1>4. QED
    BY <1>1, <1>2, <1>3

(* A plan differs from what was asked by its places only.                   *)
LEMMA AtFields ==
  ASSUME NEW op, DOMAIN op = Fields, NEW path, NEW from
  PROVE  /\ At(op, path, from).path = path
         /\ At(op, path, from).from = from
         /\ At(op, path, from).kind = op.kind
  BY DEF At, Fields

LEMMA PlanFields ==
  ASSUME NEW ask \in Requests, NEW i \in DOMAIN ask
  PROVE  LET plan == PlannedRequest(ask) IN
         /\ DOMAIN plan = DOMAIN ask
         /\ plan[i].kind = ask[i].kind /\ plan[i].kind \in Kinds
         /\ Tree!Names(plan[i]) = { Place(raw) : raw \in Tree!Names(ask[i]) }
         /\ plan[i].path = Place(ask[i].path)
         /\ plan[i].kind = "RenameFile" => plan[i].from = Place(ask[i].from)
  <1> DEFINE from == IF ask[i].kind = "RenameFile" THEN Place(ask[i].from) ELSE ask[i].from
  <1>1. PlannedRequest(ask)[i] = At(ask[i], Place(ask[i].path), from)
        /\ DOMAIN PlannedRequest(ask) = DOMAIN ask
    BY DEF PlannedRequest
  <1>2. DOMAIN ask[i] = Fields /\ ask[i].kind \in Kinds
    BY Asked
  <1>3. /\ PlannedRequest(ask)[i].path = Place(ask[i].path)
        /\ PlannedRequest(ask)[i].from = from
        /\ PlannedRequest(ask)[i].kind = ask[i].kind
    <2> HIDE DEF from
    <2>1. QED
      BY <1>1, <1>2, AtFields
  <1>4. QED
    BY <1>1, <1>2, <1>3 DEF Tree!Names, Tree!Source

(* An operation changes what it names, and from that alone.                 *)
LEMMA EffectDomain ==
  ASSUME NEW op, op.kind \in Kinds, NEW files
  PROVE  DOMAIN Tree!Effect(op, files) = DOMAIN files
  BY DEF Tree!Effect, Kinds

LEMMA EffectLocal ==
  ASSUME NEW op, op.kind \in Kinds, NEW files, DOMAIN files = Files,
         NEW f \in Files, f \notin Tree!Names(op)
  PROVE  Tree!Effect(op, files)[f] = files[f]
  BY DEF Tree!Effect, Kinds, Tree!Names, Tree!Source

LEMMA EffectSame ==
  ASSUME NEW op, op.kind \in Kinds, NEW files, NEW others,
         DOMAIN files = Files, DOMAIN others = Files, Tree!Names(op) \subseteq Files,
         \A f \in Tree!Names(op) : files[f] = others[f],
         NEW f \in Tree!Names(op)
  PROVE  Tree!Effect(op, files)[f] = Tree!Effect(op, others)[f]
  <1>1. CASE op.kind \in {"CreateFile", "ModifyFile", "WriteFile"}
    BY <1>1 DEF Tree!Effect, Tree!Names, Tree!Source
  <1>2. CASE op.kind = "DeleteFile"
    BY <1>2 DEF Tree!Effect, Tree!Names, Tree!Source
  <1>3. CASE op.kind = "SetExecutable"
    BY <1>3 DEF Tree!Effect, Tree!Names, Tree!Source
  <1>4. CASE op.kind = "RenameFile"
    <2>1. files[op.from] = others[op.from] /\ op.from \in Files /\ op.path \in Files
          /\ f \in {op.from, op.path}
      BY <1>4 DEF Tree!Names, Tree!Source
    <2>2. QED
      BY <1>4, <2>1 DEF Tree!Effect
  <1>5. QED
    BY <1>1, <1>2, <1>3, <1>4 DEF Kinds

AllNames(plan) == UNION { Tree!Names(plan[i]) : i \in DOMAIN plan }

Apart(plan) ==
  \A i, j \in DOMAIN plan : i # j => Tree!Names(plan[i]) \intersect Tree!Names(plan[j]) = {}

LEMMA AfterNamed ==
  ASSUME NEW plan, Apart(plan), NEW files, NEW i \in DOMAIN plan,
         NEW f \in Files, f \in Tree!Names(plan[i])
  PROVE  Tree!After(plan, files)[f] = Tree!Effect(plan[i], files)[f]
  <1> DEFINE here == CHOOSE j \in DOMAIN plan : f \in Tree!Names(plan[j])
  <1>1. here \in DOMAIN plan /\ f \in Tree!Names(plan[here])
    OBVIOUS
  <1>2. here = i
    BY <1>1 DEF Apart
  <1>3. Tree!After(plan, files)[f] = Tree!Effect(plan[here], files)[f]
    BY DEF Tree!After
  <1>4. QED
    BY <1>2, <1>3

LEMMA AfterOthers ==
  ASSUME NEW plan, NEW files, NEW f \in Files, f \notin AllNames(plan)
  PROVE  Tree!After(plan, files)[f] = files[f]
  BY DEF Tree!After, AllNames

(* Both instances of PatchTree have the same operators.                     *)
LEMMA SameOperators ==
  ASSUME NEW plan, NEW files
  PROVE  /\ Promise!Look(files) = Tree!Look(files)
         /\ Promise!After(plan, files) = Tree!After(plan, files)
         /\ Promise!Valid(plan, files) <=> Tree!Valid(plan, files)
         /\ \A i \in DOMAIN plan : Promise!Names(plan[i]) = Tree!Names(plan[i])
  <1>1. \A op : Promise!Names(op) = Tree!Names(op)
    BY DEF Promise!Names, Promise!Source, Tree!Names, Tree!Source
  <1>2. \A op : Promise!Effect(op, files) = Tree!Effect(op, files)
    BY Zenon DEF Promise!Effect, Tree!Effect, Promise!NoFile, Tree!NoFile
  <1>3. Promise!After(plan, files) = Tree!After(plan, files)
    BY <1>1, <1>2, Zenon DEF Promise!After, Tree!After
  <1>4. Promise!Valid(plan, files) <=> Tree!Valid(plan, files)
    BY <1>1, Zenon DEF Promise!Valid, Tree!Valid, Promise!Disjoint, Tree!Disjoint, Promise!Fits,
         Tree!Fits, Promise!NamesDiffer, Tree!NamesDiffer, Promise!Source, Tree!Source,
         Promise!NoFile, Tree!NoFile
  <1>5. Promise!Look(files) = Tree!Look(files)
    BY Zenon DEF Promise!Look, Tree!Look
  <1>6. QED
    BY <1>1, <1>3, <1>4, <1>5

-----------------------------------------------------------------------------
(* The inductive invariant.                                                 *)

Shape ==
  /\ DOMAIN disk = Files /\ disk = [f \in Files |-> disk[f]]
  /\ pc \in [Callers -> Labels]
  /\ DOMAIN ops = Callers /\ DOMAIN index = Callers /\ DOMAIN backups = Callers
  /\ DOMAIN answer = Callers /\ DOMAIN seen = Callers /\ DOMAIN base = Callers
  /\ Directories \subseteq dirs

(* Who is not at work has changed nothing that a backup would restore.      *)
Quiet ==
  \A c \in Callers : pc[c] \in {"idle", "prepared", "preflight"} => DOMAIN backups[c] = {}

Alone == \A c, d \in Callers : pc[c] \in Working /\ pc[d] \in Working => c = d

(* The tree before a call, as its backups tell.                             *)
Before(c) == [f \in Files |-> IF f \in DOMAIN backups[c] THEN backups[c][f] ELSE disk[f]]

(* Operation i of a plan has passed its preflight against a tree.           *)
Fit(plan, i, files) ==
  Tree!Disjoint(plan, i) /\ Tree!Fits(plan[i], files) /\ Tree!Names(plan[i]) \subseteq Files

Checking(c, plan) ==
  pc[c] = "preflight" =>
    \A i \in DOMAIN plan : i < index[c] =>
      Fit(plan, i, disk) /\ Tree!Names(plan[i]) \subseteq seen[c]

Backing(c, plan) ==
  pc[c] = "backup" =>
    /\ plan[1].kind # "WriteFile"
    /\ \A i \in DOMAIN plan : Fit(plan, i, disk)
    /\ \A i \in DOMAIN plan : i < index[c] => Tree!Names(plan[i]) \subseteq DOMAIN backups[c]
    /\ DOMAIN backups[c] \subseteq AllNames(plan)
    /\ \A f \in DOMAIN backups[c] : backups[c][f] = disk[f]

(* The operations before the index are done, the others are not.            *)
Applying(c, plan) ==
  pc[c] = "apply" =>
    /\ \A i \in DOMAIN plan : Fit(plan, i, Before(c))
    /\ IF plan[1].kind = "WriteFile" THEN DOMAIN backups[c] = {}
                                     ELSE DOMAIN backups[c] = AllNames(plan)
    /\ \A i \in DOMAIN plan : \A f \in Tree!Names(plan[i]) :
         disk[f] = IF i < index[c] THEN Tree!Effect(plan[i], Before(c))[f] ELSE Before(c)[f]

(* What is not restored yet is as it was or as it was to be.                *)
Rolling(c, plan) ==
  pc[c] = "rollback" =>
    /\ DOMAIN backups[c] \subseteq AllNames(plan) \intersect Files
    /\ \A f \in DOMAIN backups[c] : disk[f] \in {backups[c][f], Tree!After(plan, Before(c))[f]}

(* As far as a snapshot shows it, the tree before is the one it was made for. *)
Based(c, ask) ==
  repository /\ ask[1].kind # "WriteFile" /\ pc[c] \in Working
    => base[c].files = Tree!Look(Before(c))

(* What a call does, of what it was asked.                                  *)
Unplanned(c, i) == pc[c] = "prepared" \/ (pc[c] = "preflight" /\ ~(i < index[c]))
Does(c, ask) ==
  LET plan == PlannedRequest(ask) IN
  /\ index[c] \in DOMAIN ask
  /\ ops[c] = [i \in DOMAIN ask |-> IF Unplanned(c, i) THEN ask[i] ELSE plan[i]]
  /\ pc[c] = "prepared" => index[c] = 1
  /\ Checking(c, plan) /\ Backing(c, plan) /\ Applying(c, plan) /\ Rolling(c, plan)
  /\ Based(c, ask)

Busy ==
  \A c \in Callers : pc[c] \in Working \union {"prepared"} =>
    answer[c] = "none" /\ \E ask \in Requests : Does(c, ask)

IInv == Shape /\ Quiet /\ Alone /\ Busy

(* Operations that have passed name different files.                        *)
LEMMA FitApart ==
  ASSUME NEW ask \in Requests, NEW files,
         \A i \in DOMAIN PlannedRequest(ask) : Fit(PlannedRequest(ask), i, files)
  PROVE  Apart(PlannedRequest(ask))
  <1> DEFINE plan == PlannedRequest(ask)
  <1>1. DOMAIN plan = 1..Len(ask) /\ Len(ask) \in Nat
    BY Asked DEF PlannedRequest
  <1>2. \A i \in DOMAIN plan : \A j \in 1..(i - 1) :
          Tree!Names(plan[i]) \intersect Tree!Names(plan[j]) = {}
    BY DEF Fit, Tree!Disjoint
  <1> HIDE DEF plan
  <1>3. ASSUME NEW i \in DOMAIN plan, NEW j \in DOMAIN plan, i # j
        PROVE  Tree!Names(plan[i]) \intersect Tree!Names(plan[j]) = {}
    <2>1. CASE j < i
      BY <1>1, <1>2, <1>3, <2>1
    <2>2. CASE i < j
      BY <1>1, <1>2, <1>3, <2>2
    <2>3. QED
      BY <1>1, <1>3, <2>1, <2>2
  <1>4. QED
    BY <1>3 DEF Apart, plan

(* The length of what is asked, and of its plan.                            *)
LEMMA LenIs ==
  ASSUME NEW s, NEW n \in Nat, s = [i \in 1..n |-> s[i]]
  PROVE  Len(s) = n
  <1> DEFINE S == { s[i] : i \in 1..n }
  <1>1. s \in [1..n -> S]
    OBVIOUS
  <1>2. s \in Seq(S)
    BY <1>1
  <1>3. DOMAIN s = 1..n
    OBVIOUS
  <1>4. DOMAIN s = 1..Len(s) /\ Len(s) \in Nat
    BY <1>2
  <1>5. QED
    BY <1>3, <1>4

LEMMA OpsLen ==
  ASSUME NEW c \in Callers, NEW ask \in Requests, Does(c, ask)
  PROVE  /\ Len(ops[c]) = Len(ask) /\ DOMAIN ops[c] = 1..Len(ask)
         /\ index[c] \in 1..Len(ask) /\ Len(ask) \in Nat
  <1>1. ops[c] = [i \in 1..Len(ask) |-> ops[c][i]] /\ Len(ask) \in Nat
    BY Asked DEF Does
  <1>2. QED
    BY <1>1, LenIs, Asked DEF Does

(* Every step of Settled is one of the call's own point of view.            *)
HeldIn(p, b, c, f) == p[c] # "dead" /\ f \in DOMAIN b[c]
SettledIn(p, b, d) ==
  [f \in Files |-> IF \E c \in Callers : HeldIn(p, b, c, f)
                   THEN b[CHOOSE c \in Callers : HeldIn(p, b, c, f)][f] ELSE d[f]]

LEMMA SettledByOne ==
  ASSUME NEW p, NEW b, NEW d, NEW c \in Callers, p[c] # "dead",
         \A e \in Callers : e # c /\ p[e] # "dead" => DOMAIN b[e] = {}
  PROVE  SettledIn(p, b, d) = [f \in Files |-> IF f \in DOMAIN b[c] THEN b[c][f] ELSE d[f]]
  <1>1. ASSUME NEW f \in Files, f \in DOMAIN b[c]
        PROVE  /\ \E e \in Callers : HeldIn(p, b, e, f)
               /\ (CHOOSE e \in Callers : HeldIn(p, b, e, f)) = c
    <2>1. HeldIn(p, b, c, f)
      BY <1>1 DEF HeldIn
    <2>2. \A e \in Callers : HeldIn(p, b, e, f) => e = c
      BY DEF HeldIn
    <2>3. QED
      BY <2>1, <2>2
  <1>2. ASSUME NEW f \in Files, f \notin DOMAIN b[c]
        PROVE  ~ \E e \in Callers : HeldIn(p, b, e, f)
    BY <1>2 DEF HeldIn
  <1>3. QED
    BY <1>1, <1>2 DEF SettledIn

LEMMA SettledByNone ==
  ASSUME NEW p, NEW b, NEW d, d = [f \in Files |-> d[f]],
         \A e \in Callers : p[e] # "dead" => DOMAIN b[e] = {}
  PROVE  SettledIn(p, b, d) = d
  <1>1. \A f \in Files : ~ \E e \in Callers : HeldIn(p, b, e, f)
    BY DEF HeldIn
  <1>2. SettledIn(p, b, d) = [f \in Files |-> d[f]]
    BY <1>1 DEF SettledIn
  <1>3. QED
    BY <1>2

LEMMA SettledNow ==
  /\ Settled = SettledIn(pc, backups, disk)
  /\ Settled' = SettledIn(pc', backups', disk')
  BY Zenon DEF Settled, Holds, SettledIn, HeldIn

-----------------------------------------------------------------------------
(* Shape, Quiet and Alone are kept by every step.                           *)

LEMMA EffectFunction ==
  ASSUME NEW op, op.kind \in Kinds, NEW files, files = [f \in Files |-> files[f]]
  PROVE  Tree!Effect(op, files) = [f \in Files |-> Tree!Effect(op, files)[f]]
  <1>1. files \in [Files -> { files[f] : f \in Files }]
    OBVIOUS
  <1>2. \E V : Tree!Effect(op, files) \in [Files -> V]
    <2>1. CASE op.kind \in {"CreateFile", "ModifyFile", "WriteFile"}
      <3>1. Tree!Effect(op, files) \in
              [Files -> { files[f] : f \in Files } \union {[content |-> op.content, mode |-> "private"]}]
        BY <1>1, <2>1 DEF Tree!Effect
      <3>2. QED
        BY <3>1
    <2>2. CASE op.kind = "DeleteFile"
      <3>1. Tree!Effect(op, files) \in [Files -> { files[f] : f \in Files } \union {NoFile}]
        BY <1>1, <2>2 DEF Tree!Effect, NoFile
      <3>2. QED
        BY <3>1
    <2>3. CASE op.kind = "SetExecutable"
      <3>1. Tree!Effect(op, files) \in
              [Files -> { files[f] : f \in Files } \union {[files[op.path] EXCEPT !.mode = op.new]}]
        BY <1>1, <2>3 DEF Tree!Effect
      <3>2. QED
        BY <3>1
    <2>4. CASE op.kind = "RenameFile"
      <3>1. Tree!Effect(op, files) \in
              [Files -> { files[f] : f \in Files } \union {NoFile, files[op.from]}]
        BY <1>1, <2>4 DEF Tree!Effect, NoFile
      <3>2. QED
        BY <3>1
    <2>5. QED
      BY <2>1, <2>2, <2>3, <2>4 DEF Kinds
  <1>3. QED
    BY <1>2

(* The operation a call is at, planned.                                     *)
LEMMA OpPlanned ==
  ASSUME NEW c \in Callers, NEW ask \in Requests, Does(c, ask),
         pc[c] \in {"backup", "apply", "rollback"}
  PROVE  /\ ops[c] = PlannedRequest(ask)
         /\ Op(c) = PlannedRequest(ask)[index[c]]
         /\ index[c] \in DOMAIN PlannedRequest(ask)
         /\ Op(c).kind \in Kinds
  <1>1. DOMAIN PlannedRequest(ask) = DOMAIN ask
        /\ PlannedRequest(ask) = [i \in DOMAIN ask |-> PlannedRequest(ask)[i]]
    BY DEF PlannedRequest
  <1>2. ops[c] = [i \in DOMAIN ask |-> PlannedRequest(ask)[i]] /\ index[c] \in DOMAIN ask
    BY DEF Does, Unplanned
  <1>3. ops[c] = PlannedRequest(ask)
    BY <1>1, <1>2
  <1>4. QED
    BY <1>1, <1>2, <1>3, PlanFields DEF Op

(* The operation that is applied is one of those there are.                 *)
KindsKnown == \A c \in Callers : pc[c] = "apply" => Op(c).kind \in Kinds

LEMMA KindsAre == Busy => KindsKnown
  BY OpPlanned DEF Busy, Working, KindsKnown

LEMMA ShapeStep == Shape /\ KindsKnown /\ [Next]_vars => Shape'
  <1> SUFFICES ASSUME Shape, KindsKnown, [Next]_vars PROVE Shape'
    OBVIOUS
  <1> USE DEF Shape, Labels
  <1>1. CASE UNCHANGED vars
    BY <1>1 DEF vars
  <1> SUFFICES ASSUME NEW c \in Callers,
                 \/ \E o \in Requests : Prepare(c, o)
                 \/ CheckSnapshot(c) \/ Preflight(c) \/ Backup(c)
                 \/ Stage(c) \/ ApplyOperation(c) \/ FailOperation(c)
                 \/ \E f \in Files : Restore(c, f)
                 \/ EndRollback(c) \/ FailRestore(c) \/ Crash(c)
               PROVE  Shape'
    BY <1>1 DEF Next
  <1>2. CASE \E o \in Requests : Prepare(c, o)
    BY <1>2 DEF Prepare, GoTo
  <1>3. CASE CheckSnapshot(c)
    BY <1>3 DEF CheckSnapshot, GoTo, Answer, request
  <1>4. CASE Preflight(c)
    <2>1. CASE Acceptable(c, Op(c))
      BY <1>4, <2>1 DEF Preflight, Advance, GoTo
    <2>2. CASE ~Acceptable(c, Op(c))
      BY <1>4, <2>2 DEF Preflight, Answer, GoTo
    <2>3. QED
      BY <2>1, <2>2
  <1>5. CASE Backup(c)
    BY <1>5 DEF Backup, Advance, GoTo, request
  <1>6. CASE Stage(c)
    BY <1>6 DEF Stage, MakeDirectories, request
  <1>7. CASE ApplyOperation(c)
    <2>1. Op(c).kind \in Kinds
      BY <1>7 DEF ApplyOperation, KindsKnown
    <2>2. DOMAIN disk' = Files /\ disk' = [f \in Files |-> disk'[f]]
      BY <1>7, <2>1, EffectDomain, EffectFunction DEF ApplyOperation
    <2>3. Directories \subseteq dirs'
      BY <1>7 DEF ApplyOperation, MakeDirectories
    <2>4. /\ pc' \in [Callers -> Labels]
          /\ DOMAIN index' = Callers /\ DOMAIN backups' = Callers /\ DOMAIN answer' = Callers
      BY <1>7 DEF ApplyOperation, Answer, GoTo
    <2>5. UNCHANGED <<ops, seen, base>>
      BY <1>7 DEF ApplyOperation, request
    <2>6. QED
      BY <2>2, <2>3, <2>4, <2>5
  <1>8. CASE FailOperation(c)
    BY <1>8 DEF FailOperation, MakeDirectories, GoTo, request
  <1>9. CASE \E f \in Files : Restore(c, f)
    BY <1>9 DEF Restore, MakeDirectories, request
  <1>10. CASE EndRollback(c)
    BY <1>10 DEF EndRollback, Answer, GoTo, request
  <1>11. CASE FailRestore(c)
    BY <1>11 DEF FailRestore, Answer, GoTo, request
  <1>12. CASE Crash(c)
    BY <1>12 DEF Crash, GoTo, request
  <1>13. QED
    BY <1>2, <1>3, <1>4, <1>5, <1>6, <1>7, <1>8, <1>9, <1>10, <1>11, <1>12

(* Where a step of a call takes it.                                         *)
LEMMA PcStep ==
  ASSUME Shape, Next
  PROVE  \E c \in Callers :
           /\ \A d \in Callers \ {c} :
                /\ pc'[d] = pc[d] /\ backups'[d] = backups[d] /\ ops'[d] = ops[d]
                /\ index'[d] = index[d] /\ answer'[d] = answer[d] /\ seen'[d] = seen[d]
                /\ base'[d] = base[d]
           /\ pc'[c] \in Working => \/ pc[c] \in Working
                                    \/ CheckSnapshot(c) /\ pc'[c] = "preflight" /\ UNCHANGED backups
           /\ pc'[c] = "prepared" => pc[c] = "idle" /\ UNCHANGED backups
           /\ pc'[c] = "preflight" => pc[c] \in {"prepared", "preflight"} /\ UNCHANGED backups
           /\ pc'[c] = "idle" => DOMAIN backups'[c] = {}
           /\ UNCHANGED disk \/ pc[c] \in Working
           /\ UNCHANGED repository /\ (pc[c] = "idle" \/ UNCHANGED base)
           /\ \/ \E o \in Requests : Prepare(c, o)
              \/ CheckSnapshot(c) \/ Preflight(c) \/ Backup(c)
              \/ Stage(c) \/ ApplyOperation(c) \/ FailOperation(c)
              \/ \E f \in Files : Restore(c, f)
              \/ EndRollback(c) \/ FailRestore(c) \/ Crash(c)
  <1> USE DEF Shape, Labels, Working, NoBackups
  <1> PICK c \in Callers :
             \/ \E o \in Requests : Prepare(c, o)
             \/ CheckSnapshot(c) \/ Preflight(c) \/ Backup(c)
             \/ Stage(c) \/ ApplyOperation(c) \/ FailOperation(c)
             \/ \E f \in Files : Restore(c, f)
             \/ EndRollback(c) \/ FailRestore(c) \/ Crash(c)
    BY DEF Next
  <1> WITNESS c \in Callers
  <1>2. CASE \E o \in Requests : Prepare(c, o)
    BY <1>2 DEF Prepare, GoTo
  <1>3. CASE CheckSnapshot(c)
    BY <1>3 DEF CheckSnapshot, GoTo, Answer, request
  <1>4. CASE Preflight(c)
    <2>1. CASE Acceptable(c, Op(c))
      BY <1>4, <2>1 DEF Preflight, Advance, GoTo
    <2>2. CASE ~Acceptable(c, Op(c))
      BY <1>4, <2>2 DEF Preflight, Answer, GoTo
    <2>3. QED
      BY <2>1, <2>2
  <1>5. CASE Backup(c)
    BY <1>5 DEF Backup, Advance, GoTo, request
  <1>6. CASE Stage(c)
    BY <1>6 DEF Stage, request
  <1>7. CASE ApplyOperation(c)
    BY <1>7 DEF ApplyOperation, Answer, GoTo, request
  <1>8. CASE FailOperation(c)
    BY <1>8 DEF FailOperation, GoTo, request
  <1>9. CASE \E f \in Files : Restore(c, f)
    BY <1>9 DEF Restore, request
  <1>10. CASE EndRollback(c)
    BY <1>10 DEF EndRollback, Answer, GoTo, request
  <1>11. CASE FailRestore(c)
    BY <1>11 DEF FailRestore, Answer, GoTo, request
  <1>12. CASE Crash(c)
    BY <1>12 DEF Crash, GoTo, request
  <1>13. QED
    BY <1>2, <1>3, <1>4, <1>5, <1>6, <1>7, <1>8, <1>9, <1>10, <1>11, <1>12

LEMMA QuietAloneStep == Exclusive /\ IInv /\ [Next]_vars => Quiet' /\ Alone'
  <1> SUFFICES ASSUME Exclusive, IInv, [Next]_vars PROVE Quiet' /\ Alone'
    OBVIOUS
  <1> USE DEF IInv, Quiet, Alone, Working, Labels
  <1>1. CASE UNCHANGED vars
    BY <1>1 DEF vars
  <1>2. CASE Next
    <2>1. PICK c \in Callers :
            /\ \A d \in Callers \ {c} : pc'[d] = pc[d] /\ backups'[d] = backups[d]
            /\ pc'[c] \in Working => \/ pc[c] \in Working
                                     \/ CheckSnapshot(c) /\ pc'[c] = "preflight" /\ UNCHANGED backups
            /\ pc'[c] = "prepared" => pc[c] = "idle" /\ UNCHANGED backups
            /\ pc'[c] = "preflight" => pc[c] \in {"prepared", "preflight"} /\ UNCHANGED backups
            /\ pc'[c] = "idle" => DOMAIN backups'[c] = {}
      BY <1>2, PcStep DEF IInv
    <2>2. Quiet'
      <3>1. ASSUME NEW d \in Callers, d # c, pc'[d] \in {"idle", "prepared", "preflight"}
            PROVE  DOMAIN backups'[d] = {}
        BY <2>1, <3>1
      <3>2. ASSUME pc'[c] \in {"idle", "prepared"} PROVE DOMAIN backups'[c] = {}
        BY <2>1, <3>2
      <3>3. ASSUME pc'[c] = "preflight" PROVE DOMAIN backups'[c] = {}
        BY <2>1, <3>3
      <3>4. QED
        BY <3>1, <3>2, <3>3
    <2>3. Alone'
      <3>1. ASSUME NEW d \in Callers, d # c, pc'[d] \in Working, pc'[c] \in Working
            PROVE  FALSE
        <4>1. pc[d] \in Working
          BY <2>1, <3>1
        <4>2. CASE pc[c] \in Working
          BY <3>1, <4>1, <4>2
        <4>3. CASE CheckSnapshot(c)
          BY <4>1, <4>3 DEF CheckSnapshot
        <4>4. QED
          BY <2>1, <3>1, <4>2, <4>3
      <3>2. QED
        BY <2>1, <3>1
    <2>4. QED
      BY <2>2, <2>3
  <1>3. QED
    BY <1>1, <1>2

(* A call that does not take the step, and whose tree stays, does what it did. *)
LEMMA DoesStays ==
  ASSUME NEW d \in Callers, NEW ask \in Requests, Does(d, ask),
         UNCHANGED <<pc[d], ops[d], index[d], backups[d], seen[d], base[d], repository>>,
         pc[d] = "prepared" \/ UNCHANGED disk
  PROVE  Does(d, ask)'
  <1>1. /\ index'[d] = index[d] /\ ops'[d] = ops[d] /\ pc'[d] = pc[d]
        /\ backups'[d] = backups[d] /\ seen'[d] = seen[d] /\ base'[d] = base[d]
        /\ repository' = repository
    OBVIOUS
  <1>2. CASE pc[d] = "prepared"
    BY <1>1, <1>2 DEF Does, Unplanned, Checking, Backing, Applying, Rolling, Based, Working
  <1>3. CASE UNCHANGED disk
    <2>1. Before(d)' = Before(d)
      BY <1>1, <1>3 DEF Before
    <2> DEFINE plan == PlannedRequest(ask)
    <2>2. Checking(d, plan)'
      BY <1>1, <1>3 DEF Does, Checking, Fit
    <2>3. Backing(d, plan)'
      BY <1>1, <1>3 DEF Does, Backing, Fit
    <2>4. Applying(d, plan)'
      BY <1>1, <1>3, <2>1 DEF Does, Applying, Fit
    <2>5. Rolling(d, plan)'
      BY <1>1, <1>3, <2>1 DEF Does, Rolling
    <2>6. Based(d, ask)'
      BY <1>1, <2>1 DEF Does, Based
    <2>7. /\ index'[d] \in DOMAIN ask
          /\ ops'[d] = [i \in DOMAIN ask |-> IF Unplanned(d, i)' THEN ask[i] ELSE plan[i]]
          /\ pc'[d] = "prepared" => index'[d] = 1
      BY <1>1 DEF Does, Unplanned
    <2>8. QED
      BY <2>2, <2>3, <2>4, <2>5, <2>6, <2>7 DEF Does
  <1>4. QED
    BY <1>2, <1>3

(* What is left to show of a step: that its caller goes on as it should.    *)
LEMMA BusyByOne ==
  ASSUME IInv, NEW c \in Callers,
         \A d \in Callers \ {c} :
           /\ pc'[d] = pc[d] /\ backups'[d] = backups[d] /\ ops'[d] = ops[d]
           /\ index'[d] = index[d] /\ answer'[d] = answer[d] /\ seen'[d] = seen[d]
           /\ base'[d] = base[d],
         UNCHANGED repository,
         UNCHANGED disk \/ pc[c] \in Working,
         pc'[c] \in Working \union {"prepared"} =>
           answer'[c] = "none" /\ \E ask \in Requests : Does(c, ask)'
  PROVE  Busy'
  <1>1. ASSUME NEW d \in Callers, d # c, pc'[d] \in Working \union {"prepared"}
        PROVE  answer'[d] = "none" /\ \E ask \in Requests : Does(d, ask)'
    <2>1. pc[d] \in Working \union {"prepared"}
      BY <1>1
    <2>2. PICK ask \in Requests : Does(d, ask)
      BY <2>1 DEF IInv, Busy
    <2>3. pc[d] = "prepared" \/ UNCHANGED disk
      BY <1>1, <2>1 DEF IInv, Alone
    <2>4. Does(d, ask)'
      BY <1>1, <2>2, <2>3, DoesStays
    <2>5. QED
      BY <1>1, <2>1, <2>4 DEF IInv, Busy
  <1>2. QED
    BY <1>1 DEF Busy

-----------------------------------------------------------------------------
(* Each step does what the invariant says of its caller.                    *)

LEMMA PrepareDoes ==
  ASSUME IInv, NEW c \in Callers, NEW ask \in Requests, Prepare(c, ask)
  PROVE  answer'[c] = "none" /\ Does(c, ask)'
  <1>1. /\ pc'[c] = "prepared" /\ index'[c] = 1 /\ ops'[c] = ask /\ answer'[c] = "none"
    BY DEF Prepare, GoTo, IInv, Shape
  <1>2. 1 \in DOMAIN ask /\ ask = [i \in DOMAIN ask |-> ask[i]]
    BY Asked
  <1>3. QED
    BY <1>1, <1>2 DEF Does, Unplanned, Checking, Backing, Applying, Rolling, Based, Working

LEMMA CheckSnapshotDoes ==
  ASSUME IInv, NEW c \in Callers, NEW ask \in Requests, Does(c, ask),
         CheckSnapshot(c), pc'[c] = "preflight"
  PROVE  Does(c, ask)'
  <1>1. /\ pc[c] = "prepared" /\ index[c] = 1 /\ index' = index /\ ops' = ops
        /\ base' = base /\ repository' = repository /\ disk' = disk
    BY DEF CheckSnapshot, Does, request
  <1>2. ops[c] = ask
    BY <1>1, Asked DEF Does, Unplanned
  <1>3. /\ backups' = backups
        /\ repository /\ ask[1].kind # "WriteFile" => base[c] = Snapshot
    BY <1>1, <1>2 DEF CheckSnapshot, Op, Answer, GoTo, IInv, Shape
  <1>4. Based(c, ask)'
    <2>1. Before(c)' = disk
      BY <1>1, <1>3 DEF Before, IInv, Quiet, Shape
    <2>2. Snapshot.files = Tree!Look(disk)
      BY DEF Snapshot
    <2>3. QED
      BY <1>1, <1>3, <2>1, <2>2 DEF Based
  <1>5. \A i \in DOMAIN ask : ~(i < 1)
    BY Asked
  <1>6. ops'[c] = [i \in DOMAIN ask |-> IF Unplanned(c, i)' THEN ask[i] ELSE PlannedRequest(ask)[i]]
    BY <1>1, <1>2, <1>5, Asked DEF Unplanned
  <1>7. DOMAIN PlannedRequest(ask) = DOMAIN ask
    BY DEF PlannedRequest
  <1>8. Checking(c, PlannedRequest(ask))'
    BY <1>1, <1>5, <1>7 DEF Checking
  <1>9. QED
    BY <1>1, <1>4, <1>6, <1>8 DEF Does, Backing, Applying, Rolling

LEMMA PlannedIs ==
  ASSUME Direct, IInv, NEW c \in Callers, NEW ask \in Requests, Does(c, ask),
         pc[c] = "preflight", Acceptable(c, Op(c))
  PROVE  LET plan == PlannedRequest(ask)  i == index[c] IN
         /\ Op(c) = ask[i] /\ i \in DOMAIN ask
         /\ Planned(Op(c)) = plan[i]
         /\ Fit(plan, i, disk)
         /\ { Named(Op(c))[raw] : raw \in Tree!Names(Op(c)) } = Tree!Names(plan[i])
  <1> DEFINE plan == PlannedRequest(ask)
             i == index[c]
             op == ask[i]
  <1>1. i \in DOMAIN ask /\ Op(c) = op
    BY Asked DEF Does, Unplanned, Op
  <1>2. \A raw \in Tree!Names(op) :
          Named(op)[raw] = Place(raw) /\ Paths!Resolve(Place(raw)) = Place(raw)
          /\ Place(raw) \in Files \union Directories /\ Place(raw) \notin seen[c]
    <2> TAKE raw \in Tree!Names(op)
    <2>1. Directories \subseteq There
      BY DEF There, IInv, Shape
    <2>2. Named(op)[raw] = Paths!NormalizeRepoPath(raw, There)
      BY DEF Named
    <2>3. Named(op)[raw] \in {None, Place(raw)} /\ Paths!Resolve(Place(raw)) = Place(raw)
          /\ Place(raw) \in Files \union Directories
      BY <1>1, <2>1, <2>2 DEF Direct
    <2>4. Named(op)[raw] # None /\ Named(op)[raw] \notin seen[c]
      BY <1>1 DEF Acceptable
    <2>5. QED
      BY <2>3, <2>4
  <1>3. op.path \in Tree!Names(op) /\ (op.kind = "RenameFile" => op.from \in Tree!Names(op))
    BY DEF Tree!Names, Tree!Source
  <1>4. Planned(op) = At(op, Place(op.path),
                         IF op.kind = "RenameFile" THEN Place(op.from) ELSE op.from)
    BY <1>2, <1>3 DEF Planned
  <1>5. Planned(op) = plan[i]
    BY <1>1, <1>4 DEF PlannedRequest
  <1>6. Tree!Names(plan[i]) = { Place(raw) : raw \in Tree!Names(op) }
    BY <1>1, PlanFields
  <1>7. Tree!Names(plan[i]) \intersect dirs = {} /\ Tree!Fits(plan[i], disk)
    BY <1>1, <1>5 DEF Acceptable
  <1>8. Tree!Names(plan[i]) \subseteq Files
    BY <1>2, <1>6, <1>7 DEF IInv, Shape
  <1>9. Tree!NamesDiffer(plan[i])
    <2>1. op.kind = "RenameFile" => Named(op)[op.from] # Named(op)[op.path]
      BY <1>1 DEF Acceptable
    <2>2. op.kind = "RenameFile" => Place(op.from) # Place(op.path)
      BY <1>2, <1>3, <2>1
    <2>3. QED
      BY <1>1, <2>2, PlanFields DEF Tree!NamesDiffer
  <1>10. \A j \in 1..(i - 1) : Tree!Names(plan[i]) \intersect Tree!Names(plan[j]) = {}
    <2>1. \A j \in 1..(i - 1) : j \in DOMAIN plan /\ j < i
      <3>1. DOMAIN plan = 1..Len(ask) /\ i \in 1..Len(ask) /\ Len(ask) \in Nat
        BY <1>1, Asked, PlanFields
      <3> HIDE DEF plan, i
      <3>2. QED
        BY <3>1
    <2>2. \A j \in 1..(i - 1) : Tree!Names(plan[j]) \subseteq seen[c]
      BY <2>1 DEF Does, Checking
    <2>3. QED
      BY <1>2, <1>6, <2>2
  <1>11. Fit(plan, i, disk)
    BY <1>7, <1>8, <1>9, <1>10 DEF Fit, Tree!Disjoint
  <1>12. { Named(op)[raw] : raw \in Tree!Names(op) } = Tree!Names(plan[i])
    BY <1>2, <1>6
  <1>13. QED
    BY <1>1, <1>5, <1>11, <1>12

LEMMA PreflightDoes ==
  ASSUME Direct, IInv, NEW c \in Callers, NEW ask \in Requests, Does(c, ask),
         Preflight(c), pc'[c] \in Working
  PROVE  Does(c, ask)' /\ answer' = answer
  <1> DEFINE plan == PlannedRequest(ask)
             i == index[c]
  <1>1. Acceptable(c, Op(c)) /\ pc[c] = "preflight"
    BY DEF Preflight, Answer, GoTo, Working, IInv, Shape
  <1>2. /\ Op(c) = ask[i] /\ i \in DOMAIN ask
        /\ Planned(ask[i]) = plan[i]
        /\ Fit(plan, i, disk)
        /\ { Named(Op(c))[raw] : raw \in Tree!Names(Op(c)) } = Tree!Names(plan[i])
    BY <1>1, PlannedIs
  <1>3. /\ ops' = [ops EXCEPT ![c][i] = Planned(@)]
        /\ seen'[c] = seen[c] \union Tree!Names(plan[i])
        /\ UNCHANGED <<answer, backups, disk, repository, base>>
        /\ Advance(c, IF Op(c).kind = "WriteFile" THEN "apply" ELSE "backup")
    BY <1>1, <1>2 DEF Preflight, IInv, Shape
  <1>4. ops[c] = [k \in DOMAIN ask |-> IF ~(k < i) THEN ask[k] ELSE plan[k]]
    BY <1>1 DEF Does, Unplanned
  <1>5. ops'[c] = [k \in DOMAIN ask |-> IF ~(k < i + 1) THEN ask[k] ELSE plan[k]]
    <2>1. ops'[c] = [ops[c] EXCEPT ![i] = Planned(ops[c][i])]
      BY <1>3 DEF IInv, Shape
    <2>2. ops[c][i] = ask[i]
      BY <1>2, <1>4, Asked
    <2>3. ops'[c] = [k \in DOMAIN ask |-> IF k = i THEN plan[i] ELSE ops[c][k]]
      BY <1>2, <1>4, <2>1, <2>2
    <2>4. \A k \in DOMAIN ask : k \in Nat /\ i \in Nat
      BY <1>2, Asked
    <2>5. QED
      BY <1>4, <2>3, <2>4
  <1>6. \A j \in DOMAIN plan : j < i + 1 => Fit(plan, j, disk) /\ Tree!Names(plan[j]) \subseteq seen'[c]
    <2>1. \A j \in DOMAIN plan : j < i => Fit(plan, j, disk) /\ Tree!Names(plan[j]) \subseteq seen[c]
      BY <1>1 DEF Does, Checking
    <2>2. \A j \in DOMAIN plan : j < i + 1 => j < i \/ j = i
      BY <1>2, Asked, PlanFields
    <2>3. QED
      BY <1>2, <1>3, <2>1, <2>2
  <1>7. DOMAIN plan = DOMAIN ask /\ DOMAIN ask = 1..Len(ask) /\ Len(ask) \in Nat \ {0}
        /\ Len(ops[c]) = Len(ask)
    BY PlanFields, OpsLen, Asked, <1>2
  <1>8. DOMAIN backups[c] = {} /\ DOMAIN backups'[c] = {}
    BY <1>1, <1>3 DEF IInv, Quiet
  <1>9. repository /\ ask[1].kind # "WriteFile" => base[c].files = Tree!Look(Before(c))
    BY <1>1 DEF Does, Based, Working
  <1>10. Based(c, ask)'
    <2>1. Before(c)' = Before(c)
      BY <1>3, <1>8 DEF Before
    <2>2. QED
      BY <1>3, <1>9, <2>1 DEF Based
  <1>11. CASE i < Len(ask)
    <2>1. index'[c] = i + 1 /\ pc'[c] = "preflight" /\ i + 1 \in DOMAIN ask
      BY <1>1, <1>2, <1>3, <1>7, <1>11 DEF Advance, IInv, Shape
    <2>2. Checking(c, plan)'
      BY <1>3, <1>6, <2>1 DEF Checking, Fit
    <2>3. QED
      BY <1>3, <1>5, <1>10, <2>1, <2>2 DEF Does, Unplanned, Backing, Applying, Rolling
  <1>12. CASE ~(i < Len(ask))
    <2>1. i = Len(ask) /\ index'[c] = 1 /\ 1 \in DOMAIN ask
          /\ pc'[c] = IF ask[i].kind = "WriteFile" THEN "apply" ELSE "backup"
      BY <1>1, <1>2, <1>3, <1>7, <1>12 DEF Advance, GoTo, IInv, Shape
    <2>2. ask[i].kind = "WriteFile" <=> ask[1].kind = "WriteFile"
      BY <1>2, <1>7, <2>1, Asked
    <2>3. plan[1].kind = ask[1].kind
      BY <2>1, PlanFields
    <2>4. \A j \in DOMAIN plan : Fit(plan, j, disk)
      BY <1>6, <1>7, <2>1
    <2>5. Before(c)' = disk
      BY <1>3, <1>8 DEF Before, IInv, Shape
    <2>6. \A j \in DOMAIN plan : ~(j < 1)
      BY <1>7
    <2>7. Backing(c, plan)'
      BY <1>3, <1>8, <2>1, <2>2, <2>3, <2>4, <2>6 DEF Backing, Fit
    <2>8. Applying(c, plan)'
      BY <1>3, <1>8, <2>1, <2>2, <2>3, <2>4, <2>5, <2>6 DEF Applying, Fit
    <2>9. ops'[c] = [k \in DOMAIN ask |-> plan[k]]
      BY <1>5, <1>7, <2>1
    <2>10. QED
      BY <1>3, <1>10, <2>1, <2>7, <2>8, <2>9 DEF Does, Unplanned, Checking, Rolling
  <1>13. QED
    BY <1>3, <1>11, <1>12

LEMMA BackupDoes ==
  ASSUME IInv, NEW c \in Callers, NEW ask \in Requests, Does(c, ask), Backup(c)
  PROVE  Does(c, ask)' /\ answer' = answer /\ Before(c)' = Before(c)
  <1> DEFINE plan == PlannedRequest(ask)
             i == index[c]
  <1>1. /\ pc[c] = "backup" /\ Op(c) = plan[i] /\ ops[c] = plan /\ ops' = ops
        /\ UNCHANGED <<answer, disk, repository, base, seen>>
        /\ Advance(c, "apply")
    BY OpPlanned DEF Backup, request
  <1>2. /\ DOMAIN backups'[c] = DOMAIN backups[c] \union Tree!Names(plan[i])
        /\ \A f \in DOMAIN backups'[c] :
             backups'[c][f] = IF f \in DOMAIN backups[c] THEN backups[c][f] ELSE disk[f]
    BY <1>1 DEF Backup, IInv, Shape
  <1>3. /\ plan[1].kind # "WriteFile"
        /\ \A j \in DOMAIN plan : Fit(plan, j, disk)
        /\ \A j \in DOMAIN plan : j < i => Tree!Names(plan[j]) \subseteq DOMAIN backups[c]
        /\ DOMAIN backups[c] \subseteq AllNames(plan)
        /\ \A f \in DOMAIN backups[c] : backups[c][f] = disk[f]
    BY <1>1 DEF Does, Backing
  <1>4. /\ DOMAIN plan = DOMAIN ask /\ DOMAIN ask = 1..Len(ask) /\ Len(ask) \in Nat \ {0}
        /\ Len(ops[c]) = Len(ask) /\ i \in DOMAIN ask
        /\ plan = [j \in DOMAIN ask |-> plan[j]]
    <2>1. plan = [j \in DOMAIN ask |-> plan[j]]
      BY DEF PlannedRequest
    <2>2. QED
      BY PlanFields, OpsLen, Asked, <2>1
  <1>5. Tree!Names(plan[i]) \subseteq AllNames(plan)
    BY <1>4 DEF AllNames
  <1>6. \A f \in DOMAIN backups'[c] : backups'[c][f] = disk[f]
    BY <1>2, <1>3
  <1>7. DOMAIN backups'[c] \subseteq AllNames(plan)
    BY <1>2, <1>3, <1>5
  <1>8. \A j \in DOMAIN plan : j < i + 1 => Tree!Names(plan[j]) \subseteq DOMAIN backups'[c]
    <2>1. \A j \in DOMAIN plan : j < i + 1 => j < i \/ j = i
      BY <1>4
    <2>2. QED
      BY <1>2, <1>3, <2>1
  <1>9. Before(c)' = Before(c)
    BY <1>1, <1>2, <1>3 DEF Before, IInv, Shape
  <1>10. Based(c, ask)'
    BY <1>1, <1>9 DEF Does, Based, Working
  <1> HIDE DEF plan, i
  <1>11. CASE i < Len(ask)
    <2>1. index'[c] = i + 1 /\ pc'[c] = "backup" /\ i + 1 \in DOMAIN ask
      BY <1>1, <1>4, <1>11 DEF Advance, IInv, Shape, i
    <2>2. Backing(c, plan)'
      BY <1>1, <1>3, <1>6, <1>7, <1>8, <2>1 DEF Backing, Fit
    <2>3. QED
      BY <1>1, <1>4, <1>9, <1>10, <2>1, <2>2 DEF Does, Unplanned, Checking, Applying, Rolling, plan
  <1>12. CASE ~(i < Len(ask))
    <2>1. i = Len(ask) /\ index'[c] = 1 /\ 1 \in DOMAIN ask /\ pc'[c] = "apply"
      BY <1>1, <1>4, <1>12 DEF Advance, GoTo, IInv, Shape, i
    <2>2. DOMAIN backups'[c] = AllNames(plan)
      BY <1>4, <1>7, <1>8, <2>1 DEF AllNames
    <2>3. Before(c)' = disk
      BY <1>1, <1>6 DEF Before, IInv, Shape
    <2>4. \A j \in DOMAIN plan : ~(j < 1) /\ Tree!Names(plan[j]) \subseteq Files
      <3>1. \A j \in DOMAIN plan : ~(j < 1)
        BY <1>4
      <3>2. \A j \in DOMAIN plan : Tree!Names(plan[j]) \subseteq Files
        BY <1>3 DEF Fit
      <3>3. QED
        BY <3>1, <3>2
    <2>5. Applying(c, plan)'
      BY <1>1, <1>3, <2>1, <2>2, <2>3, <2>4 DEF Applying, Fit
    <2>6. QED
      BY <1>1, <1>4, <1>9, <1>10, <2>1, <2>5 DEF Does, Unplanned, Checking, Backing, Rolling, plan
  <1>13. QED
    BY <1>1, <1>9, <1>11, <1>12

LEMMA StageDoes ==
  ASSUME NEW c \in Callers, NEW ask \in Requests, Does(c, ask), Stage(c)
  PROVE  Does(c, ask)' /\ answer' = answer
  BY DoesStays DEF Stage, request

(* What an operation finds and leaves.                                      *)
LEMMA Applies ==
  ASSUME IInv, NEW c \in Callers, NEW ask \in Requests, Does(c, ask), ApplyOperation(c)
  PROVE  LET plan == PlannedRequest(ask) IN
         /\ pc[c] = "apply" /\ Op(c) = plan[index[c]] /\ ops[c] = plan
         /\ index[c] \in 1..Len(ask) /\ DOMAIN plan = 1..Len(ask)
         /\ Len(ops[c]) = Len(ask) /\ Len(ask) \in Nat
         /\ Apart(plan) /\ \A j \in DOMAIN plan : Fit(plan, j, Before(c))
         /\ \A j \in DOMAIN plan : \A f \in Tree!Names(plan[j]) :
              disk'[f] = IF j < index[c] + 1 THEN Tree!Effect(plan[j], Before(c))[f]
                                             ELSE Before(c)[f]
         /\ \A f \in Files \ Tree!Names(plan[index[c]]) : disk'[f] = disk[f]
         /\ DOMAIN disk' = Files
  <1> DEFINE plan == PlannedRequest(ask)
             i == index[c]
  <1>1. /\ pc[c] = "apply" /\ Op(c) = plan[i] /\ ops[c] = plan
        /\ plan[i].kind \in Kinds /\ disk' = Tree!Effect(plan[i], disk)
    BY OpPlanned DEF ApplyOperation
  <1>2. i \in 1..Len(ask) /\ DOMAIN plan = 1..Len(ask) /\ Len(ops[c]) = Len(ask) /\ Len(ask) \in Nat
    BY OpsLen, PlanFields, Asked
  <1>3. /\ \A j \in DOMAIN plan : Fit(plan, j, Before(c))
        /\ \A j \in DOMAIN plan : \A f \in Tree!Names(plan[j]) :
             disk[f] = IF j < i THEN Tree!Effect(plan[j], Before(c))[f] ELSE Before(c)[f]
    BY <1>1 DEF Does, Applying
  <1>4. Apart(plan)
    BY <1>3, FitApart
  <1>5. DOMAIN disk = Files /\ DOMAIN disk' = Files /\ DOMAIN Before(c) = Files
    BY <1>1, EffectDomain DEF IInv, Shape, Before
  <1> HIDE DEF plan, i
  <1>6. \A f \in Files \ Tree!Names(plan[i]) : disk'[f] = disk[f]
    BY <1>1, <1>5, EffectLocal
  <1>7. ASSUME NEW j \in DOMAIN plan, NEW f \in Tree!Names(plan[j])
        PROVE  disk'[f] = IF j < i + 1 THEN Tree!Effect(plan[j], Before(c))[f] ELSE Before(c)[f]
    <2>1. CASE j = i
      <3>1. \A g \in Tree!Names(plan[i]) : disk[g] = Before(c)[g]
        BY <1>2, <1>3
      <3>2. Tree!Names(plan[i]) \subseteq Files
        BY <1>2, <1>3 DEF Fit
      <3>3. Tree!Effect(plan[i], disk)[f] = Tree!Effect(plan[i], Before(c))[f]
        BY <1>1, <1>5, <1>7, <2>1, <3>1, <3>2, EffectSame
      <3>4. i < i + 1
        BY <1>2
      <3>5. QED
        BY <1>1, <2>1, <3>3, <3>4
    <2>2. CASE j # i
      <3>1. f \in Files \ Tree!Names(plan[i])
        BY <1>2, <1>3, <1>4, <1>7, <2>2 DEF Fit, Apart
      <3>2. disk'[f] = disk[f]
        BY <1>6, <3>1
      <3>3. j < i + 1 <=> j < i
        BY <1>2, <2>2
      <3>4. QED
        BY <1>3, <1>7, <3>2, <3>3
    <2>3. QED
      BY <2>1, <2>2
  <1>8. QED
    BY <1>1, <1>2, <1>3, <1>4, <1>5, <1>6, <1>7 DEF plan, i

LEMMA ApplyDoes ==
  ASSUME IInv, NEW c \in Callers, NEW ask \in Requests, Does(c, ask),
         ApplyOperation(c), index[c] < Len(ops[c])
  PROVE  Does(c, ask)' /\ answer' = answer /\ Before(c)' = Before(c)
  <1> DEFINE plan == PlannedRequest(ask)
             i == index[c]
  <1>1. /\ pc[c] = "apply" /\ ops[c] = plan /\ i \in 1..Len(ask) /\ DOMAIN plan = 1..Len(ask)
        /\ Len(ops[c]) = Len(ask) /\ Len(ask) \in Nat
        /\ \A j \in DOMAIN plan : Fit(plan, j, Before(c))
        /\ \A j \in DOMAIN plan : \A f \in Tree!Names(plan[j]) :
             disk'[f] = IF j < i + 1 THEN Tree!Effect(plan[j], Before(c))[f] ELSE Before(c)[f]
        /\ \A f \in Files \ Tree!Names(plan[i]) : disk'[f] = disk[f]
    BY Applies
  <1>2. /\ index'[c] = i + 1 /\ UNCHANGED <<pc, answer, backups, ops, base, seen, repository>>
    BY DEF ApplyOperation, request, IInv, Shape
  <1>3. plan[1].kind # "WriteFile"
    <2>1. 1 \in DOMAIN ask /\ Len(ask) # 1
      BY <1>1, Asked
    <2>2. ask[1].kind # "WriteFile"
      BY <2>1, Asked
    <2>3. QED
      BY <2>1, <2>2, PlanFields
  <1>4. DOMAIN backups[c] = AllNames(plan)
    BY <1>1, <1>3 DEF Does, Applying
  <1>5. Before(c)' = Before(c)
    <2>1. Tree!Names(plan[i]) \subseteq DOMAIN backups[c]
      BY <1>1, <1>4 DEF AllNames
    <2>2. \A f \in Files : f \notin DOMAIN backups[c] => disk'[f] = disk[f]
      BY <1>1, <2>1
    <2>3. QED
      BY <1>2, <2>2 DEF Before
  <1>6. plan = [j \in DOMAIN ask |-> plan[j]] /\ DOMAIN ask = 1..Len(ask)
    BY Asked DEF PlannedRequest
  <1>7. i + 1 # 1 /\ i + 1 \in DOMAIN ask
    <2>1. i < Len(ask)
      BY <1>1
    <2> HIDE DEF i
    <2>2. QED
      BY <1>1, <1>6, <2>1
  <1> HIDE DEF plan, i
  <1>8. pc'[c] = "apply" /\ ops'[c] = [j \in DOMAIN ask |-> plan[j]]
    BY <1>1, <1>2, <1>6
  <1>9. Applying(c, plan)'
    BY <1>1, <1>2, <1>3, <1>4, <1>5 DEF Applying, Fit
  <1>10. Based(c, ask)'
    BY <1>1, <1>2, <1>5 DEF Does, Based, Working
  <1>11. QED
    BY <1>2, <1>5, <1>7, <1>8, <1>9, <1>10 DEF Does, Unplanned, Checking, Backing, Rolling, plan

LEMMA FailDoes ==
  ASSUME IInv, NEW c \in Callers, NEW ask \in Requests, Does(c, ask), FailOperation(c)
  PROVE  Does(c, ask)' /\ answer' = answer
  <1> DEFINE plan == PlannedRequest(ask)
             i == index[c]
  <1>1. /\ pc[c] = "apply" /\ ops[c] = plan /\ pc'[c] = "rollback"
        /\ UNCHANGED <<answer, disk, repository, base, seen, ops, index, backups>>
    BY OpPlanned DEF FailOperation, GoTo, request, IInv, Shape
  <1>2. /\ \A j \in DOMAIN plan : Fit(plan, j, Before(c))
        /\ DOMAIN backups[c] \subseteq AllNames(plan)
        /\ \A j \in DOMAIN plan : \A f \in Tree!Names(plan[j]) :
             disk[f] = IF j < i THEN Tree!Effect(plan[j], Before(c))[f] ELSE Before(c)[f]
    BY <1>1 DEF Does, Applying
  <1>3. Apart(plan)
    BY <1>2, FitApart
  <1>4. AllNames(plan) \subseteq Files
    BY <1>2 DEF AllNames, Fit
  <1>5. Before(c)' = Before(c)
    BY <1>1 DEF Before
  <1>6. ASSUME NEW f \in DOMAIN backups[c]
        PROVE  disk[f] \in {backups[c][f], Tree!After(plan, Before(c))[f]}
    <2>1. PICK j \in DOMAIN plan : f \in Tree!Names(plan[j])
      BY <1>2 DEF AllNames
    <2>2. f \in Files
      BY <1>2, <1>4
    <2>3. Before(c)[f] = backups[c][f]
      BY <2>2 DEF Before
    <2>4. Tree!After(plan, Before(c))[f] = Tree!Effect(plan[j], Before(c))[f]
      BY <1>3, <2>1, <2>2, AfterNamed
    <2>5. QED
      BY <1>2, <2>1, <2>3, <2>4
  <1>7. Rolling(c, plan)'
    BY <1>1, <1>2, <1>4, <1>5, <1>6 DEF Rolling
  <1>8. plan = [j \in DOMAIN ask |-> plan[j]] /\ index[c] \in DOMAIN ask
    BY DEF PlannedRequest, Does
  <1>9. Based(c, ask)'
    BY <1>1, <1>5 DEF Does, Based, Working
  <1>10. QED
    BY <1>1, <1>7, <1>8, <1>9 DEF Does, Unplanned, Checking, Backing, Applying

LEMMA RestoreDoes ==
  ASSUME IInv, NEW c \in Callers, NEW ask \in Requests, Does(c, ask),
         NEW f \in Files, Restore(c, f)
  PROVE  Does(c, ask)' /\ answer' = answer /\ Before(c)' = Before(c)
  <1> DEFINE plan == PlannedRequest(ask)
  <1>1. /\ pc[c] = "rollback" /\ ops[c] = plan /\ f \in DOMAIN backups[c]
        /\ UNCHANGED <<answer, pc, repository, base, seen, ops, index>>
        /\ disk' = [disk EXCEPT ![f] = backups[c][f]]
        /\ backups'[c] = [g \in DOMAIN backups[c] \ {f} |-> backups[c][g]]
    BY OpPlanned DEF Restore, request, IInv, Shape
  <1>2. /\ DOMAIN backups[c] \subseteq AllNames(plan) \intersect Files
        /\ \A g \in DOMAIN backups[c] : disk[g] \in {backups[c][g], Tree!After(plan, Before(c))[g]}
    BY <1>1 DEF Does, Rolling
  <1>3. Before(c)' = Before(c)
    BY <1>1 DEF Before, IInv, Shape
  <1>4. \A g \in DOMAIN backups'[c] : disk'[g] = disk[g] /\ backups'[c][g] = backups[c][g]
    BY <1>1, <1>2 DEF IInv, Shape
  <1>5. Rolling(c, plan)'
    BY <1>1, <1>2, <1>3, <1>4 DEF Rolling
  <1>6. plan = [j \in DOMAIN ask |-> plan[j]] /\ index[c] \in DOMAIN ask
    BY DEF PlannedRequest, Does
  <1>7. Based(c, ask)'
    BY <1>1, <1>3 DEF Does, Based, Working
  <1>8. QED
    BY <1>1, <1>3, <1>5, <1>6, <1>7 DEF Does, Unplanned, Checking, Backing, Applying

LEMMA BusyStep ==
  ASSUME Direct, IInv, [Next]_vars
  PROVE  Busy'
  <1>1. CASE UNCHANGED vars
    <2>1. ASSUME NEW d \in Callers, pc'[d] \in Working \union {"prepared"}
          PROVE  answer'[d] = "none" /\ \E ask \in Requests : Does(d, ask)'
      <3>1. UNCHANGED <<pc[d], ops[d], index[d], backups[d], seen[d], base[d], repository,
                        disk, answer[d]>>
        BY <1>1 DEF vars
      <3>2. answer[d] = "none" /\ \E ask \in Requests : Does(d, ask)
        BY <2>1, <3>1 DEF IInv, Busy
      <3>3. QED
        BY <3>1, <3>2, DoesStays
    <2>2. QED
      BY <2>1 DEF Busy
  <1>2. CASE Next
    <2>1. PICK c \in Callers :
            /\ \A d \in Callers \ {c} :
                 /\ pc'[d] = pc[d] /\ backups'[d] = backups[d] /\ ops'[d] = ops[d]
                 /\ index'[d] = index[d] /\ answer'[d] = answer[d] /\ seen'[d] = seen[d]
                 /\ base'[d] = base[d]
            /\ UNCHANGED disk \/ pc[c] \in Working
            /\ UNCHANGED repository
            /\ \/ \E o \in Requests : Prepare(c, o)
               \/ CheckSnapshot(c) \/ Preflight(c) \/ Backup(c)
               \/ Stage(c) \/ ApplyOperation(c) \/ FailOperation(c)
               \/ \E f \in Files : Restore(c, f)
               \/ EndRollback(c) \/ FailRestore(c) \/ Crash(c)
      BY <1>2, PcStep DEF IInv
    <2>2. SUFFICES ASSUME pc'[c] \in Working \union {"prepared"}
                   PROVE  answer'[c] = "none" /\ \E ask \in Requests : Does(c, ask)'
      BY <2>1, BusyByOne
    <2>3. pc[c] \in Working \union {"prepared"} =>
            answer[c] = "none" /\ \E ask \in Requests : Does(c, ask)
      BY DEF IInv, Busy
    <2>4. pc \in [Callers -> Labels]
      BY DEF IInv, Shape
    <2>5. CASE \E o \in Requests : Prepare(c, o)
      BY <2>5, PrepareDoes
    <2>6. CASE CheckSnapshot(c)
      <3>1. pc'[c] = "preflight" /\ answer' = answer /\ pc[c] = "prepared"
        BY <2>2, <2>4, <2>6 DEF CheckSnapshot, Answer, GoTo, Working
      <3>2. QED
        BY <2>3, <2>6, <3>1, CheckSnapshotDoes
    <2>7. CASE Preflight(c)
      <3>1. pc'[c] \in Working /\ pc[c] \in Working
        BY <2>2, <2>4, <2>7 DEF Preflight, Advance, Answer, GoTo, Working
      <3>2. QED
        BY <2>3, <2>7, <3>1, PreflightDoes
    <2>8. CASE Backup(c)
      BY <2>3, <2>8, BackupDoes DEF Backup, Working
    <2>9. CASE Stage(c)
      BY <2>3, <2>9, StageDoes DEF Stage, Working
    <2>10. CASE ApplyOperation(c)
      <3>1. index[c] < Len(ops[c])
        BY <2>2, <2>4, <2>10 DEF ApplyOperation, Answer, GoTo, Working
      <3>2. QED
        BY <2>3, <2>10, <3>1, ApplyDoes DEF ApplyOperation, Working
    <2>11. CASE FailOperation(c)
      BY <2>3, <2>11, FailDoes DEF FailOperation, Working
    <2>12. CASE \E f \in Files : Restore(c, f)
      <3>1. PICK f \in Files : Restore(c, f)
        BY <2>12
      <3>2. QED
        BY <2>3, <3>1, RestoreDoes DEF Restore, Working
    <2>13. CASE EndRollback(c) \/ FailRestore(c) \/ Crash(c)
      BY <2>2, <2>4, <2>13 DEF EndRollback, FailRestore, Crash, Answer, GoTo, Working
    <2>14. QED
      BY <2>1, <2>5, <2>6, <2>7, <2>8, <2>9, <2>10, <2>11, <2>12, <2>13
  <1>3. QED
    BY <1>1, <1>2

LEMMA InvStep == Exclusive /\ Direct /\ IInv /\ [Next]_vars => IInv'
  BY ShapeStep, KindsAre, QuietAloneStep, BusyStep DEF IInv

LEMMA InvInit == Init => IInv
  <1> SUFFICES ASSUME Init PROVE IInv
    OBVIOUS
  <1>1. Shape
    <2>1. DOMAIN disk = Files /\ disk = [f \in Files |-> disk[f]]
      BY DEF Init
    <2>2. QED
      BY <2>1 DEF Init, Shape, Labels
  <1>2. Quiet
    BY DEF Init, Quiet, NoBackups
  <1>3. Alone /\ Busy
    BY DEF Init, Alone, Busy, Working
  <1>4. QED
    BY <1>1, <1>2, <1>3 DEF IInv

(* A temporary file lies in the tree only while its call is at work or dead. *)
TempsAtWork ==
  pc \in [Callers -> Labels] /\ \A c \in Callers : c \in temps => pc[c] \in {"apply", "dead"}

(* No call that has answered leaves a temporary file, however calls         *)
(* interleave and whatever fails.                                           *)
THEOREM NoTempStays == Spec => []NoTempLeft
  <1>1. Init => TempsAtWork
    BY DEF Init, TempsAtWork, Labels
  <1>2. TempsAtWork /\ [Next]_vars => TempsAtWork'
    <2> SUFFICES ASSUME TempsAtWork, [Next]_vars PROVE TempsAtWork'
      OBVIOUS
    <2> USE DEF TempsAtWork, Labels
    <2>1. CASE UNCHANGED vars
      BY <2>1 DEF vars
    <2>2. ASSUME NEW c \in Callers, NEW ask \in Requests, Prepare(c, ask) PROVE TempsAtWork'
      BY <2>2 DEF Prepare, GoTo
    <2>3. ASSUME NEW c \in Callers, CheckSnapshot(c) PROVE TempsAtWork'
      BY <2>3 DEF CheckSnapshot, GoTo, Answer
    <2>4. ASSUME NEW c \in Callers, Preflight(c) PROVE TempsAtWork'
      BY <2>4 DEF Preflight, Advance, GoTo, Answer
    <2>5. ASSUME NEW c \in Callers, Backup(c) PROVE TempsAtWork'
      BY <2>5 DEF Backup, Advance, GoTo
    <2>6. ASSUME NEW c \in Callers, Stage(c) PROVE TempsAtWork'
      BY <2>6 DEF Stage
    <2>7. ASSUME NEW c \in Callers, ApplyOperation(c) PROVE TempsAtWork'
      BY <2>7 DEF ApplyOperation, GoTo, Answer
    <2>8. ASSUME NEW c \in Callers, FailOperation(c) PROVE TempsAtWork'
      BY <2>8 DEF FailOperation, GoTo
    <2>9. ASSUME NEW c \in Callers, NEW f \in Files, Restore(c, f) PROVE TempsAtWork'
      BY <2>9 DEF Restore
    <2>10. ASSUME NEW c \in Callers, EndRollback(c) \/ FailRestore(c) PROVE TempsAtWork'
      BY <2>10 DEF EndRollback, FailRestore, GoTo, Answer
    <2>11. ASSUME NEW c \in Callers, Crash(c) PROVE TempsAtWork'
      BY <2>11 DEF Crash, GoTo
    <2>12. QED
      BY <2>1, <2>2, <2>3, <2>4, <2>5, <2>6, <2>7, <2>8, <2>9, <2>10, <2>11 DEF Next
  <1>3. TempsAtWork => NoTempLeft
    BY DEF TempsAtWork, NoTempLeft
  <1>4. QED
    BY <1>1, <1>2, <1>3, PTL DEF Spec

-----------------------------------------------------------------------------
(* Refinement of PatchTree.                                                 *)

(* At most one call holds backups, and it is at work.                       *)
LEMMA OneHolds ==
  ASSUME IInv, NEW c \in Callers, NEW d \in Callers, d # c, pc[c] \in Working, pc[d] # "dead"
  PROVE  DOMAIN backups[d] = {}
  BY DEF IInv, Shape, Labels, Working, Quiet, Alone

LEMMA SettledIsBefore ==
  ASSUME IInv, NEW c \in Callers, pc[c] \in Working
  PROVE  Settled = Before(c)
  <1>1. \A e \in Callers : e # c /\ pc[e] # "dead" => DOMAIN backups[e] = {}
    BY OneHolds
  <1>2. pc[c] # "dead"
    BY DEF Working
  <1>3. SettledIn(pc, backups, disk) = Before(c)
    <2>1. SettledIn(pc, backups, disk)
            = [f \in Files |-> IF f \in DOMAIN backups[c] THEN backups[c][f] ELSE disk[f]]
      <3>1. ASSUME NEW p, NEW b, NEW d, p = pc, b = backups, d = disk
            PROVE  SettledIn(p, b, d) = [f \in Files |-> IF f \in DOMAIN b[c] THEN b[c][f] ELSE d[f]]
        BY <1>1, <1>2, <3>1, SettledByOne
      <3>2. QED
        BY <3>1
    <2>2. QED
      BY <2>1 DEF Before
  <1>4. QED
    BY <1>3, SettledNow

(* A step that leaves the tree, and what backups are held, settles nothing. *)
LEMMA SettledSame ==
  ASSUME NEW p, NEW b, NEW d, NEW q, NEW h,
         \A c, e \in Callers : \A f : HeldIn(p, b, c, f) /\ HeldIn(p, b, e, f) => c = e,
         \A c \in Callers : \A f : HeldIn(p, b, c, f) <=> HeldIn(q, h, c, f),
         \A c \in Callers : \A f : HeldIn(p, b, c, f) => b[c][f] = h[c][f]
  PROVE  SettledIn(q, h, d) = SettledIn(p, b, d)
  <1>1. ASSUME NEW f \in Files, NEW c \in Callers, HeldIn(p, b, c, f)
        PROVE  /\ (CHOOSE e \in Callers : HeldIn(p, b, e, f)) = c
               /\ (CHOOSE e \in Callers : HeldIn(q, h, e, f)) = c
    <2>1. \A e \in Callers : HeldIn(p, b, e, f) => e = c
      BY <1>1
    <2>2. \A e \in Callers : HeldIn(q, h, e, f) => e = c
      BY <2>1
    <2>3. HeldIn(q, h, c, f)
      BY <1>1
    <2>4. QED
      BY <1>1, <2>1, <2>2, <2>3
  <1>2. \A f \in Files : (\E c \in Callers : HeldIn(p, b, c, f)) <=> (\E c \in Callers : HeldIn(q, h, c, f))
    OBVIOUS
  <1>3. ASSUME NEW f \in Files PROVE SettledIn(q, h, d)[f] = SettledIn(p, b, d)[f]
    <2>1. CASE \E c \in Callers : HeldIn(p, b, c, f)
      BY <1>1, <1>2, <2>1 DEF SettledIn
    <2>2. CASE ~ \E c \in Callers : HeldIn(p, b, c, f)
      BY <1>2, <2>2 DEF SettledIn
    <2>3. QED
      BY <2>1, <2>2
  <1>4. QED
    BY <1>3 DEF SettledIn

(* What others hold is nothing while one call is at work, after it too.     *)
LEMMA SettledThen ==
  ASSUME IInv, NEW c \in Callers, pc[c] \in Working,
         \A d \in Callers \ {c} : pc'[d] = pc[d] /\ backups'[d] = backups[d],
         disk' = [f \in Files |-> disk'[f]]
  PROVE  /\ pc'[c] \in Working => Settled' = Before(c)'
         /\ (pc'[c] = "dead" \/ DOMAIN backups'[c] = {}) => Settled' = disk'
  <1>1. \A d \in Callers : d # c /\ pc'[d] # "dead" => DOMAIN backups'[d] = {}
    BY OneHolds
  <1>2. ASSUME pc'[c] \in Working PROVE Settled' = Before(c)'
    <2>1. pc'[c] # "dead"
      BY <1>2 DEF Working
    <2>2. SettledIn(pc', backups', disk')
            = [f \in Files |-> IF f \in DOMAIN backups'[c] THEN backups'[c][f] ELSE disk'[f]]
      BY <1>1, <2>1, SettledByOne
    <2>3. QED
      BY <2>2, SettledNow DEF Before
  <1>3. ASSUME pc'[c] = "dead" \/ DOMAIN backups'[c] = {} PROVE Settled' = disk'
    <2>1. \A d \in Callers : pc'[d] # "dead" => DOMAIN backups'[d] = {}
      BY <1>1, <1>3
    <2>2. SettledIn(pc', backups', disk') = disk'
      BY <2>1, SettledByNone
    <2>3. QED
      BY <2>2, SettledNow
  <1>4. QED
    BY <1>2, <1>3

(* A step of a call that holds nothing, before and after it.                *)
LEMMA SettledStays ==
  ASSUME IInv, NEW c \in Callers, DOMAIN backups[c] = {}, DOMAIN backups'[c] = {},
         \A d \in Callers \ {c} : pc'[d] = pc[d] /\ backups'[d] = backups[d],
         UNCHANGED disk
  PROVE  Settled' = Settled
  <1>1. \A d, e \in Callers : \A f : HeldIn(pc, backups, d, f) /\ HeldIn(pc, backups, e, f) => d = e
    <2> TAKE d, e \in Callers
    <2> SUFFICES ASSUME NEW f, HeldIn(pc, backups, d, f), HeldIn(pc, backups, e, f) PROVE d = e
      OBVIOUS
    <2>1. pc[d] \in Working /\ pc[e] \in Working
      BY DEF HeldIn, IInv, Shape, Quiet, Labels, Working
    <2>2. QED
      BY <2>1 DEF IInv, Alone
  <1>2. \A d \in Callers : \A f : HeldIn(pc, backups, d, f) <=> HeldIn(pc', backups', d, f)
    BY DEF HeldIn
  <1>3. \A d \in Callers : \A f : HeldIn(pc, backups, d, f) => backups[d][f] = backups'[d][f]
    BY DEF HeldIn
  <1>4. SettledIn(pc', backups', disk) = SettledIn(pc, backups, disk)
    BY <1>1, <1>2, <1>3, SettledSame
  <1>5. QED
    BY <1>4, SettledNow

(* While a call is at work its files are as they were or as they are to be, *)
(* and no other file has changed.                                           *)
LEMMA HalfDone ==
  ASSUME IInv, NEW c \in Callers, NEW ask \in Requests, Does(c, ask), pc[c] \in Working,
         NEW f \in Files
  PROVE  LET plan == PlannedRequest(ask) IN
         \/ disk[f] = Before(c)[f]
         \/ f \in AllNames(plan) /\ disk[f] = Tree!After(plan, Before(c))[f]
  <1> DEFINE plan == PlannedRequest(ask)
  <1>1. CASE f \notin DOMAIN backups[c] /\ (pc[c] # "apply" \/ f \notin AllNames(plan))
    BY <1>1 DEF Before
  <1>2. CASE f \in DOMAIN backups[c] /\ pc[c] # "apply"
    <2>1. Before(c)[f] = backups[c][f]
      BY <1>2 DEF Before
    <2>2. pc[c] = "backup" \/ pc[c] = "rollback"
      BY <1>2 DEF IInv, Quiet, Working
    <2>3. CASE pc[c] = "backup"
      BY <1>2, <2>1, <2>3 DEF Does, Backing
    <2>4. CASE pc[c] = "rollback"
      BY <1>2, <2>1, <2>4 DEF Does, Rolling
    <2>5. QED
      BY <2>2, <2>3, <2>4
  <1>3. CASE pc[c] = "apply" /\ f \in AllNames(plan)
    <2>1. PICK j \in DOMAIN plan : f \in Tree!Names(plan[j])
      BY <1>3 DEF AllNames
    <2>2. disk[f] = IF j < index[c] THEN Tree!Effect(plan[j], Before(c))[f] ELSE Before(c)[f]
      BY <1>3, <2>1 DEF Does, Applying
    <2>3. Apart(plan)
      BY <1>3, FitApart DEF Does, Applying
    <2>4. Tree!After(plan, Before(c))[f] = Tree!Effect(plan[j], Before(c))[f]
      BY <2>1, <2>3, AfterNamed
    <2>5. QED
      BY <1>3, <2>2, <2>4
  <1>4. CASE f \in DOMAIN backups[c] /\ pc[c] = "apply" /\ f \notin AllNames(plan)
    BY <1>4 DEF Does, Applying
  <1>5. QED
    BY <1>1, <1>2, <1>3, <1>4

(* What was told to a caller.                                               *)
LEMMA ToldBy ==
  ASSUME IInv, NEW c \in Callers,
         \A d \in Callers \ {c} : pc'[d] = pc[d] /\ answer'[d] = answer[d],
         pc[c] # "dead"
  PROVE  /\ Told[c] = answer[c]
         /\ Told' = [Told EXCEPT ![c] = IF pc'[c] = "dead" THEN "broken" ELSE answer'[c]]
  BY DEF Told

(* A call that stops halfway breaks its promise no further than allowed.    *)
LEMMA BreakIs ==
  ASSUME IInv, NEW c \in Callers, NEW ask \in Requests, Does(c, ask), pc[c] \in Working,
         Settled = Before(c), Settled' = disk, Told[c] # "broken",
         UNCHANGED <<repository, Bases>>,
         Told' = [Told EXCEPT ![c] = "broken"]
  PROVE  Promise!Next
  <1> DEFINE plan == PlannedRequest(ask)
             kept == { f \in AllNames(plan) : disk[f] = Before(c)[f] }
  <1>1. plan \in PlannedRequests
    BY DEF PlannedRequests
  <1>2. ASSUME NEW f \in Files
        PROVE  disk[f] = IF f \in kept THEN Before(c)[f] ELSE Tree!After(plan, Before(c))[f]
    <2>1. CASE f \in AllNames(plan)
      BY <2>1, HalfDone
    <2>2. CASE f \notin AllNames(plan)
      BY <2>2, HalfDone, AfterOthers
    <2>3. QED
      BY <2>1, <2>2
  <1>3. disk = [f \in Files |-> IF f \in kept THEN Before(c)[f] ELSE Tree!After(plan, Before(c))[f]]
    BY <1>2 DEF IInv, Shape
  <1>4. /\ Promise!After(plan, Before(c)) = Tree!After(plan, Before(c))
        /\ \A i \in DOMAIN plan : Promise!Names(plan[i]) = Tree!Names(plan[i])
    BY SameOperators
  <1>5. UNION { Promise!Names(plan[i]) : i \in DOMAIN plan } = AllNames(plan)
    BY <1>4 DEF AllNames
  <1> HIDE DEF plan
  <1>6. kept \in SUBSET UNION { Promise!Names(plan[i]) : i \in DOMAIN plan }
    BY <1>5
  <1>7. Promise!Break(c, plan)
    <2>1. Settled' = [f \in Files |-> IF f \in kept THEN Settled[f]
                                      ELSE Promise!After(plan, Settled)[f]]
      BY <1>3, <1>4
    <2> HIDE DEF kept
    <2>2. QED
      BY <1>6, <2>1 DEF Promise!Break, Promise!Answer
  <1>8. QED
    BY <1>1, <1>7 DEF Promise!Next

(* The last operation of a request makes all of it true.                    *)
LEMMA ApplyIs ==
  ASSUME IInv, NEW c \in Callers, NEW ask \in Requests, Does(c, ask), pc[c] \in Working,
         ApplyOperation(c), ~(index[c] < Len(ops[c])), disk' = [f \in Files |-> disk'[f]],
         Settled = Before(c), Settled' = disk', Told[c] = "none",
         UNCHANGED <<repository, Bases>>,
         Told' = [Told EXCEPT ![c] = "applied"]
  PROVE  Promise!Next
  <1> DEFINE plan == PlannedRequest(ask)
             i == index[c]
  <1>1. /\ pc[c] = "apply" /\ i \in 1..Len(ask) /\ DOMAIN plan = 1..Len(ask)
        /\ Len(ops[c]) = Len(ask) /\ Len(ask) \in Nat
        /\ Apart(plan) /\ \A j \in DOMAIN plan : Fit(plan, j, Before(c))
        /\ \A j \in DOMAIN plan : \A f \in Tree!Names(plan[j]) :
             disk'[f] = IF j < i + 1 THEN Tree!Effect(plan[j], Before(c))[f] ELSE Before(c)[f]
        /\ \A f \in Files \ Tree!Names(plan[i]) : disk'[f] = disk[f]
    BY Applies
  <1>2. i = Len(ask) /\ i \in DOMAIN plan
    BY <1>1
  <1>3. plan \in PlannedRequests
    BY DEF PlannedRequests
  <1>4. DOMAIN backups[c] \subseteq AllNames(plan)
    BY <1>1 DEF Does, Applying
  <1> HIDE DEF plan, i
  <1>5. ASSUME NEW f \in Files PROVE disk'[f] = Tree!After(plan, Before(c))[f]
    <2>1. CASE f \in AllNames(plan)
      <3>1. PICK j \in DOMAIN plan : f \in Tree!Names(plan[j])
        BY <2>1 DEF AllNames
      <3>2. j < i + 1
        BY <1>1, <1>2
      <3>3. Tree!After(plan, Before(c))[f] = Tree!Effect(plan[j], Before(c))[f]
        BY <1>1, <3>1, AfterNamed
      <3>4. QED
        BY <1>1, <3>1, <3>2, <3>3
    <2>2. CASE f \notin AllNames(plan)
      <3>1. disk'[f] = disk[f]
        BY <1>1, <1>2, <2>2 DEF AllNames
      <3>2. Before(c)[f] = disk[f]
        BY <1>4, <2>2 DEF Before
      <3>3. QED
        BY <2>2, <3>1, <3>2, AfterOthers
    <2>3. QED
      BY <2>1, <2>2
  <1>6. disk' = Tree!After(plan, Before(c))
    <2>1. Tree!After(plan, Before(c)) = [f \in Files |-> Tree!After(plan, Before(c))[f]]
      BY DEF Tree!After
    <2>2. QED
      BY <1>5, <2>1
  <1>7. Tree!Valid(plan, Before(c))
    BY <1>1 DEF Tree!Valid, Fit
  <1>8. Promise!After(plan, Settled) = Tree!After(plan, Settled)
        /\ (Promise!Valid(plan, Settled) <=> Tree!Valid(plan, Settled))
        /\ Promise!Look(Settled) = Tree!Look(Settled)
    BY SameOperators
  <1>9. repository /\ plan[1].kind # "WriteFile" => Bases[c] = Tree!Look(Before(c))
    <2>1. plan[1].kind = ask[1].kind
      BY PlanFields, Asked DEF plan
    <2>2. QED
      BY <1>1, <2>1 DEF Does, Based, Bases, Working
  <1>10. Promise!Apply(c, plan)
    BY <1>6, <1>7, <1>8, <1>9 DEF Promise!Apply, Promise!Answer
  <1>11. QED
    BY <1>3, <1>10 DEF Promise!Next

LEMMA TreeStep ==
  ASSUME Direct, IInv, Shape', Next
  PROVE  Promise!Next \/ UNCHANGED Promise!vars
  <1>1. PICK c \in Callers :
          /\ \A d \in Callers \ {c} :
               pc'[d] = pc[d] /\ backups'[d] = backups[d] /\ answer'[d] = answer[d]
                 /\ base'[d] = base[d]
          /\ UNCHANGED repository /\ (pc[c] = "idle" \/ UNCHANGED base)
          /\ \/ \E o \in Requests : Prepare(c, o)
             \/ CheckSnapshot(c) \/ Preflight(c) \/ Backup(c)
             \/ Stage(c) \/ ApplyOperation(c) \/ FailOperation(c)
             \/ \E f \in Files : Restore(c, f)
             \/ EndRollback(c) \/ FailRestore(c) \/ Crash(c)
    BY PcStep DEF IInv
  <1>2. /\ pc \in [Callers -> Labels] /\ DOMAIN answer = Callers /\ DOMAIN backups = Callers
        /\ disk' = [f \in Files |-> disk'[f]]
        /\ pc[c] # "idle" => UNCHANGED <<repository, Bases>>
    BY <1>1 DEF IInv, Shape, Bases
  <1>3. pc[c] # "dead"
    BY <1>1, <1>2 DEF Prepare, CheckSnapshot, Preflight, Backup, Stage, ApplyOperation,
         FailOperation, Restore, EndRollback, FailRestore, Crash
  <1>4. /\ Told[c] = answer[c]
        /\ Told' = [Told EXCEPT ![c] = IF pc'[c] = "dead" THEN "broken" ELSE answer'[c]]
    BY <1>1, <1>3, ToldBy
  <1>5. \A code : answer' = [answer EXCEPT ![c] = code] => answer'[c] = code
    BY <1>2
  <1>6. pc[c] \in Working =>
          /\ Settled = Before(c)
          /\ pc'[c] \in Working => Settled' = Before(c)'
          /\ (pc'[c] = "dead" \/ DOMAIN backups'[c] = {}) => Settled' = disk'
    BY <1>1, <1>2, SettledIsBefore, SettledThen
  <1>7. pc[c] \in Working \union {"prepared"} =>
          answer[c] = "none" /\ \E ask \in Requests : Does(c, ask)
    BY DEF IInv, Busy
  <1>8. DOMAIN backups[c] = {} /\ DOMAIN backups'[c] = {} /\ UNCHANGED disk => Settled' = Settled
    BY <1>1, SettledStays
  <1>9. pc[c] \in {"idle", "prepared", "preflight"} => DOMAIN backups[c] = {}
    BY DEF IInv, Quiet
  <1>10. \A code \in {"refused", "raised"} :
           Told[c] = "none" /\ Settled' = Settled /\ answer'[c] = code
             /\ pc[c] # "idle" /\ pc'[c] = "idle" => Promise!Next
    <2>1. ASSUME NEW code \in {"refused", "raised"}, Told[c] = "none", Settled' = Settled,
                 answer'[c] = code, pc[c] # "idle", pc'[c] = "idle"
          PROVE  Promise!Refuse(c)
      BY <1>2, <1>4, <2>1 DEF Promise!Refuse, Promise!Answer
    <2>2. QED
      BY <2>1 DEF Promise!Next
  <1>11. pc[c] # "dead" /\ pc'[c] # "dead" /\ answer'[c] = answer[c] => Told' = Told
    BY <1>4 DEF Told
  <1>12. CASE \E o \in Requests : Prepare(c, o)
    <2>1. PICK o \in Requests : Prepare(c, o)
      BY <1>12
    <2>2. pc[c] = "idle" /\ pc'[c] = "prepared" /\ answer'[c] = "none"
          /\ UNCHANGED disk /\ UNCHANGED backups
      BY <1>2, <2>1 DEF Prepare, GoTo
    <2>3. Bases' = [Bases EXCEPT ![c] = Bases'[c]]
      BY <1>1 DEF Bases
    <2>4. Promise!Begin(c)
      BY <1>1, <1>4, <1>8, <1>9, <2>2, <2>3 DEF Promise!Begin, Promise!Answer
    <2>5. QED
      BY <2>4 DEF Promise!Next
  <1>13. CASE CheckSnapshot(c)
    <2>1. pc[c] = "prepared" /\ UNCHANGED disk
      BY <1>13 DEF CheckSnapshot
    <2>2. CASE pc'[c] = "preflight"
      <3>1. UNCHANGED answer /\ UNCHANGED backups
        BY <1>2, <1>13, <2>2 DEF CheckSnapshot, Answer, GoTo
      <3>2. QED
        BY <1>2, <1>3, <1>8, <1>9, <1>11, <2>1, <2>2, <3>1 DEF Promise!vars
    <2>3. CASE pc'[c] # "preflight"
      <3>1. pc'[c] = "idle" /\ answer'[c] = "refused" /\ DOMAIN backups'[c] = {}
        BY <1>2, <1>13, <2>3 DEF CheckSnapshot, Answer, GoTo, NoBackups
      <3>2. QED
        BY <1>4, <1>7, <1>8, <1>9, <1>10, <2>1, <3>1
    <2>4. QED
      BY <2>2, <2>3
  <1>14. CASE Preflight(c)
    <2>1. pc[c] = "preflight" /\ UNCHANGED disk /\ pc[c] \in Working
      BY <1>14 DEF Preflight, Working
    <2>2. CASE Acceptable(c, Op(c))
      <3>1. UNCHANGED answer /\ UNCHANGED backups /\ pc'[c] # "dead"
        BY <1>2, <1>14, <2>2 DEF Preflight, Advance, GoTo
      <3>2. QED
        BY <1>2, <1>3, <1>8, <1>9, <1>11, <2>1, <3>1 DEF Promise!vars
    <2>3. CASE ~Acceptable(c, Op(c))
      <3>1. pc'[c] = "idle" /\ answer'[c] = "refused" /\ DOMAIN backups'[c] = {}
        BY <1>2, <1>14, <2>3 DEF Preflight, Answer, GoTo, NoBackups
      <3>2. QED
        BY <1>4, <1>7, <1>8, <1>9, <1>10, <2>1, <3>1
    <2>4. QED
      BY <2>2, <2>3
  <1>15. CASE Backup(c)
    <2>1. pc[c] \in Working /\ pc'[c] \in Working
      BY <1>2, <1>15 DEF Backup, Advance, GoTo, Working
    <2>2. answer' = answer /\ Before(c)' = Before(c)
      BY <1>7, <1>15, <2>1, BackupDoes
    <2>3. QED
      BY <1>2, <1>3, <1>6, <1>11, <2>1, <2>2 DEF Promise!vars, Working
  <1>16. CASE Stage(c) \/ FailOperation(c)
    <2>1. pc[c] \in Working /\ pc'[c] \in Working /\ UNCHANGED <<answer, disk, backups>>
      BY <1>2, <1>16 DEF Stage, FailOperation, GoTo, Working
    <2>2. Before(c)' = Before(c)
      BY <2>1 DEF Before
    <2>3. QED
      BY <1>2, <1>3, <1>6, <1>11, <2>1, <2>2 DEF Promise!vars, Working
  <1>17. CASE ApplyOperation(c)
    <2>1. pc[c] \in Working /\ pc[c] = "apply"
      BY <1>17 DEF ApplyOperation, Working
    <2>2. PICK ask \in Requests : Does(c, ask)
      BY <1>7, <2>1
    <2>3. CASE index[c] < Len(ops[c])
      <3>1. pc'[c] \in Working
        BY <1>17, <2>1, <2>3 DEF ApplyOperation, Working
      <3>2. answer' = answer /\ Before(c)' = Before(c)
        BY <1>17, <2>2, <2>3, ApplyDoes
      <3>3. QED
        BY <1>2, <1>3, <1>6, <1>11, <2>1, <3>1, <3>2 DEF Promise!vars, Working
    <2>4. CASE ~(index[c] < Len(ops[c]))
      <3>1. pc'[c] = "idle" /\ answer'[c] = "applied" /\ DOMAIN backups'[c] = {}
        BY <1>2, <1>17, <2>4 DEF ApplyOperation, Answer, GoTo, NoBackups
      <3>2. QED
        BY <1>2, <1>4, <1>6, <1>7, <1>17, <2>1, <2>2, <2>4, <3>1, ApplyIs
    <2>5. QED
      BY <2>3, <2>4
  <1>18. CASE \E f \in Files : Restore(c, f)
    <2>1. PICK f \in Files : Restore(c, f)
      BY <1>18
    <2>2. pc[c] \in Working /\ pc'[c] \in Working
      BY <2>1 DEF Restore, Working
    <2>3. answer' = answer /\ Before(c)' = Before(c)
      BY <1>7, <2>1, <2>2, RestoreDoes
    <2>4. QED
      BY <1>2, <1>3, <1>6, <1>11, <2>2, <2>3 DEF Promise!vars, Working
  <1>19. CASE EndRollback(c)
    <2>1. /\ pc[c] \in Working /\ DOMAIN backups[c] = {} /\ UNCHANGED disk
          /\ pc'[c] = "idle" /\ answer'[c] = "raised" /\ DOMAIN backups'[c] = {}
      BY <1>2, <1>19 DEF EndRollback, Answer, GoTo, NoBackups, Working
    <2>2. QED
      BY <1>4, <1>7, <1>8, <1>10, <2>1 DEF Working
  <1>20. CASE FailRestore(c)
    <2>1. /\ pc[c] \in Working /\ disk' = disk
          /\ pc'[c] = "idle" /\ answer'[c] = "broken" /\ DOMAIN backups'[c] = {}
      BY <1>2, <1>20 DEF FailRestore, Answer, GoTo, NoBackups, Working
    <2>2. PICK ask \in Requests : Does(c, ask)
      BY <1>7, <2>1
    <2>3. QED
      BY <1>2, <1>4, <1>6, <1>7, <2>1, <2>2, BreakIs DEF Working
  <1>21. CASE Crash(c) /\ pc[c] \in Working
    <2>1. disk' = disk /\ pc'[c] = "dead"
      BY <1>2, <1>21 DEF Crash, GoTo
    <2>2. PICK ask \in Requests : Does(c, ask)
      BY <1>7, <1>21
    <2>3. QED
      BY <1>2, <1>4, <1>6, <1>7, <1>21, <2>1, <2>2, BreakIs DEF Working
  <1>22. CASE Crash(c) /\ pc[c] \notin Working
    <2>1. pc[c] = "prepared" /\ pc'[c] = "dead" /\ UNCHANGED disk /\ UNCHANGED backups
      BY <1>2, <1>22 DEF Crash, GoTo, Labels, Working
    <2>2. PICK ask \in Requests : Does(c, ask)
      BY <1>7, <2>1
    <2> DEFINE plan == PlannedRequest(ask)
    <2>3. Settled' = Settled /\ Told[c] # "broken" /\ Told' = [Told EXCEPT ![c] = "broken"]
      BY <1>4, <1>7, <1>8, <1>9, <2>1
    <2>4. Settled = [f \in Files |-> IF f \in AllNames(plan) THEN Settled[f]
                                     ELSE Promise!After(plan, Settled)[f]]
      <3>1. \A f \in Files \ AllNames(plan) : Promise!After(plan, Settled)[f] = Settled[f]
        BY SameOperators, AfterOthers
      <3>2. Settled = [f \in Files |-> Settled[f]]
        BY DEF Settled
      <3>3. QED
        BY <3>1, <3>2
    <2>5. AllNames(plan) = UNION { Promise!Names(plan[i]) : i \in DOMAIN plan }
      BY SameOperators DEF AllNames
    <2>6. plan \in PlannedRequests
      BY DEF PlannedRequests
    <2> HIDE DEF plan
    <2>7. Promise!Break(c, plan)
      BY <1>2, <2>1, <2>3, <2>4, <2>5 DEF Promise!Break, Promise!Answer
    <2>8. QED
      BY <2>6, <2>7 DEF Promise!Next
  <1>23. QED
    BY <1>1, <1>12, <1>13, <1>14, <1>15, <1>16, <1>17, <1>18, <1>19, <1>20, <1>21, <1>22

(* A PatchSet changes the whole tree or none of it, and its answer tells    *)
(* which, for any callers, files, links and requests, while calls exclude   *)
(* each other and no name passes a link that leads nowhere.                 *)
THEOREM PatchSetIsAtomic == Exclusive /\ Direct => (Spec => ImplementsPatchTree)
  <1>1. SUFFICES ASSUME Exclusive /\ Direct PROVE Spec => ImplementsPatchTree
    OBVIOUS
  <1>2. Init => Promise!Init
    <2> SUFFICES ASSUME Init PROVE Promise!Init
      OBVIOUS
    <2>1. \A c \in Callers : DOMAIN backups[c] = {}
      BY InvInit DEF Init, IInv, Quiet
    <2>2. disk = [f \in Files |-> disk[f]]
      BY InvInit DEF IInv, Shape
    <2>3. SettledIn(pc, backups, disk) = disk
      BY <2>1, <2>2, SettledByNone
    <2>4. Settled = disk
      BY <2>3, SettledNow
    <2>5. Told = [c \in Callers |-> "none"]
      BY DEF Init, Told
    <2>6. Bases = [c \in Callers |-> Promise!Look(disk)]
      BY SameOperators DEF Init, Bases, Snapshot
    <2>7. QED
      BY <2>4, <2>5, <2>6 DEF Init, Promise!Init, Promise!NoFile, NoFile, Tree!NoFile
  <1>3. IInv /\ IInv' /\ [Next]_vars => [Promise!Next]_Promise!vars
    <2>1. ASSUME UNCHANGED vars PROVE UNCHANGED Promise!vars
      <3>1. Settled' = Settled /\ Told' = Told /\ Bases' = Bases
        BY <2>1, Zenon DEF vars, Settled, Holds, Told, Bases
      <3>2. QED
        BY <2>1, <3>1 DEF vars, Promise!vars
    <2>2. QED
      BY <1>1, <2>1, TreeStep DEF IInv
  <1>4. QED
    BY <1>1, <1>2, <1>3, InvInit, InvStep, PTL DEF Spec, ImplementsPatchTree, Promise!Spec

-----------------------------------------------------------------------------
(* What is changed is what was named, however calls interleave.             *)

(* A canonical name leads to itself: no name of a request passes a link that *)
(* leads nowhere.  Direct implies it.                                       *)
NamesLead ==
  \A ask \in Requests : \A i \in DOMAIN ask : \A raw \in Tree!Names(ask[i]) :
    \A there : Directories \subseteq there =>
      LET name == Paths!NormalizeRepoPath(raw, there) IN
      name = None \/ Paths!Resolve(name) = name

LEMMA DirectLeads == Direct => NamesLead
  <1> SUFFICES ASSUME Direct, NEW ask \in Requests, NEW i \in DOMAIN ask,
                      NEW raw \in Tree!Names(ask[i]), NEW there, Directories \subseteq there
               PROVE  LET name == Paths!NormalizeRepoPath(raw, there) IN
                      name = None \/ Paths!Resolve(name) = name
    BY DEF NamesLead
  <1> HIDE DEF Direct
  <1>1. /\ Paths!NormalizeRepoPath(raw, there) \in {None, Place(raw)}
        /\ Paths!Resolve(Place(raw)) = Place(raw)
    BY DEF Direct
  <1>2. QED
    BY <1>1

(* What a call has planned and backed up lies in the names it answers with, *)
(* and these lie in the root.                                               *)
Begun(c, ask) ==
  /\ index[c] \in 1..Len(ask) /\ ops[c] = [i \in 1..Len(ask) |-> ops[c][i]]
  /\ pc[c] = "prepared" => index[c] = 1
  /\ \A i \in 1..Len(ask) :
       IF Unplanned(c, i) THEN ops[c][i] = ask[i]
       ELSE ops[c][i].kind \in Kinds /\ Tree!Names(ops[c][i]) \subseteq seen[c]

Covered(c) ==
  /\ \A name \in seen[c] : Paths!Inside(name)
  /\ DOMAIN backups[c] \subseteq seen[c]
  /\ pc[c] = "idle" => DOMAIN backups[c] = {}
  /\ pc[c] \in Working \union {"prepared"} => \E ask \in Requests : Begun(c, ask)

NamesInv == Shape /\ \A c \in Callers : Covered(c)

LEMMA BegunIs ==
  ASSUME NEW c \in Callers, NEW ask \in Requests, Begun(c, ask)
  PROVE  Len(ops[c]) = Len(ask) /\ index[c] \in 1..Len(ask) /\ Len(ask) \in Nat
  BY LenIs, Asked DEF Begun

(* The operation a call is at once all are planned.                         *)
LEMMA OpCovered ==
  ASSUME NEW c \in Callers, Covered(c), pc[c] \in {"backup", "apply", "rollback"}
  PROVE  Op(c).kind \in Kinds /\ Tree!Names(Op(c)) \subseteq seen[c]
  BY DEF Covered, Begun, Unplanned, Op, Working

(* An operation that passes is planned at its canonical names.              *)
LEMMA PlannedAtNames ==
  ASSUME NamesLead, Shape, NEW c \in Callers, NEW ask \in Requests, NEW i \in DOMAIN ask,
         Op(c) = ask[i], Acceptable(c, Op(c))
  PROVE  LET names == { Named(Op(c))[raw] : raw \in Tree!Names(Op(c)) } IN
         /\ Planned(Op(c)).kind \in Kinds
         /\ Tree!Names(Planned(Op(c))) \subseteq names
         /\ \A name \in names : Paths!Inside(name)
  <1> DEFINE op == Op(c)
             name(raw) == Paths!NormalizeRepoPath(raw, There)
  <1>1. Directories \subseteq There
    BY DEF Shape, There
  <1>2. ASSUME NEW raw \in Tree!Names(op)
        PROVE  /\ Named(op)[raw] = name(raw) /\ name(raw) # None
               /\ Paths!Resolve(name(raw)) = name(raw) /\ Paths!Inside(name(raw))
    <2>1. Named(op)[raw] = name(raw)
      BY DEF Named
    <2>2. name(raw) # None
      BY <2>1 DEF Acceptable
    <2>3. Paths!Resolve(name(raw)) = name(raw)
      BY <1>1, <2>2 DEF NamesLead
    <2>4. Paths!Inside(name(raw))
      <3>1. name(raw) = Paths!Canonical(Paths!Collapse(raw), There)
            /\ Paths!Inside(Paths!Canonical(Paths!Collapse(raw), There))
        BY <2>2 DEF Paths!NormalizeRepoPath
      <3>2. QED
        BY <3>1
    <2>5. QED
      BY <2>1, <2>2, <2>3, <2>4
  <1>3. op.path \in Tree!Names(op) /\ (op.kind = "RenameFile" => op.from \in Tree!Names(op))
    BY DEF Tree!Names, Tree!Source
  <1>4. DOMAIN op = Fields /\ op.kind \in Kinds
    BY Asked
  <1>5. /\ Planned(op).kind = op.kind
        /\ Planned(op).path = name(op.path)
        /\ op.kind = "RenameFile" => Planned(op).from = name(op.from)
    <2> DEFINE from == IF op.kind = "RenameFile" THEN Paths!Resolve(Named(op)[op.from]) ELSE op.from
               path == Paths!Resolve(Named(op)[op.path])
    <2>1. Planned(op) = At(op, path, from)
      BY DEF Planned
    <2>2. path = name(op.path) /\ (op.kind = "RenameFile" => from = name(op.from))
      BY <1>2, <1>3
    <2> HIDE DEF path, from, op, name
    <2>3. At(op, path, from).path = path /\ At(op, path, from).from = from /\ At(op, path, from).kind = op.kind
      BY <1>4, AtFields
    <2>4. QED
      BY <2>1, <2>2, <2>3
  <1>6. Tree!Names(Planned(op)) \subseteq { name(raw) : raw \in Tree!Names(op) }
    BY <1>3, <1>5 DEF Tree!Names, Tree!Source
  <1>7. { Named(op)[raw] : raw \in Tree!Names(op) } = { name(raw) : raw \in Tree!Names(op) }
    BY <1>2
  <1>8. QED
    BY <1>2, <1>4, <1>5, <1>6, <1>7

(* A step of one call leaves what others have begun alone.                  *)
LEMMA CoveredStays ==
  ASSUME NEW d \in Callers, Covered(d),
         UNCHANGED <<pc[d], backups[d], ops[d], index[d], seen[d]>>
  PROVE  Covered(d)'
  <1>1. /\ pc'[d] = pc[d] /\ backups'[d] = backups[d] /\ ops'[d] = ops[d]
        /\ index'[d] = index[d] /\ seen'[d] = seen[d]
    OBVIOUS
  <1>2. \A ask \in Requests : Begun(d, ask) => Begun(d, ask)'
    BY <1>1 DEF Begun, Unplanned
  <1>3. QED
    BY <1>1, <1>2 DEF Covered

(* A call that answers has nothing begun and nothing backed up.             *)
LEMMA AnswerCovers ==
  ASSUME Shape, NEW c \in Callers, Covered(c), NEW code, Answer(c, code), UNCHANGED seen
  PROVE  Covered(c)'
  <1>1. pc'[c] = "idle" /\ DOMAIN backups'[c] = {} /\ seen'[c] = seen[c]
    BY DEF Answer, GoTo, NoBackups, Shape
  <1>2. QED
    BY <1>1 DEF Covered, Working

LEMMA PrepareCovers ==
  ASSUME Shape, NEW c \in Callers, Covered(c), NEW ask \in Requests, Prepare(c, ask)
  PROVE  Covered(c)'
  <1>1. /\ pc'[c] = "prepared" /\ index'[c] = 1 /\ ops'[c] = ask /\ seen'[c] = {}
        /\ backups'[c] = backups[c] /\ DOMAIN backups[c] = {}
    BY DEF Prepare, GoTo, Shape, Covered
  <1>2. Begun(c, ask)'
    BY <1>1, Asked DEF Begun, Unplanned
  <1>3. QED
    BY <1>1, <1>2 DEF Covered

LEMMA CheckCovers ==
  ASSUME Shape, NEW c \in Callers, Covered(c), CheckSnapshot(c)
  PROVE  Covered(c)'
  <1>1. CASE pc'[c] = "preflight" /\ UNCHANGED <<answer, backups>>
    <2>1. PICK ask \in Requests : Begun(c, ask)
      BY DEF Covered, CheckSnapshot
    <2>2. /\ pc[c] = "prepared" /\ index[c] = 1 /\ index'[c] = 1
          /\ ops'[c] = ops[c] /\ seen'[c] = seen[c] /\ backups'[c] = backups[c]
      BY <1>1, <2>1 DEF CheckSnapshot, request, Begun
    <2>3. \A i \in 1..Len(ask) : Unplanned(c, i) /\ Unplanned(c, i)'
      <3>1. \A i \in 1..Len(ask) : ~(i < 1)
        BY Asked
      <3>2. QED
        BY <1>1, <2>2, <3>1 DEF Unplanned
    <2>4. Begun(c, ask)'
      BY <1>1, <2>1, <2>2, <2>3 DEF Begun
    <2>5. QED
      BY <1>1, <2>2, <2>4 DEF Covered
  <1>2. CASE Answer(c, "refused")
    BY <1>2, AnswerCovers DEF CheckSnapshot, request
  <1>3. QED
    BY <1>1, <1>2 DEF CheckSnapshot, GoTo, Shape

LEMMA PreflightCovers ==
  ASSUME NamesLead, Shape, NEW c \in Callers, Covered(c), Preflight(c)
  PROVE  Covered(c)'
  <1>1. CASE ~Acceptable(c, Op(c))
    BY <1>1, AnswerCovers DEF Preflight
  <1>2. CASE Acceptable(c, Op(c))
    <2> DEFINE i == index[c]
               names == { Named(Op(c))[raw] : raw \in Tree!Names(Op(c)) }
               label == IF Op(c).kind = "WriteFile" THEN "apply" ELSE "backup"
    <2>1. PICK ask \in Requests : Begun(c, ask)
      BY DEF Covered, Preflight, Working
    <2>2. /\ pc[c] = "preflight" /\ i \in 1..Len(ask) /\ Len(ask) \in Nat
          /\ Len(ops[c]) = Len(ask) /\ DOMAIN ask = 1..Len(ask)
          /\ ops[c] = [j \in 1..Len(ask) |-> ops[c][j]]
      BY <2>1, BegunIs, Asked DEF Preflight, Begun
    <2>3. Op(c) = ask[i]
      BY <2>1, <2>2 DEF Begun, Unplanned, Op
    <2>4. /\ Planned(Op(c)).kind \in Kinds
          /\ Tree!Names(Planned(Op(c))) \subseteq names
          /\ \A name \in names : Paths!Inside(name)
      BY <1>2, <2>2, <2>3, PlannedAtNames
    <2>5. /\ Advance(c, label)
          /\ ops' = [ops EXCEPT ![c][i] = Planned(@)]
          /\ seen' = [seen EXCEPT ![c] = @ \union names]
          /\ backups' = backups
      BY <1>2 DEF Preflight
    <2>6. seen'[c] = seen[c] \union names
      BY <2>5 DEF Shape
    <2>7. ops'[c] = [j \in 1..Len(ask) |-> IF j = i THEN Planned(Op(c)) ELSE ops[c][j]]
      <3>1. ops'[c] = [ops[c] EXCEPT ![i] = Planned(ops[c][i])]
        BY <2>5 DEF Shape
      <3>2. QED
        BY <2>2, <3>1 DEF Op
    <2> HIDE DEF names, label
    <2>8. \A j \in 1..Len(ask) : j < i + 1 =>
            ops'[c][j].kind \in Kinds /\ Tree!Names(ops'[c][j]) \subseteq seen'[c]
      <3>1. ASSUME NEW j \in 1..Len(ask), j < i
            PROVE  ops'[c][j].kind \in Kinds /\ Tree!Names(ops'[c][j]) \subseteq seen'[c]
        BY <2>1, <2>2, <2>6, <2>7, <3>1 DEF Begun, Unplanned
      <3>2. ops'[c][i].kind \in Kinds /\ Tree!Names(ops'[c][i]) \subseteq seen'[c]
        BY <2>2, <2>4, <2>6, <2>7
      <3>3. \A j \in 1..Len(ask) : j < i + 1 => j < i \/ j = i
        BY <2>2
      <3>4. QED
        BY <3>1, <3>2, <3>3
    <2>9. \A j \in 1..Len(ask) : ~(j < i + 1) => ops'[c][j] = ask[j]
      BY <2>1, <2>2, <2>7 DEF Begun, Unplanned
    <2>10. ops'[c] = [j \in 1..Len(ask) |-> ops'[c][j]]
      BY <2>7
    <2>11. CASE i < Len(ask)
      <3>1. index'[c] = i + 1 /\ pc'[c] = "preflight" /\ i + 1 \in 1..Len(ask)
        BY <2>2, <2>5, <2>11 DEF Advance, Shape
      <3>2. Begun(c, ask)'
        BY <2>8, <2>9, <2>10, <3>1 DEF Begun, Unplanned
      <3>3. QED
        BY <2>4, <2>5, <2>6, <3>1, <3>2 DEF Covered
    <2>12. CASE ~(i < Len(ask))
      <3>1. index'[c] = 1 /\ pc'[c] = label /\ i = Len(ask) /\ 1 \in 1..Len(ask)
        BY <2>2, <2>5, <2>12 DEF Advance, GoTo, Shape
      <3>2. pc'[c] \in {"apply", "backup"}
        BY <3>1 DEF label
      <3>3. \A j \in 1..Len(ask) : j < i + 1
        BY <2>2, <3>1
      <3>4. Begun(c, ask)'
        BY <2>8, <2>10, <3>1, <3>2, <3>3 DEF Begun, Unplanned
      <3>5. QED
        BY <2>4, <2>5, <2>6, <3>2, <3>4 DEF Covered
    <2>13. QED
      BY <2>11, <2>12
  <1>3. QED
    BY <1>1, <1>2

LEMMA BackupCovers ==
  ASSUME Shape, NEW c \in Callers, Covered(c), Backup(c)
  PROVE  Covered(c)'
  <1>1. PICK ask \in Requests : Begun(c, ask)
    BY DEF Covered, Backup, Working
  <1>2. pc[c] = "backup" /\ Len(ops[c]) = Len(ask) /\ index[c] \in 1..Len(ask) /\ Len(ask) \in Nat
    BY <1>1, BegunIs DEF Backup
  <1>3. DOMAIN backups'[c] = DOMAIN backups[c] \union Tree!Names(Op(c))
    BY DEF Backup, Shape
  <1>4. Tree!Names(Op(c)) \subseteq seen[c]
    BY <1>2, OpCovered
  <1>5. seen'[c] = seen[c] /\ ops'[c] = ops[c]
    BY DEF Backup, request
  <1>6. index'[c] \in 1..Len(ask) /\ pc'[c] \in {"backup", "apply"}
    BY <1>2 DEF Backup, Advance, GoTo, Shape
  <1>7. Begun(c, ask)'
    BY <1>1, <1>2, <1>5, <1>6 DEF Begun, Unplanned
  <1>8. QED
    BY <1>3, <1>4, <1>5, <1>6, <1>7 DEF Covered

LEMMA ApplyCovers ==
  ASSUME Shape, NEW c \in Callers, Covered(c), ApplyOperation(c)
  PROVE  Covered(c)'
  <1>1. PICK ask \in Requests : Begun(c, ask)
    BY DEF Covered, ApplyOperation, Working
  <1>2. /\ pc[c] = "apply" /\ Len(ops[c]) = Len(ask) /\ index[c] \in 1..Len(ask) /\ Len(ask) \in Nat
        /\ ops' = ops /\ seen' = seen
    BY <1>1, BegunIs DEF ApplyOperation, request
  <1>3. CASE index[c] < Len(ops[c])
    <2>1. index'[c] \in 1..Len(ask) /\ pc' = pc /\ backups' = backups
      BY <1>2, <1>3 DEF ApplyOperation, Shape
    <2>2. Begun(c, ask)'
      BY <1>1, <1>2, <2>1 DEF Begun, Unplanned
    <2>3. QED
      BY <1>2, <2>1, <2>2 DEF Covered
  <1>4. CASE ~(index[c] < Len(ops[c]))
    BY <1>2, <1>4, AnswerCovers DEF ApplyOperation
  <1>5. QED
    BY <1>3, <1>4

LEMMA FailCovers ==
  ASSUME Shape, NEW c \in Callers, Covered(c), FailOperation(c)
  PROVE  Covered(c)'
  <1>1. PICK ask \in Requests : Begun(c, ask)
    BY DEF Covered, FailOperation, Working
  <1>2. /\ pc[c] = "apply" /\ pc'[c] = "rollback"
        /\ UNCHANGED <<ops, seen, index, backups>>
    BY DEF FailOperation, GoTo, request, Shape
  <1>3. Begun(c, ask)'
    BY <1>1, <1>2 DEF Begun, Unplanned
  <1>4. QED
    BY <1>2, <1>3 DEF Covered

LEMMA RestoreCovers ==
  ASSUME Shape, NEW c \in Callers, Covered(c), NEW f \in Files, Restore(c, f)
  PROVE  Covered(c)'
  <1>1. PICK ask \in Requests : Begun(c, ask)
    BY DEF Covered, Restore, Working
  <1>2. /\ pc[c] = "rollback" /\ UNCHANGED <<pc, ops, seen, index>>
        /\ DOMAIN backups'[c] = DOMAIN backups[c] \ {f}
    BY DEF Restore, request, Shape
  <1>3. Begun(c, ask)'
    BY <1>1, <1>2 DEF Begun, Unplanned
  <1>4. QED
    BY <1>2, <1>3 DEF Covered

LEMMA CrashCovers ==
  ASSUME Shape, NEW c \in Callers, Covered(c), Crash(c)
  PROVE  Covered(c)'
  <1>1. pc'[c] = "dead" /\ UNCHANGED <<seen, backups>>
    BY DEF Crash, GoTo, request, Shape
  <1>2. QED
    BY <1>1 DEF Covered, Working

LEMMA NamesStep == NamesLead /\ NamesInv /\ [Next]_vars => NamesInv'
  <1> SUFFICES ASSUME NamesLead, NamesInv, [Next]_vars
               PROVE  NamesInv'
    OBVIOUS
  <1>1. Shape /\ KindsKnown
    BY OpCovered DEF NamesInv, KindsKnown
  <1>2. Shape'
    BY <1>1, ShapeStep
  <1>3. CASE UNCHANGED vars
    BY <1>2, <1>3, CoveredStays DEF NamesInv, vars
  <1>4. CASE Next
    <2>1. PICK c \in Callers :
            /\ \A d \in Callers \ {c} :
                 /\ pc'[d] = pc[d] /\ backups'[d] = backups[d] /\ ops'[d] = ops[d]
                 /\ index'[d] = index[d] /\ seen'[d] = seen[d]
            /\ \/ \E o \in Requests : Prepare(c, o)
               \/ CheckSnapshot(c) \/ Preflight(c) \/ Backup(c)
               \/ Stage(c) \/ ApplyOperation(c) \/ FailOperation(c)
               \/ \E f \in Files : Restore(c, f)
               \/ EndRollback(c) \/ FailRestore(c) \/ Crash(c)
      BY <1>1, <1>4, PcStep
    <2>2. \A d \in Callers \ {c} : Covered(d)'
      BY <2>1, CoveredStays DEF NamesInv
    <2>3. Covered(c) /\ Shape
      BY DEF NamesInv
    <2>4. Covered(c)'
      <3>1. CASE \E o \in Requests : Prepare(c, o)
        BY <2>3, <3>1, PrepareCovers
      <3>2. CASE CheckSnapshot(c)
        BY <2>3, <3>2, CheckCovers
      <3>3. CASE Preflight(c)
        BY <2>3, <3>3, PreflightCovers
      <3>4. CASE Backup(c)
        BY <2>3, <3>4, BackupCovers
      <3>5. CASE Stage(c)
        BY <2>3, <3>5, CoveredStays DEF Stage, request
      <3>6. CASE ApplyOperation(c)
        BY <2>3, <3>6, ApplyCovers
      <3>7. CASE FailOperation(c)
        BY <2>3, <3>7, FailCovers
      <3>8. CASE \E f \in Files : Restore(c, f)
        BY <2>3, <3>8, RestoreCovers
      <3>9. CASE EndRollback(c)
        BY <2>3, <3>9, AnswerCovers DEF EndRollback, request
      <3>10. CASE FailRestore(c)
        BY <2>3, <3>10, AnswerCovers DEF FailRestore, request
      <3>11. CASE Crash(c)
        BY <2>3, <3>11, CrashCovers
      <3>12. QED
        BY <2>1, <3>1, <3>2, <3>3, <3>4, <3>5, <3>6, <3>7, <3>8, <3>9, <3>10, <3>11
    <2>5. QED
      BY <1>2, <2>2, <2>4 DEF NamesInv
  <1>5. QED
    BY <1>3, <1>4

(* A call changes no file but those of the canonical names it answers with, *)
(* all of them in the root, whatever other calls do meanwhile.              *)
THEOREM NamedFilesOnly == NamesLead => (Spec => ChangesWhatItNames)
  <1>1. SUFFICES ASSUME NamesLead PROVE Spec => ChangesWhatItNames
    OBVIOUS
  <1>2. Init => NamesInv
    BY InvInit DEF Init, NamesInv, Covered, IInv, NoBackups, Working
  <1>3. NamesInv /\ [Next]_vars => NamesInv'
    BY <1>1, NamesStep
  <1>4. NamesInv /\ [Next]_vars =>
          [\A f \in Files : disk'[f] # disk[f] =>
             Paths!Inside(f) /\ \E c \in Callers : pc[c] \in {"apply", "rollback"} /\ f \in seen[c]]_vars
    <2> SUFFICES ASSUME NamesInv, Next, NEW f \in Files, disk'[f] # disk[f]
                 PROVE  Paths!Inside(f) /\ \E c \in Callers : pc[c] \in {"apply", "rollback"} /\ f \in seen[c]
      BY DEF vars
    <2>1. PICK c \in Callers : ApplyOperation(c) \/ \E g \in Files : Restore(c, g)
      BY DEF Next, Prepare, CheckSnapshot, Preflight, Backup, Stage, FailOperation, EndRollback,
             FailRestore, Crash
    <2>2. Covered(c) /\ DOMAIN disk = Files
      BY DEF NamesInv, Shape
    <2>3. CASE ApplyOperation(c)
      <3>1. Op(c).kind \in Kinds /\ Tree!Names(Op(c)) \subseteq seen[c] /\ pc[c] = "apply"
        BY <2>2, <2>3, OpCovered DEF ApplyOperation
      <3>2. f \in Tree!Names(Op(c))
        BY <2>2, <2>3, <3>1, EffectLocal DEF ApplyOperation
      <3>3. QED
        BY <2>2, <3>1, <3>2 DEF Covered
    <2>4. CASE \E g \in Files : Restore(c, g)
      <3>1. pc[c] = "rollback" /\ f \in DOMAIN backups[c]
        BY <2>2, <2>4 DEF Restore
      <3>2. QED
        BY <2>2, <3>1 DEF Covered
    <2>5. QED
      BY <2>1, <2>3, <2>4
  <1>5. QED
    BY <1>2, <1>3, <1>4, PTL DEF Spec, ChangesWhatItNames

-----------------------------------------------------------------------------
(* ToolProcess.  What a stopped call has signalled.                          *)

\* Whoever was reached has been started, so nothing forked later is among them.
\* From the signal on, of those reached only the stubborn are not sent one they
\* obey; the leader is sent one at the latest when the call stops waiting for it.
Stopped ==
  /\ alive \subseteq started /\ reached \subseteq started
  /\ phase = "spawn" => started = {}
  /\ phase \in {"spawn", "stdin", "poll"} => status = "none"
  /\ status \in {"TIMEOUT", "CANCELLED"} =>
       /\ phase \in {"wait", "collect", "drain", "answered"}
       /\ (alive \intersect reached) \ signalled \subseteq Stubborn
       /\ phase # "wait" => Leader \notin alive \intersect reached \/ Leader \in signalled

LEMMA StoppedSteps == Stopped /\ [ProcessNext]_processVars => Stopped'
  <1> SUFFICES ASSUME Stopped, [ProcessNext]_processVars
               PROVE  Stopped'
    OBVIOUS
  <1> USE DEF Stopped, members, signals, pipes, clock
  <1>1. CASE Spawn
    BY <1>1 DEF Spawn, AnswerCall
  <1>2. CASE WriteStdin
    BY <1>2 DEF WriteStdin, AnswerCall
  <1>3. CASE Poll
    BY <1>3 DEF Poll, AnswerCall
  <1>4. CASE StopTree
    BY <1>4 DEF StopTree
  <1>5. CASE LeaderGone
    BY <1>5 DEF LeaderGone
  <1>6. CASE Kill
    BY <1>6 DEF Kill
  <1>7. CASE Collect
    BY <1>7 DEF Collect
  <1>8. CASE Drain
    BY <1>8 DEF Drain
  <1>9. CASE DeadlinePasses \/ GracePasses \/ Cancel \/ ReadInput
    BY <1>9 DEF DeadlinePasses, GracePasses, Cancel, ReadInput
  <1>10. ASSUME NEW p \in Procs, NEW q \in Procs, Fork(q, p)
         PROVE  Stopped'
    <2>1. alive' = alive \union {p} /\ started' = started \union {p} /\ p \notin started
      BY <1>10 DEF Fork
    <2>2. alive' \intersect reached = alive \intersect reached
      BY <2>1
    <2>3. phase # "spawn" /\ UNCHANGED <<signalled, reached, phase, status>>
      BY <1>10 DEF Fork
    <2>4. QED
      BY <2>1, <2>2, <2>3
  <1>11. ASSUME NEW p \in Procs, Exit(p) \/ Leave(p) \/ CloseInput(p) \/ CloseOutput(p)
         PROVE  Stopped'
    BY <1>11 DEF Exit, Leave, CloseInput, CloseOutput
  <1>12. CASE UNCHANGED processVars
    BY <1>12 DEF processVars
  <1>13. QED
    BY <1>1, <1>2, <1>3, <1>4, <1>5, <1>6, <1>7, <1>8, <1>9, <1>10, <1>11, <1>12 DEF ProcessNext, Call

\* Whatever the tree does, a timeout or a cancellation leaves no process that ran
\* in the group without a signal that ends it, except descendants that ignore
\* SIGTERM.
THEOREM TerminationComplete == ProcessSpec => []TerminationReported
  <1>1. ProcessInit => Stopped
    BY DEF ProcessInit, Stopped
  <1>2. Stopped => TerminationReported
    BY DEF Stopped, TerminationReported
  <1>3. QED
    BY <1>1, <1>2, StoppedSteps, PTL DEF ProcessSpec
=============================================================================
