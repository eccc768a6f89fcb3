# Formal models of the agentic harness

The repository holds the deterministic core of an agent harness: the state
machine of a run, the SQLite authority that records it, the journal of side
effects, the tools that write files and start processes, and the algebra that
decides whether a candidate has been verified. The components are functions and
short transactions under `src/src/agentic_harness/`; the runtime that calls
them is described by the Blueprint (`src/docs/Unified-Implementation-Blueprint-…md`,
"Blueprint" below) and by `src/contracts/`, but is not in the repository. The
models therefore keep two things apart: what the code decides and writes, which
is translated from it, and what the environment around it may do, which is
modelled from how the code is meant to be called and is marked external in
`PROJECT.json`.

TLC checks small instances (`*.cfg`), TLAPS proves what is stated in the
`*Proofs` modules for every value of the constants.

    tlc -workers 2 -config RunStore.cfg MCRunStore.tla
    tlapm RunStoreProofs.tla

## 1. Inventory

| Component | Code | State it keeps | Operations | What makes it correct |
|---|---|---|---|---|
| State machine | `_state_machine.py`, `contracts/state_machine.yaml`, `_invariants.py` | none: decides on a `runs` row and a request | `is_valid_transition`, `authorize_transition`, `authorize_resume` | one successor per state and command; no stale request moves a run; review and acceptance gates hold along every path, recoveries included; terminal is terminal |
| Run database, commands | `_persistence.py`, `cli.py`, `_events.py`, `contracts/persistence.sql` | goals, goal revisions, runs, events | `run`, `status`, `inspect`, `resume`, `accept`, `reject`, `cancel`, `mutate_with_event` | a command is one step or none; journal gapless and causal, no event twice; answers are true; every command ends |
| Side-effect journal | `_side_effects.py`, `_persistence.py` (approvals) | `side_effect_txns`, `approvals`, `approval_consumptions` | `prepare_txn`, `record_observation`, `reconcile_txn`, `classify_recovery`, `consume_approval` | no effect without intent and approval, at most one execution over crashes, an approval is spent once |
| File tools | `_tool_protocol.py` | the candidate tree, temporary files, backups in memory | `atomic_write`, `apply_patch_set` | whole PatchSet or none, against a tree a snapshot shows as the one it was made for, in the files it named, no debris |
| Resource normalization | `_resource_normalization.py` | none: reads links and directories of the moment | `normalize_repo_path`, and the same for processes, origins, services | a canonical name is the place the name leads to, then and later; two names of a file are one |
| Process tool | `_tool_protocol.py` | a process tree, its pipes, a deadline | `execute_process`, `_terminate_process_tree`, `_process_result` | a call with a timeout is answered; a call that is stopped leaves nobody of its group without a signal |
| Verification | `_verification.py` | results, evidence references, waivers, reviews | `execute_check`, `evaluate_claim`, `evaluate_criterion`, `evaluate_intent_review`, `evaluate_ready_for_user`, `evaluate_accepted`, `post_integration_reuse_allowed` | a gate opens only on evidence about the very candidate, as far as evidence says what it is about; an edit opens nothing |
| Content store | `_side_effects.py`, `_tool_protocol.py` (`_output`) | objects under their digest | `put`, `get`, `verify`, `_output` | an object appears whole and at once; an answer about it is true; what was synced is not lost |
| Policy | `_policy.py` | none: decides on rules and an approval | `evaluate`, `_combine`, `_approval_satisfies`, `requires_new_approval` | what is denied is opened only by rules that outrank and undercut the deny; no rule means DENY; an approval answers its own request once |
| Configuration | `_config.py` | documents, environment, command line | load, `migrate_aliases`, `apply_security_monotonicity`, `merge_layers`, `resolve_configuration` | a security field is the intersection of all that ask for it, any other the last writer's; no spelling or layer is lost |
| Snapshots, overlays | `_repository_identity.py` | the working tree, Git | `capture_repository_snapshot`, `choose_dirty_state`, overlay `capture`, `replay` | nothing dirty is dropped; a verified replay is what the user had |
| Pure conversions | `_canonical.py`, `_classification.py`, `_identity.py` | none | encode, normalise, label, redact | injective encodings, lattice laws |
| Contracts and schemas | `_contracts.py`, `_domain_schemas.py`, `_semantic_validation.py`, `_reason_codes.py`, `_versioning.py` | none | load, validate | static |

How they interact. A command-line process reads a run, asks the state machine,
and writes through the store; the store commits the row and its event in one
transaction. The state machine's guards take criterion evaluations, which come
from verification, and the integration outcome. The tools are called under an
intent in the side-effect journal, which shares the SQLite file and its write
lock with the run commands. Before a tool call the policy algebra is asked about
its effect and resource, with the approval at hand; what it allows, and what the
tools may reach, comes from the resolved configuration. The tools normalize the
names they are given themselves and leave their output in the content store. A
candidate is made from a snapshot of the user's repository, and a PatchSet names
the snapshot it was made for. Tools change the candidate; verification results
are about a candidate and a configuration, so every edit ages them.

What is hard. Processes share only the SQLite write lock and decide on rows they
read without it. A worker may die between intent, effect and observation.
Requests are prepared for one version and decided at another. A PatchSet is many
system calls; its process may die between any two. Process trees fork, ignore
signals, leave the group and hold pipes or close them. What a name leads to
depends on directories and links that the operations before it change. A
snapshot is many questions to Git while the user types. Objects and their
entries are lost with the power unless both were synced. Evidence ages with
every edit, configuration, tick and waiver. Rules and settings come from layers
whose order of precedence is not their order of authority. `PROJECT.json` lists
these hazards at their lines.

## 2. Modules

| Module | Role |
|---|---|
| `StateMachine` | operators: the relation of the contract and the three decisions |
| `RunLifecycle` | one run, its requesters and its candidate, through those decisions |
| `RunLedger` | abstract: what the run database promises, one step per command |
| `RunStore` | detailed: processes, connections, the write lock, statements |
| `EffectOnce` / `SideEffects` | abstract promise / journal, workers, recovery |
| `PatchTree` / `Patching` | abstract promise / file tools, step by step |
| `RepoPaths` | operators: what a name of a file becomes and where it leads; used by `Patching` |
| `ObjectStore` / `ContentStore` | abstract promise / installing objects, step by step, over power losses |
| `Snapshot` | a capture, its overlay and its replay, beside a user who edits |
| `ToolProcess` | a tool call and its process tree |
| `Verification` | the evidence algebra over evidence that ages |
| `Policy` | the decision algebra, over rules and an approval that change |
| `ConfigMerge` | the resolution of a configuration, layer by layer |
| `MC*` | the instances TLC checks |
| `RunLifecycleProofs`, `RunStoreProofs`, `SideEffectsProofs`, `ToolProtocolProofs` (`Patching`, `ToolProcess`), `EvidenceProofs` (`ContentStore`, `Verification`), `SnapshotProofs`, `PolicyProofs`, `ConfigMergeProofs` | theorems |

Definitions that begin with the comment "Mutant" are faulty variants of the
definition that follows them. No specification uses them: they show that each
property fails when the code has that fault.

### StateMachine, RunLifecycle

`ForwardTransitions` and `ExceptionalTransitions` are the rows of
`state_machine.yaml`. `Successors` and `IsValidTransition` follow
`is_valid_transition`: in terminal states nothing is valid, a forward row is
looked for first, an exceptional command is valid anywhere else.
`AuthorizeTransition` keeps the order of the checks (version, from-state,
relation, guard) and answers their symbolic codes; `InvState002` and
`InvAccept001` are the two guards. `ResumeTarget` and `AuthorizeResume` are
`authorize_resume` with its three target modes and required conditions.

`RunLifecycle` puts these between requesters that *prepare* a request from what
they see and *commit* or have it *rejected* later against the live row. The
effects of a commit (`run_version + 1`, `resume_target_state`, the checkpoint,
`invalidation_rule`) are those the documents ask of the caller. The
candidate is edited only while IMPLEMENTING, evidence is gathered in the
verification states, `Reconcile` makes a new snapshot. `proven` holds the
conditions proven since the state was entered. What a caller puts into the guard
context of a request (`GuardContext`) is computed by no code here and is
external. Four history variables (`reviewed`, `reconciled`, `drifted`,
`recovered`) let the properties speak of the past.

### RunStore, RunLedger

One process makes one call at a time. The actions are the code's database
steps in order: `Open` (the schema script needs the lock), `GetRun` and
`ReadSequence` outside a transaction, `BeginImmediate`, `InsertGoal`,
`InsertRun`, `UpdateRun`, `InsertEvent`, `Commit`, `Report`. `Busy` is the busy
timeout, `StatementFails` any statement that raises, `Crash` death anywhere.
`ReadAnswers` are the codes a command answers without writing, `FailureCode`
what an exception becomes: `run` and `cancel` catch it, the others do not.
The call `advance` is the embedding runtime: it uses `mutate_with_event` and
authorizes its transition inside the transaction, as Blueprint 9.8.6 asks.
Events are records of id, sequence and cause; envelopes, digests and output are
left out. `_interrupt` and `reject` do *not* look at the row again: neither
does the model.

`RunLedger` has one variable and one step per command: `Create`, `Advance`,
`Interrupt`, `Reject`. The refinement is the identity on `db`: what TLC and the
proof show is that a dozen interleaved, failing statements per command amount
to these steps.

### SideEffects, EffectOnce

Each journal call is one SQLite transaction and one action. Workers prepare,
optionally mark APPLYING, execute, observe, commit, and may die in between;
whoever finds an incomplete row probes the world (the probe may not tell) and
calls `reconcile_txn`. Digests are reduced to what comparisons can tell:
absent, requested, other. `world` and `applied` (how often the effect ran) are
what the journal has to get right. `EffectOnce` is implemented under
`status <- Status, count <- applied`. `Exclusive` says that one recovery at a
time is at work on an intent; without it the promise fails (section 6).

### Patching, PatchTree

`CheckSnapshot`, `Preflight` (operation by operation), `Backup`, then per
operation `Stage` (temporary file) and `ApplyOperation`; `FailOperation`,
`Restore` (any order), `EndRollback`, `FailRestore` and `Crash` are the error
paths. Contents stand for their digests; an absent file digests like an empty
one, as in the code; what `mkstemp` creates has a mode of its own. `PatchTree`
promises validation as a whole and a single change of the tree; only a call that
is broken off (`Break`: its process dies, or its restoration fails) may leave
each of its files old or new. The mapping is `Settled`, `Told`: until a call has
answered or died, a file it backed up counts as what it was, so that applying
the last operation is the abstract step and a rollback is a stutter; a call that
has died counts as broken off. `repository` says whether the root is a Git
repository, which decides whether a snapshot is compared.

What is compared is what a snapshot shows (`Snapshot`), not the tree. Files Git
ignores are not in it (`Ignored`, `Shown`), nor is anything outside the root, a
mode is executable or not (`Look`), and a temporary file that another call left
is one more untracked file. `PatchTree` promises the same of its `base`
(`base <- Bases`): a PatchSet takes effect only on a tree that looks like the one
it was made for.

A request is made on *names*, the tree is of *places*: a name is a sequence of
components, a place is a name without links and `..`. `RepoPaths` has what
happens between the two: `Collapse` takes `..` back lexically, `Resolve` follows
links as `Path.resolve` does, `Canonical` resolves what exists and keeps what
does not behind its nearest existing ancestor, `NormalizeRepoPath` refuses what
leaves the root. `Preflight` normalizes each name against the directories and
files there are at that moment (`There`), refuses a canonical name that was
`seen` in the same request, and puts the places into the plan (`Planned`). The
operations then find what the operations before them left: `Possible` and
`Makeable` are where `os.replace`, `unlink` or `mkdir` raise, `MakeDirectories`
is `mkdir(parents=True)`, whose directories a rollback leaves, and `Restorable`
says when a rollback cannot put a file back because a directory took its place.
Links are given and nobody changes them.

### ContentStore, ObjectStore

A path is named by the digest of the only bytes that belong there, so a file is
reduced to none, whole, partial or rotten. `put` and `_output` share the steps
`Look`, `Write`, `SyncFile`, `Replace`; `put` then syncs the directory and reads
back what it found or installed (`SyncDirectory`, `Compare`), `_output` does
neither (`Answer`). `Fail` is any call of the operating system that raises, `Die`
a killed process. `kept` is the set of files that may be found at a path after
`PowerLoss`: what was replaced without a directory sync may be the old or the
new file, what was not synced may be partial. `Rot` damages a file from outside.
`ObjectStore` promises that objects appear whole and at once, that an answer of
`put` was true when the bytes were read, and that lasting entries outlive the
power.

### Snapshot

A capture asks `head`, `index`, `intents`, `tracked`, `untracked` and whether
the state is dirty, one question per action and one file per read; the user
edits head, index or worktree anywhere between (`Edit`). `choose_dirty_state`
then takes the base, blocks, or captures an overlay, whose bytes are read again
(`ReadBytes`); `Replay` builds the target and `Verify` compares the digests of
its own snapshot. A content stands for kind, mode and bytes; index entries may
be intents to add or conflicts. What Git's commands answer is a set of operators
on the repository and is external.

### ToolProcess

The process tree is an adversary: `Fork` and `Exit` at any time, `Stubborn`
processes ignore SIGTERM, `Detached` ones may leave the group (`Leave`), any may
close or redirect its end of a pipe (`CloseInput`, `CloseOutput`) or read
(`ReadInput`). A forked process inherits its parent's group and pipes.
`communicate` returns at `EndOfFile`: nobody holds the output pipes and the leader
is dead, so a descendant that redirected its output may live on after SUCCESS.
`WriteStdin` comes before there is a deadline: what exceeds the pipe's buffer
blocks until somebody reads, and a pipe nobody holds is an error that leaves the
tree as it is. `Poll`, `StopTree` (cancellation looked at before the deadline,
the whole group signalled), `LeaderGone`, `Kill`, `Collect`, `Drain` are the
other branches of `execute_process`. `reached` remembers who ran in the group
when SIGTERM was sent. Output limits and redaction are left out.

### Verification

The evaluators are operators in the code's order of branches; the actions age
or add evidence: edits, configurations, check runs, evidence references,
waivers and a clock, reviews, the manifest, landing a tree (the candidate's or
one that resolves a conflict) and post-integration checks that run or reuse a
result. `CheckSpec` and `Requirement` are parameters: what a check speaks for
and how a criterion combines its claims. A check's result counts for a claim only
if the claim asks for check results.

A reference says only which claim it is about and of which kind it is; the model
remembers the candidate it was recorded for, as history that only the properties
look at. A review is handed to the gate as a mapping, which the gate examines, or as
a bare status, which it believes. `EvaluateAccepted` takes what the caller says
of the destination and the integration as arguments. `post_integration_reuse_allowed`
does not ask whether the result it reuses is current; `VerifyLanded`, which is
the caller's, does (Blueprint 10.15.7). What the READY_FOR_USER gate reads is
gathered until a tree has landed (`Gather`); after that nothing asks the gate.

### Policy

`Evaluate` is `evaluate` branch by branch: `Inadmissible` (unregistered effects,
kinds and labels, data above its ceiling), `MatchingRules`, `Combine`, then the
sandbox, then the approval. A pattern stands for the set of keys it covers; its
mode and kind decide whether it matches at all. `Combine` keeps both of the
code's criteria: a deny that no allow outranks decides, otherwise the narrowest
rules do, the most severe of them first. Around these pure operators rules are
loaded and dropped one at a time and one approval is granted, spent and expires;
those actions are the caller's.

### ConfigMerge

A document is a partial function from paths to values. The steps are those of
`resolve_configuration_from_files` and `resolve_configuration`: `Load` (an
explicit file must exist, any file must parse), `CheckSources` (two spellings of
one section), then per document `TakeLayer`, `SkipLayer` or `RefuseLayer`, then
per layer `MergeLayer`, then `ApplyEnvironment`, `ApplyCommandLine`, `Validate`.
The code narrows twice, against `effective_security` while it collects the
layers and against `security_authority` while it merges them; so does the model,
and the properties are about what comes out of both. The values of a field are
abstracted to its kind: flags, allow or deny, sets, ranks. Lists are sets,
sections without a field are left out, and so are the per-platform paths, the
digest and the check for secrets in plain text.

## 3. Runs

| Run | Instance | Shows |
|---|---|---|
| `RunLifecycle` | 2 requesters, all forward commands, every exceptional one from INTENT_REVIEW, ACCEPTING, RECONCILIATION_REQUIRED and INTERRUPTED, and resumes; 2 candidates | `TypeOK`, `ReviewedUnlessReconciled`, `DriftReconciled`, `AcceptedIsIntegrated`, `TerminalAbsorbing` under racing stale requests, repairs and recoveries |
| `RunStore` | 2 processes × 2 calls, 2 runs, all commands | `TypeOK`, the journal's properties, `ImplementsLedger`, `EveryCallEnds` |
| `SideEffects` | 2 workers, 2 intents that want one approval, 1 foreign approval, 2 attempts | `TypeOK`, approvals, observations, `ImplementsOnce` |
| `Patching` | 2 callers × 1 call, with Git and without, 5 places, one of them ignored, 3 links, 3 directories, 8 requests, failing operations and restorations, crashes | `NoTempLeft`, `ChangesWhatItNames`, `ImplementsPatchTree` |
| `ContentStore` | 2 writers, 2 paths of `put`, one in a lasting directory, 1 of `_output` | `ObjectsWhole`, `InstalledSurvives`, `ImplementsStore` |
| `Snapshot` | 2 paths in every state of head, index and worktree, 2 contents, 2 edits | `NothingDropped`, `VerifiedIsSource`, `ReplayReproduces` |
| `Verification` | 2 claims, 2 checks, criteria ALL, ANY and THRESHOLD, 2 configurations, 1 waiver of a criterion that is bound and expires, 1 edit, 1 tick | `SatisfiedIsEvidenced`, `EditOpensNothing`, `AcceptedWhereLanded` |
| `ToolProcess` | a leader and a child that ignore SIGTERM, a daemon that may leave the group; stdin of every size | `TerminationReported`, `CallEnds` |
| `Policy` | 27 trusted and 5 malformed rules, 3 in force, 7 requests, 6 approvals | `TypeOK`, `OpenedAboveEveryDeny`, `ApprovalIsForThis`, `DenyOnlyNarrows` |
| `ConfigMerge` | 4 files, flags, environment and command line; each kind of security field in every combination of layers | `NeverWider`, `EffectiveIsIntersection`, `OrdinaryIsLast` |
| `RunStoreTerminalStays` | as `RunStore`, 1 run | *violated*: a terminal run is moved |
| `PolicyWidened` | as `Policy`, rules that allow or deny | *violated*: a project rule opens what a user deny closed |

The properties, one by one:

- `ReviewedUnlessReconciled`: what is past review was vouched for by a
  `review_passed` prepared for that very candidate, or was created by a
  reconciliation. It takes two actors and a repair to break; the version check
  and the checkpoint rule are what keep it.
- `DriftReconciled`: after a drift the run does not work on before a
  reconciliation, unless the drifted run was given to recovery. The exception is
  in the run and in the formula (`recovered`): `require_recovery` resumes to the
  last checkpoint, which is past the reconciliation still due (section 6).
- `AcceptedIsIntegrated`: evidence of an older integration does not accept a
  newer candidate.
- `TerminalAbsorbing`: pending requests cannot revive a terminal row.
- `Gapless`, `NoEventTwice`, `CausesPrecede`: INV-EVENT-001/002 though
  sequences are computed outside the transaction, events are sent again after
  a lost answer, and causes may be of another run.
- `TruthfulReports`: reported done implies committed; reported failed implies
  nothing committed; only a crash leaves it open.
- `AdvanceIsFresh`: an `advance` commits against the row it decided on.
- `ImplementsLedger`: see above.
- `EveryCallEnds`: no wait for a lock held by a process that failed.
- `ApprovalSpentOnce`, `EffectsApproved`: `prepare_txn` and `consume_approval`
  compete for the same row.
- `ObservedIsThere`: an intent that recovery may commit without replay has its
  effect, executed once.
- `NoTempLeft`: no answered call leaves a temporary file, whatever failed.
- `ImplementsPatchTree`: all or nothing, on a tree that a snapshot shows as the
  one the PatchSet was made for, over everything that can fail in between. What a
  broken call left behind, its temporary file included, makes the snapshot differ.
- `ChangesWhatItNames`: no file changes but those whose canonical names the call
  has answered for, and none outside the root, whatever links its names pass and
  whatever directories come and go between the preflight and the last operation.
- `ObjectsWhole`: no sequence of deaths and power losses leaves part of an object
  at its digest path, where a later `put` would find its own crash as corruption.
- `InstalledSurvives`: what was synced stays, whoever replaces it later.
- `ImplementsStore`: two writers on one path, a file that is found and a file
  that is damaged between two steps are all one step of `ObjectStore` or none.
- `NothingDropped`: a candidate made from the base alone holds all there was at
  the end of the capture, whatever was edited during it but the head.
- `VerifiedIsSource`: bytes that were edited between the snapshot and the overlay
  are found out by the digests.
- `ReplayReproduces`: of a state nobody edits a replay verifies if and only if
  the state is `Replayable`, which says exactly what replay cannot do (section 6).
- `SatisfiedIsEvidenced`: recomputes from the records what a satisfied
  criterion must rest on and compares it with the evaluators, per mode. A
  reference of an older candidate is the one thing that counts and should not
  (section 6); the formula names it (`OutdatedlyProven`).
- `EditOpensNothing`: an action property about edits: what did not count before
  an edit does not count after it, although the edit makes failures stale and ends
  waivers that hid a claim. The formula names the two ways round it: a waiver of
  the new candidate, and old references once the edit has ended a refutation or a
  waiver.
- `AcceptedWhereLanded`: reuse of a result never stands for a tree it was not
  made on, if the caller reuses current results only.
- `TerminationReported`: of the processes that ran in the group when a call was
  stopped, those that run on after the answer will be ended by a signal, or are
  descendants that ignore SIGTERM. The leader never is one of these, although it
  ignores SIGTERM too: it is killed.
- `CallEnds`: a call with a timeout is answered, whoever ignores signals, leaves
  the group or holds pipes, except at the two waits that have no deadline (`Unread`,
  `HeldOpen`, section 6).
- `OpenedAboveEveryDeny`: whatever is not denied is opened by trusted rules, and
  for each deny that matches one of them has more authority and one is narrower.
  They need not be the same rule: that is what `LowerLayerNeverOpens` shows.
- `DenyOnlyNarrows`: a deny that is added never makes any answer more
  permissive, although it changes both criteria of `_combine` at once.
- `ApprovalIsForThis`: the reuse of an approval agrees with
  `requires_new_approval`, a different comparison in another function.
- `NeverWider`, `EffectiveIsIntersection`: a security field is the intersection
  of what was asked, no wider and no narrower, though it is narrowed twice and
  the defaults take part in the merge and not in the narrowing.
- `OrdinaryIsLast`: every other field is the highest layer's, whatever name it
  was written under. Of an adapter that a document declares and a key in the
  environment implies (`Disputed`) it says only that some layer has the value:
  code and comment disagree about which (section 6).

### Bounds and why they are enough

`MaxVersion = 13` lets a run take a whole forward path with a repair loop, a
reconciliation or a recovery; exceptional commands are issued in four states
only (`Disturbed`), since each one early in the path uses up versions and leads
back to where it came from; the theorems have them everywhere. `MaxCandidate = 1`
gives an old and a new candidate, which is all a stale request can confuse. Two
processes with two calls give every pair of commands in both orders plus a
repetition (an event sent again needs an earlier call of the same process). Two
runs are needed for foreign causes. Two workers and two intents give every race
on one approval; `MaxAttempts = 2` is one more than the property allows. The
places of `Patching` are a file, a file in a directory, an ignored file in one
that has to be made, a file below a file, and one outside the root; the links
lead to a directory, to a file and out of the root. Requests are of every kind;
they name a file twice through a link, turn a file into a directory, change a
mode alone, and leave the root. `Patching` fails anywhere, so one call per
caller shows every state another call may find. Two writers and three paths are
every pair of installations on one path and on two; a path is `Rooted` or not.
Two paths are one file that is edited beside one that is not, and two edits are
one that hides the other. One edit, one tick and two configurations age every
kind of evidence. Three processes are the leader, a child that outlives SIGTERM
and a daemon that may leave the group; each may be forked by each. Stdin is
nothing, fits the pipe or does not. Three rules are a deny, a rule that outranks
it and one that is narrower, which is all `_combine` tells apart. The merge
treats fields one by one, so one security field at a time in every combination
of the five layers that may ask for it is enough; aliases, files and variables
have instances of their own. Evaluations of a criterion are SATISFIED or
INCONCLUSIVE in `RunLifecycle`, one that opens the gate and one that does not.
Symmetry is used only where requesters, workers, writers and paths are
interchangeable, and never with a liveness property. Deadlock is switched off
where the bounds or terminal states end a behaviour; in `ToolProcess` and
`RunStore` liveness is checked instead of it.

### Fairness

`RunStore!FairSpec`, which the run `RunStore` checks: weak fairness of each
process's own `Step` (the operating system schedules it, SQLite's busy timeout
ends a wait). No fairness for `Invoke` (nobody owes a call), `StatementFails` or
`Crash`. `ToolProcess!ProcessSpec`: weak fairness of the calling thread, of the
clock and of the death of a process that a signal it obeys has reached. None for
processes that exit by themselves, read, close a pipe or fork, or for a
cancellation. The other runs assume no fairness, and none of the safety
properties needs any.

## 4. Theorems

`RunLifecycleProofs`, for any requesters, criteria, commands and bounds:

- `TransitionDeterministic`: a state and a command have at most one successor.
- `TypeCorrect`: `Spec => []TypeOK`.
- `ReviewGate`: `Spec => []ReviewedUnlessReconciled`. Not inductive alone:
  `IInv` adds `VouchInv` (wherever the run is past review, *or may resume
  there* by its resume target or checkpoint, its candidate is vouched for) and
  `FreshInv` (a request whose expected version is the live one was prepared for
  the candidate, and the integration, the run has now). A move makes every
  pending request stale (`MoveMakesStale`), which is where the version check
  does its work. One lemma per action.
- `AcceptGate`: `Spec => []AcceptedIsIntegrated`, by `FreshInv` on the
  guard context a request carries.
- `TerminalStays`: `Spec => TerminalAbsorbing`, from the relation alone.
- `DriftGate`: `Spec => []DriftReconciled`, with every command. `DriftInv` lists
  where a drifted run may be: waiting with nothing proven, on a detour through
  BLOCKED or INTERRUPTED *whose resume target leads back*, or failed; given to
  recovery it may be anywhere. Recovery is the only detour that resumes to a
  checkpoint, which is the state before the drift: that is the divergence of section
  6, and the theorem says it is the only one.
- `DriftWithoutRecovery`: if `require_recovery` is in no state among the commands, a
  drifted run works on only from a reconciliation, without exception.

`RunStoreProofs`, for any processes, runs, moves and number of calls:

- `TypeCorrect`: `Spec => []TypeOK`.
- `JournalGapless`: `Spec => []Gapless`.
- `AdvanceFresh`: `Spec => AdvanceIsFresh`.
- `StoreImplementsLedger`: `Spec => ImplementsLedger`.
- `EventsOnce`, `CausesEarlier`, `ReportsTrue`: `NoEventTwice`, `CausesPrecede`
  and `TruthfulReports` always hold.

  All of them rest on `IInv == TypeOK /\ Locked /\ Claims /\ Shape /\ Gapless`:
  `Locked`, who is inside the transaction holds the lock; `Claims`, runs being
  created are absent and claimed by one process; `Shape`, at every point of the
  transaction `tx` is the committed image plus exactly the statements executed
  so far. `Shape` is what makes `Commit` a single ledger step and every other
  action a stutter. `LastSequence`, a `CHOOSE` over sequence numbers, is shown
  to be `Len` for gapless journals.

`SideEffectsProofs`, for any workers, intents, approvals and numbers of attempts:

- `TypeCorrect`, `SpentOnce`, `Approved`: `TypeOK`, `ApprovalSpentOnce` and
  `EffectsApproved` always hold, however recoveries interleave.
- `ObservedThere`, `JournalImplementsOnce`: `ObservedIsThere` and
  `ImplementsOnce` hold if recoveries exclude each other (`Exclusive`).
  `IInv == TypeOK /\ Journalled /\ Alone /\ Stage`: who is at work on an intent is
  alone with it, and where it is in its call says what the row and the world are.
  Without `Alone` the row may say PREPARED while another worker executes.

`ToolProtocolProofs`, for any callers, places, links, requests and faults, and
for any process tree:

- `NoTempStays`: `Spec => []NoTempLeft`, unconditionally.
- `PatchSetIsAtomic`: `Exclusive /\ Direct => (Spec => ImplementsPatchTree)`.

  `Direct` says that each name a request has leads to one place of the model
  whatever else exists: `NormalizeRepoPath` refuses it or answers that place. It
  excludes names that pass a link that leads nowhere, for which the code fails
  the promise (section 6); TLC evaluates it to TRUE on the instance
  (the expression `NamesAreDirect` of `MCPatching`). `IInv == Shape /\
  Quiet /\ Alone /\ Busy`: one call is at work at a time, only it holds backups,
  and where it is tells what it has done of its request (`Does`): the operations
  that have passed (`Checking`), are backed up (`Backing`), are applied while the
  later ones find the old tree (`Applying`), or are old or new until they are
  restored (`Rolling`), all seen from the tree there was before (`Before`).
  Operations that have passed name different files (`FitApart`), so the order in
  which they are applied does not matter and the last of them completes
  `PatchTree!After`; a call that stops anywhere is a `Break` that keeps exactly the
  files that are still old (`HalfDone`, `BreakIs`).

- `NamedFilesOnly`: `NamesLead => (Spec => ChangesWhatItNames)`, however calls
  interleave. `NamesLead` says that a canonical name leads to itself, that is, no
  name passes a link that leads nowhere; `Direct` implies it (`DirectLeads`).
  `Covered`: what a call has planned and backed up lies in the names it has
  `seen`, and these lie in the root, so neither an operation nor a rollback
  reaches elsewhere.
- `TerminationComplete`: `ProcessSpec => []TerminationReported`, for every tree.
  `Stopped`: from the signal on, whoever of the group it reached is sent one it obeys
  or ignores SIGTERM; the leader is in that group, so once the wait for it is over it
  is dead or killed.

`EvidenceProofs`, for any writers, paths and lasting directories, and for any
claims, checks, criteria, configurations and waivers:

- `Wholeness`, `Survival`, `Refinement`: `ObjectsWhole`, `InstalledSurvives` and
  `ImplementsStore`. What may be found after a power loss is never partial and
  includes what is there now, and only synced bytes are given a name (`IInv`).
- `CountsOnEvidence`: `EvidenceSpec => []SatisfiedIsEvidenced`, references of older
  candidates excepted as said there. The evaluators
  count parts of the claims, over results that are stale and waivers that expire;
  `ClaimStates` says what each state of a claim rests on, `PartsCover` what it
  means that the counts add up, `CountedIsEvidenced` compares both, per mode.
- `EditsOpenNothing`: `EvidenceSpec => EditOpensNothing`. After an edit no result is
  current, so a claim is ESTABLISHED by a reference only (`EditedClaims`); a criterion
  that counts then has a waiver or such a claim (`CountsByEstablished`), and it counted
  before unless something refuted or waived one of its claims (`CountsWhenEnough`).
- `AcceptedOnLanded`: `EvidenceSpec => []AcceptedWhereLanded`; reuse is granted
  for the landed tree only (`LandedVerifies`), and nothing after it moves the tree.

`SnapshotProofs`, for any paths, contents and number of edits:

- `CleanBase`, `VerifiedReplay`, `ReplayOfReplayable`: `NothingDropped`,
  `VerifiedIsSource`, `ReplayReproduces`. The invariant says, question by
  question, that the snapshot agrees with the repository while no edit fell into
  the capture, and with the state at its end afterwards. No induction on paths is
  needed: `todo` bounds what is not read yet.

`PolicyProofs`, for any rules, requests, grants and registries:

- `DenyNarrows`: `Spec => DenyOnlyNarrows`. Adding denies leaves the allows as
  they are, so `DenyRules` can only become true; where it stays false, the
  narrowest rules either stay the same or a deny joins them (`NarrowestAbove`).
- `OpenedAbove`: `Spec => []OpenedAboveEveryDeny`, from the same lemmas; it holds
  in every state because it is about `evaluate` alone.
- `ApprovalBinds`: `Spec => []ApprovalIsForThis`, from what is known of the
  approval in force (`GrantInv`).
- `TypeCorrect`: `Spec => []TypeOK`.

`ConfigMergeProofs`, for any schema, defaults, files, environment and command
line:

- `LayersOnlyNarrow`: `Spec => []NeverWider`. `IInv` is `Sources /\ Held /\
  Merging /\ Merged`: `Held` has `effective_security` below every document taken
  so far, and each of its values in some layer; `Merging` has what is merged so
  far below every layer passed; so after the merge it is below
  `effective_security` (`Merged`), and the environment and the command line keep
  it there. Without the second half of `Held` the two accumulators of the code
  could not be compared.
- `ResolutionExact`: `Spec => []EffectiveIsIntersection`. To `IInv` it adds that
  every value held is at least as wide as whatever all those who asked allow
  (`GreatestIn`): narrowing keeps that (`NarrowExact`), an overlay too
  (`OverlayGreatest`), and the defaults never get into a security field that
  somebody asked for.
- `LastWins`: `Spec => []OrdinaryIsLast`. `Overlaid` follows every field that is
  not a security field to the last layer that has it.

Assumptions: the named assumptions of the modules, evaluated by TLC in every
run: model values differ, bounds are naturals; the kinds of security fields are
disjoint, no variable overrides one of them, classifications are ranked; a
requirement is what `validate_evidence_requirement` accepts (some claims, one of
three modes, a positive threshold), a waiver expires at a time or never.
Hypotheses of single theorems are written in them: `Exclusive`, `Direct`,
`NamesLead`, and the command left out of `DriftWithoutRecovery`.

Only model-checked: liveness, `EveryCallEnds` and `CallEnds`, and anything about
ENABLED (out of the prover's reach). What a name becomes is a fold over its
components, and folds need an induction the provers cannot instantiate: that the
names of a request lead somewhere is a hypothesis on the constants, which TLC
finds true of the instance (`NamesAreDirect`). All other properties of the
passing runs are theorems.

## 5. Where the code and its documents differ: checked

- **RunStoreTerminalStays.** `cancel` and `reject` decide on the row they read
  before BEGIN IMMEDIATE and update by `run_id` alone. A run that failed in the
  meantime becomes INTERRUPTED or REJECTED; Blueprint 9.8.4 has terminal states
  terminal.
- **PolicyWidened.** `_combine` asks of authority only whether some deny is
  outranked by no allow; then the narrowest rule governs whoever made it. With a
  broad SYSTEM allow in force, a narrow PROJECT allow opens what a USER deny had
  closed (the tests have the case of two rules only). Blueprint line 1907: "a
  lower layer may narrow but never widen a higher-authority deny."

## 6. Further known divergences

Met while modelling. The models behave as the code does here. Where such a case
can happen in a run and a property is about it, the property names it as an
exception (`DriftReconciled`, `SatisfiedIsEvidenced`, `EditOpensNothing`,
`TerminationReported`, `CallEnds`, `OrdinaryIsLast`); otherwise the properties do not
speak of it, or the parameter that leaves it out is said with them (`Exclusive`,
links that lead somewhere). A passing run confirms none of them right.

- A resume to READY_FOR_USER after a reconciliation does not ask for that
  state's guard (`state_machine.yaml:160`).
- `require_recovery` out of RECONCILIATION_REQUIRED, then a resume from there to
  the last checkpoint, skips the reconciliation. `RunLifecycle` has it;
  `DriftReconciled` holds of it only because it excepts what was `recovered`.
- `reject` leaves no event, moves a run from states that have no such
  transition, and two rejections bump the version twice.
- A cancel that lost a race to another answers PERSIST_CORRUPT; a repeated
  cancellation should be a no-op success (Blueprint line 3869).
- `cancel` writes neither `resume_target_state` nor a checkpoint.
- Two recoveries of one PREPARED intent are both told to execute it.
- An APPLYING intent proven absent stays APPLYING; reconciling an
  OBSERVED_APPLIED one raises; `record_observation` overwrites the digest with
  NULL when none is passed; `consume_approval` ignores the run.
- The snapshot a PatchSet is compared with shows no ignored file
  (`_repository_identity.py:198`) and no mode but the executable bit, so the tree
  may differ there from the one the PatchSet was made for.
- Preimages are not checked again at the write, and a process that dies inside
  `apply_patch_set` leaves half of it; written files lose their mode.
- A descendant that ignores SIGTERM, one that left the group and one that is
  forked after the signal survive a TIMEOUT or CANCELLED answer, which does not
  say so (Blueprint 9.14.6); one that redirected its output survives SUCCESS. A
  broken pipe on stdin answers FAILURE and leaves the tree running.
- Input larger than the pipe buffer blocks before the deadline is computed
  (`_tool_protocol.py:286`), and after SIGKILL of the leader `communicate()` is
  called without a timeout (line 318) and waits for whoever still holds the pipes:
  a call with a timeout may never be answered. These are `Unread` and `HeldOpen`.
- `evaluate_claim` discards stale check results but lets evidence references,
  which carry no candidate, match for ever (`_verification.py:147-149`): an edit
  turns a DISPROVEN claim into an ESTABLISHED one, where Blueprint 9.15.7 has
  INCONCLUSIVE. So does a change of configuration that makes the FAIL stale.
- A review handed over as a bare status is believed: whose candidate, context and
  criteria it is about is asked of a mapping only (`_verification.py:202-208`).
- `post_integration_reuse_allowed` does not ask whether the result is current.
- The gate does not pass the implementer's context to the review evaluator.
- A waiver of an ESTABLISHED claim hides it: an ANY criterion whose other
  claims are open becomes INCONCLUSIVE. A NOT_APPLICABLE check makes its claims
  INCONCLUSIVE.
- Two names of one file through a link to a directory that is still missing
  (`l -> d`: `l/n` and `d/n`) have different canonical names, so
  TOOL_PATCH_DUPLICATE_PATH is not raised and the second CreateFile overwrites
  the first; the canonical name of the first is not the place that is written.
  `Patching` has such links only if an instance gives them.
- A rollback leaves the directories the operations made. A PatchSet that turns a
  file into a directory and then fails cannot be rolled back at all. A test for
  symbolic links (`_tool_protocol.py:388`) is made on resolved paths, where it is
  never true.
- `calculate_resources` looks at `path`, `source`, `destination` and `roots` of
  a tool call's arguments only: the operations of a PatchSet yield no resource.
  `pattern_is_broader_than` lets `*` of a GLOB parent cross `/`. These two are
  read, not modelled.
- A second `put` that finds the object before the first one has synced the
  directory answers at once; `_output` takes what it finds unread and never syncs
  the directory; a directory that was made for an object has its own entry never
  synced. An object that was answered may so be lost with the power (Blueprint
  lines 2264-2272, 3687). A process that dies leaves its temporary file.
- A capture during which the user edits is not refused, against "exact" in the
  docstring of `capture_repository_snapshot`. A replay does not reproduce a
  staged deletion whose file is gone too, an empty index over a base with files,
  a conflict on a path of the base, or an intent to add (`git update-index` has
  no `--intent-to-add`, so it raises); the bytes of a conflict are in no digest
  and no overlay; an intent is recorded only when the head lacks the path and the
  file is there (Blueprint lines 3423-3425).
- The built-in defaults are fallbacks that constrain nothing: a repository's
  document alone may set `network.default` to allow or raise the egress ceiling.
  `data_egress.destinations` and `policy.default_decision` are not narrowed at
  all (Blueprint line 3172: repository configuration must not widen security).
- The comment at `_config.py:375` has a provider's key declare its adapter only
  when the operator has not declared one; the layer starts empty, so the adapter
  is always set and overrides the operator's. `ConfigMerge` does as the code does,
  and `OrdinaryIsLast` leaves open which of the two is right.

## 7. Not modelled

Canonical serialization (bytes, covered by golden vectors of the tests);
contract, schema and registry loading; identity generation; output formatting
and the options of the command line; the text substitutions of redaction; the
normalization of processes, origins, services and policy patterns; migrations of
a newer database schema; the per-platform paths and the digest of a
configuration; submodules and sparse checkouts of a snapshot; scripts that check
the repository itself. None of these keeps state or interacts with another
process.

What would add most from here: for each exception the properties name, a run that
shows it against the sentence it contradicts (the tool call that is never answered,
the reference of an older candidate and the drift past recovery first), and one for
two recoveries of one intent; a composition in which a run's `advance` carries
evaluations computed by `Verification` over `RunStore`'s transactions; lemmas
about what `NormalizeRepoPath` answers for names of bounded length, which would
take `Direct` from a hypothesis to a consequence.
