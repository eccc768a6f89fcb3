---------------------------- MODULE SideEffects ----------------------------
(***************************************************************************)
(* The side-effect journal (_side_effects.py) and the workers that use it  *)
(* around an external effect, as the Blueprint's execution protocol        *)
(* (10.13.2) orders the calls: prepare_txn, the effect, record_observation.*)
(* Each call is one SQLite transaction and so one step here (RunStore shows*)
(* why); the worker may die between any two, and whoever finds an          *)
(* incomplete intent afterwards probes the world and calls reconcile_txn.  *)
(***************************************************************************)
EXTENDS Naturals, FiniteSets

CONSTANTS Workers, Txns, Approvals,
          NoApproval,  \* the request needs no one-shot approval
          Asks,        \* txn -> the approval its request spends, or NoApproval
          Foreign,     \* the approvals that belong to another run
          Exclusive,   \* a recovery waits until nobody is at work on the txn
          MaxAttempts  \* bound on executions of one effect

ASSUME SideEffectsAssumption ==
  /\ NoApproval \notin Approvals /\ Foreign \subseteq Approvals /\ Txns # {}
  /\ Asks \in [Txns -> Approvals \union {NoApproval}]
  /\ Exclusive \in BOOLEAN /\ MaxAttempts \in Nat \ {0}

VARIABLES
  phase,        \* txn -> phase of its side_effect_txns row, NoRow before it
  post,         \* txn -> the post_state_digest of the row
  consumed,     \* approval -> consumed_count
  revoked,      \* the revoked approvals
  consumptions, \* the rows <<approval, txn>> of approval_consumptions
  world,        \* txn -> the state its effect left in the world
  applied,      \* txn -> how often its effect was executed (history)
  pc, txn,      \* worker -> where it is, and on which txn
  observed      \* worker -> what its probe told it

vars == <<phase, post, consumed, revoked, consumptions, world, applied, pc, txn, observed>>
approvals == <<consumed, revoked, consumptions>>
outside == <<world, applied>>
worker == <<pc, txn, observed>>

Phases == {"PREPARED", "APPLYING", "OBSERVED_APPLIED", "COMMITTED",
           "RECONCILIATION_REQUIRED", "ABORTED"}
NoRow == "none"

\* What a digest can tell: the state the request asked for, or another one.
Absent == "absent"
Requested == "requested"
Other == "other"
NoDigest == "none"
Unknown == "unknown"

AllowedPhaseTransitions ==
  [PREPARED |-> {"APPLYING", "OBSERVED_APPLIED", "RECONCILIATION_REQUIRED", "ABORTED"},
   APPLYING |-> {"OBSERVED_APPLIED", "RECONCILIATION_REQUIRED", "ABORTED"},
   OBSERVED_APPLIED |-> {"COMMITTED", "RECONCILIATION_REQUIRED"},
   COMMITTED |-> {},
   RECONCILIATION_REQUIRED |-> {"COMMITTED", "ABORTED"},
   ABORTED |-> {}]

\* Mutant: the digest found is not compared with the requested one.
ClassifyPresence(seen) ==
  CASE seen = Absent    -> "NOT_APPLIED"
    [] seen = Unknown   -> "UNKNOWN"
    [] OTHER            -> "APPLIED_MATCH"

\* classify_recovery, of what a probe saw.
ClassifyRecovery(seen) ==
  CASE seen = Absent    -> "NOT_APPLIED"
    [] seen = Unknown   -> "UNKNOWN"
    [] seen = Requested -> "APPLIED_MATCH"
    [] OTHER            -> "APPLIED_DIVERGENT"

\* Mutant: what cannot be told is retried.
RetryUnlessApplied(classification) == classification \in {"NOT_APPLIED", "UNKNOWN"}

RetryAllowed(classification) == classification = "NOT_APPLIED"

Init ==
  /\ phase = [t \in Txns |-> NoRow]
  /\ post = [t \in Txns |-> NoDigest]
  /\ consumed = [a \in Approvals |-> 0]
  /\ revoked = {}
  /\ consumptions = {}
  /\ world = [t \in Txns |-> Absent]
  /\ applied = [t \in Txns |-> 0]
  /\ pc = [w \in Workers |-> "idle"]
  /\ txn = [w \in Workers |-> CHOOSE t \in Txns : TRUE]
  /\ observed = [w \in Workers |-> Unknown]

GoTo(w, label) == pc' = [pc EXCEPT ![w] = label]

-----------------------------------------------------------------------------
(* prepare_txn and consume_approval.                                        *)

\* Mutant: only a revocation counts.
NotRevoked(a) == a \notin revoked

Available(a) == a \notin revoked /\ consumed[a] = 0

Consume(a, t) ==
  /\ consumed' = [consumed EXCEPT ![a] = @ + 1]
  /\ consumptions' = consumptions \union {<<a, t>>}
  /\ UNCHANGED revoked

\* Mutant: the intent stays when its approval turns out to be unavailable.
PrepareThenConsume(w, t) ==
  /\ pc[w] = "idle"
  /\ phase[t] = NoRow
  /\ phase' = [phase EXCEPT ![t] = "PREPARED"]
  /\ IF Asks[t] # NoApproval /\ Available(Asks[t]) /\ Asks[t] \notin Foreign
     THEN Consume(Asks[t], t) ELSE UNCHANGED approvals
  /\ txn' = [txn EXCEPT ![w] = t]
  /\ GoTo(w, "prepared")
  /\ UNCHANGED <<post, outside, observed>>

\* The intent and its approval in one transaction; refused, with nothing
\* written, when the txn_id is taken or the approval unavailable.
PrepareTxn(w, t) ==
  /\ pc[w] = "idle"
  /\ phase[t] = NoRow
  /\ Asks[t] # NoApproval => Available(Asks[t]) /\ Asks[t] \notin Foreign
  /\ phase' = [phase EXCEPT ![t] = "PREPARED"]
  /\ IF Asks[t] = NoApproval THEN UNCHANGED approvals ELSE Consume(Asks[t], t)
  /\ txn' = [txn EXCEPT ![w] = t]
  /\ GoTo(w, "prepared")
  /\ UNCHANGED <<post, outside, observed>>

\* SQLiteStore.consume_approval, which asks neither for an intent nor for the
\* run.
ConsumeApproval(a, t) ==
  /\ Available(a)
  /\ Consume(a, t)
  /\ UNCHANGED <<phase, post, outside, worker>>

Revoke(a) ==
  /\ revoked' = revoked \union {a}
  /\ UNCHANGED <<phase, post, consumed, consumptions, outside, worker>>

-----------------------------------------------------------------------------
(* record_observation, and the worker's use of it.                          *)

MayRecord(t, to) == phase[t] # NoRow /\ to \in AllowedPhaseTransitions[phase[t]]

\* Mutant: the two parameters of the UPDATE are swapped.
RecordSwapped(t, to, digest) ==
  /\ MayRecord(t, to)
  /\ phase' = [phase EXCEPT ![t] = digest]
  /\ post' = [post EXCEPT ![t] = to]

RecordObservation(t, to, digest) ==
  /\ MayRecord(t, to)
  /\ phase' = [phase EXCEPT ![t] = to]
  /\ post' = [post EXCEPT ![t] = digest]

\* A worker announces that it is about to execute; it need not.
MarkApplying(w) ==
  /\ pc[w] = "prepared"
  /\ RecordObservation(txn[w], "APPLYING", NoDigest)
  /\ GoTo(w, "applying")
  /\ UNCHANGED <<approvals, outside, txn, observed>>

\* The effect happens, as requested or partly.
ExecuteEffect(w) ==
  /\ pc[w] \in {"prepared", "applying"} /\ applied[txn[w]] < MaxAttempts
  /\ \E outcome \in {Requested, Other} : world' = [world EXCEPT ![txn[w]] = outcome]
  /\ applied' = [applied EXCEPT ![txn[w]] = @ + 1]
  /\ GoTo(w, "executed")
  /\ UNCHANGED <<phase, post, approvals, txn, observed>>

\* Giving up before the effect.
Abort(w) ==
  /\ pc[w] \in {"prepared", "applying"}
  /\ RecordObservation(txn[w], "ABORTED", NoDigest)
  /\ GoTo(w, "idle")
  /\ UNCHANGED <<approvals, outside, txn, observed>>

\* Recomputing the post-state: only the requested one is an observation to
\* commit.
Observe(w) ==
  LET t == txn[w]
      to == IF world[t] = Requested THEN "OBSERVED_APPLIED" ELSE "RECONCILIATION_REQUIRED"
  IN
  /\ pc[w] = "executed"
  /\ IF MayRecord(t, to)
     THEN RecordObservation(t, to, world[t]) /\ GoTo(w, IF to = "OBSERVED_APPLIED"
                                                        THEN "observed" ELSE "idle")
     ELSE UNCHANGED <<phase, post>> /\ GoTo(w, "idle")
  /\ UNCHANGED <<approvals, outside, txn, observed>>

CommitTxn(w) ==
  LET t == txn[w] IN
  /\ pc[w] = "observed"
  /\ IF MayRecord(t, "COMMITTED")
     THEN RecordObservation(t, "COMMITTED", world[t])
     ELSE UNCHANGED <<phase, post>>
  /\ GoTo(w, "idle")
  /\ UNCHANGED <<approvals, outside, txn, observed>>

Crash(w) ==
  /\ pc[w] # "idle"
  /\ GoTo(w, "idle")
  /\ UNCHANGED <<phase, post, approvals, outside, txn, observed>>

-----------------------------------------------------------------------------
(* Recovery.                                                                *)

Incomplete == {"PREPARED", "APPLYING", "OBSERVED_APPLIED"}

\* A worker finds an incomplete intent and looks at the world, which may not
\* tell.
Probe(w, t) ==
  /\ pc[w] = "idle" /\ phase[t] \in Incomplete
  /\ Exclusive => \A v \in Workers : pc[v] # "idle" => txn[v] # t
  /\ txn' = [txn EXCEPT ![w] = t]
  /\ \E seen \in {world[t], Unknown} : observed' = [observed EXCEPT ![w] = seen]
  /\ GoTo(w, "probed")
  /\ UNCHANGED <<phase, post, approvals, outside>>

\* reconcile_txn: an effect proven absent may be executed and leaves the row
\* as it is, a matching one becomes an observation, anything else needs
\* reconciliation; record_observation may refuse, which raises.
ReconcileTxn(w) ==
  LET t == txn[w]
      classification == ClassifyRecovery(observed[w])
      to == IF classification = "APPLIED_MATCH"
            THEN "OBSERVED_APPLIED" ELSE "RECONCILIATION_REQUIRED"
  IN
  /\ pc[w] = "probed"
  /\ IF RetryAllowed(classification)
     THEN GoTo(w, IF phase[t] = "PREPARED" THEN "prepared" ELSE "applying")
          /\ UNCHANGED <<phase, post>>
     ELSE IF MayRecord(t, to)
     THEN RecordObservation(t, to, IF observed[w] = Unknown THEN NoDigest ELSE observed[w])
          /\ GoTo(w, IF to = "OBSERVED_APPLIED" THEN "observed" ELSE "idle")
     ELSE GoTo(w, "raised") /\ UNCHANGED <<phase, post>>
  /\ UNCHANGED <<approvals, outside, txn, observed>>

\* An observation recorded before a crash is committed without replay.
CommitObserved(t) ==
  /\ phase[t] = "OBSERVED_APPLIED"
  /\ RecordObservation(t, "COMMITTED", world[t])
  /\ UNCHANGED <<approvals, outside, worker>>

\* The operator settles what could not be reconciled.
Resolve(t) ==
  /\ phase[t] = "RECONCILIATION_REQUIRED"
  /\ \E to \in {"COMMITTED", "ABORTED"} : RecordObservation(t, to, world[t])
  /\ UNCHANGED <<approvals, outside, worker>>

-----------------------------------------------------------------------------

Next ==
  \/ \E w \in Workers :
       \/ \E t \in Txns : PrepareTxn(w, t) \/ Probe(w, t)
       \/ MarkApplying(w) \/ ExecuteEffect(w) \/ Abort(w)
       \/ Observe(w) \/ CommitTxn(w) \/ Crash(w) \/ ReconcileTxn(w)
  \/ \E t \in Txns : CommitObserved(t) \/ Resolve(t)
  \/ \E a \in Approvals : Revoke(a) \/ \E t \in Txns : ConsumeApproval(a, t)

Spec == Init /\ [][Next]_vars

-----------------------------------------------------------------------------
(* Properties.                                                              *)

Labels == {"idle", "prepared", "applying", "executed", "observed", "probed", "raised"}

TypeOK ==
  /\ phase \in [Txns -> Phases \union {NoRow}]
  /\ post \in [Txns -> {NoDigest, Absent, Requested, Other}]
  /\ consumed \in [Approvals -> Nat]
  /\ revoked \subseteq Approvals
  /\ consumptions \subseteq Approvals \X Txns
  /\ world \in [Txns -> {Absent, Requested, Other}]
  /\ applied \in [Txns -> 0..MaxAttempts]
  /\ pc \in [Workers -> Labels]
  /\ txn \in [Workers -> Txns]
  /\ observed \in [Workers -> {Unknown, Absent, Requested, Other}]

\* An approval for one use is spent at most once and its count says on what:
\* no race of prepare_txn and consume_approval spends it twice.
ApprovalSpentOnce ==
  \A a \in Approvals :
    /\ consumed[a] = Cardinality({ c \in consumptions : c[1] = a })
    /\ consumed[a] <= 1

\* No effect that needs an approval happens unless its own intent spent it.
EffectsApproved ==
  \A t \in Txns : applied[t] > 0 /\ Asks[t] # NoApproval => <<Asks[t], t>> \in consumptions

\* What the journal calls observed is there: an intent waiting to be committed
\* without replay has its requested effect in the world, executed once.
ObservedIsThere ==
  \A t \in Txns : phase[t] = "OBSERVED_APPLIED" =>
    world[t] = Requested /\ post[t] = Requested /\ applied[t] = 1

\* Effects happen under an open intent and at most once, over every crash and
\* recovery (EffectOnce).
Settled == {"COMMITTED", "ABORTED"}
Status == [t \in Txns |-> IF phase[t] = NoRow THEN "none"
                          ELSE IF phase[t] \in Settled THEN "settled" ELSE "open"]
Once == INSTANCE EffectOnce WITH status <- Status, count <- applied
ImplementsOnce == Once!Spec
=============================================================================
