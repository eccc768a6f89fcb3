-------------------------- MODULE SideEffectsProofs --------------------------
(***************************************************************************)
(* Proofs about SideEffects, for any workers, intents and approvals.  What *)
(* concerns approvals holds however recoveries interleave.  That an effect *)
(* happens once needs recoveries that exclude each other (Exclusive): then *)
(* a worker is alone with its intent (Alone), and what it has reached says *)
(* what the row and the world are (Stage).                                 *)
(***************************************************************************)
EXTENDS SideEffects, FiniteSetTheorems, TLAPS

USE SideEffectsAssumption

(* What a record leaves behind is typed.                                    *)
LEMMA RecordTyped ==
  ASSUME TypeOK, NEW t \in Txns, NEW to, NEW digest \in {NoDigest, Absent, Requested, Other},
         RecordObservation(t, to, digest)
  PROVE  /\ phase' \in [Txns -> Phases \union {NoRow}]
         /\ post' \in [Txns -> {NoDigest, Absent, Requested, Other}]
  <1>1. to \in Phases
    BY DEF TypeOK, RecordObservation, MayRecord, AllowedPhaseTransitions, Phases, NoRow
  <1>2. QED
    BY <1>1 DEF TypeOK, RecordObservation

LEMMA TypePreserved == TypeOK /\ [Next]_vars => TypeOK'
  <1> SUFFICES ASSUME TypeOK, [Next]_vars PROVE TypeOK'
    OBVIOUS
  <1> USE DEF TypeOK, GoTo, Labels, approvals, outside, worker
  <1>1. ASSUME NEW w \in Workers, NEW t \in Txns, PrepareTxn(w, t) PROVE TypeOK'
    BY <1>1 DEF PrepareTxn, Consume, Phases
  <1>2. ASSUME NEW w \in Workers, NEW t \in Txns, Probe(w, t) PROVE TypeOK'
    BY <1>2 DEF Probe
  <1>3. ASSUME NEW w \in Workers, MarkApplying(w) PROVE TypeOK'
    BY <1>3, RecordTyped DEF MarkApplying
  <1>4. ASSUME NEW w \in Workers, ExecuteEffect(w) PROVE TypeOK'
    <2>1. applied[txn[w]] + 1 \in 0..MaxAttempts
      BY <1>4 DEF ExecuteEffect
    <2>2. QED
      BY <1>4, <2>1 DEF ExecuteEffect
  <1>5. ASSUME NEW w \in Workers, Abort(w) PROVE TypeOK'
    BY <1>5, RecordTyped DEF Abort
  <1>6. ASSUME NEW w \in Workers, Observe(w) PROVE TypeOK'
    BY <1>6, RecordTyped DEF Observe
  <1>7. ASSUME NEW w \in Workers, CommitTxn(w) PROVE TypeOK'
    BY <1>7, RecordTyped DEF CommitTxn
  <1>8. ASSUME NEW w \in Workers, Crash(w) PROVE TypeOK'
    BY <1>8 DEF Crash
  <1>9. ASSUME NEW w \in Workers, ReconcileTxn(w) PROVE TypeOK'
    <2>1. (IF observed[w] = Unknown THEN NoDigest ELSE observed[w])
            \in {NoDigest, Absent, Requested, Other}
      OBVIOUS
    <2>2. phase' \in [Txns -> Phases \union {NoRow}] /\ post' \in [Txns -> {NoDigest, Absent, Requested, Other}]
      BY <1>9, <2>1, RecordTyped DEF ReconcileTxn
    <2>3. QED
      BY <1>9, <2>2 DEF ReconcileTxn
  <1>10. ASSUME NEW t \in Txns, CommitObserved(t) PROVE TypeOK'
    BY <1>10, RecordTyped DEF CommitObserved
  <1>11. ASSUME NEW t \in Txns, Resolve(t) PROVE TypeOK'
    BY <1>11, RecordTyped DEF Resolve
  <1>12. ASSUME NEW a \in Approvals, Revoke(a) PROVE TypeOK'
    BY <1>12 DEF Revoke
  <1>13. ASSUME NEW a \in Approvals, NEW t \in Txns, ConsumeApproval(a, t) PROVE TypeOK'
    BY <1>13 DEF ConsumeApproval, Consume
  <1>14. CASE UNCHANGED vars
    BY <1>14 DEF vars
  <1>15. QED
    BY <1>1, <1>2, <1>3, <1>4, <1>5, <1>6, <1>7, <1>8, <1>9, <1>10, <1>11, <1>12, <1>13, <1>14
    DEF Next

LEMMA TypeInitial == Init => TypeOK
  BY DEF Init, TypeOK, Labels, Absent, Unknown, NoRow

(* The journal keeps its types, for any number of workers.                  *)
THEOREM TypeCorrect == Spec => []TypeOK
  BY TypeInitial, TypePreserved, PTL DEF Spec

-----------------------------------------------------------------------------
(* Approvals.                                                               *)

Spent(a) == { c \in consumptions : c[1] = a }

\* The rows of an approval are as many as its count says, which is never two.
Counted ==
  \A a \in Approvals :
    /\ IsFiniteSet(Spent(a)) /\ consumed[a] = Cardinality(Spent(a)) /\ consumed[a] <= 1

LEMMA ConsumeCounted ==
  ASSUME TypeOK, Counted, NEW a \in Approvals, NEW t \in Txns, Available(a), Consume(a, t)
  PROVE  Counted'
  <1>1. ASSUME NEW b \in Approvals
        PROVE  /\ IsFiniteSet(Spent(b)') /\ consumed'[b] = Cardinality(Spent(b)')
               /\ consumed'[b] <= 1
    <2>1. CASE b = a
      <3>1. Spent(a) = {}
        BY FS_EmptySet DEF Counted, Available
      <3>2. Spent(a)' = {<<a, t>>}
        BY <3>1 DEF Spent, Consume
      <3>3. consumed'[a] = 1
        BY DEF Consume, Available, TypeOK
      <3>4. IsFiniteSet({<<a, t>>}) /\ Cardinality({<<a, t>>}) = 1
        BY FS_Singleton
      <3>5. QED
        BY <2>1, <3>2, <3>3, <3>4
    <2>2. CASE b # a
      <3>1. Spent(b)' = Spent(b)
        BY <2>2 DEF Spent, Consume
      <3>2. consumed'[b] = consumed[b]
        BY <2>2 DEF Consume, TypeOK
      <3>3. QED
        BY <3>1, <3>2 DEF Counted
    <2>3. QED
      BY <2>1, <2>2
  <1>2. QED
    BY <1>1 DEF Counted, Spent

LEMMA CountedPreserved == TypeOK /\ Counted /\ [Next]_vars => Counted'
  <1> SUFFICES ASSUME TypeOK, Counted, [Next]_vars PROVE Counted'
    OBVIOUS
  <1>1. CASE UNCHANGED <<consumed, consumptions>>
    BY <1>1 DEF Counted, Spent
  <1>2. ASSUME NEW w \in Workers, NEW t \in Txns, PrepareTxn(w, t) PROVE Counted'
    <2>1. CASE Asks[t] = NoApproval
      BY <1>1, <1>2, <2>1 DEF PrepareTxn, approvals
    <2>2. CASE Asks[t] # NoApproval
      <3>1. Asks[t] \in Approvals
        BY <2>2
      <3>2. QED
        BY <1>2, <2>2, <3>1, ConsumeCounted DEF PrepareTxn
    <2>3. QED
      BY <2>1, <2>2
  <1>3. ASSUME NEW a \in Approvals, NEW t \in Txns, ConsumeApproval(a, t) PROVE Counted'
    BY <1>3, ConsumeCounted DEF ConsumeApproval
  <1>4. QED
    BY <1>1, <1>2, <1>3
    DEF Next, vars, approvals, MarkApplying, ExecuteEffect, Abort, Observe, CommitTxn, Crash,
        ReconcileTxn, Probe, CommitObserved, Resolve, Revoke

(* A one-shot approval is spent at most once and its count tells, whatever  *)
(* prepare_txn and consume_approval do at the same time.                    *)
THEOREM SpentOnce == Spec => []ApprovalSpentOnce
  <1>1. Init => Counted
    <2>1. Init => \A a \in Approvals : Spent(a) = {} /\ consumed[a] = 0
      BY DEF Init, Spent
    <2>2. QED
      BY <2>1, FS_EmptySet DEF Counted
  <1>2. Counted => ApprovalSpentOnce
    BY DEF Counted, Spent, ApprovalSpentOnce
  <1>3. QED
    BY <1>1, <1>2, CountedPreserved, TypeInitial, TypePreserved, PTL DEF Spec

(* Whoever works on an intent, its row is there; so is its approval, and    *)
(* only such intents have effects.                                          *)
Journalled ==
  /\ \A w \in Workers : pc[w] # "idle" => phase[txn[w]] # NoRow
  /\ \A t \in Txns : applied[t] > 0 => phase[t] # NoRow
  /\ \A t \in Txns : phase[t] # NoRow /\ Asks[t] # NoApproval => <<Asks[t], t>> \in consumptions

\* A row is never taken away, an approval's use never forgotten.
LEMMA RowsStay ==
  ASSUME TypeOK, [Next]_vars
  PROVE  /\ \A t \in Txns : phase[t] # NoRow => phase'[t] # NoRow
         /\ consumptions \subseteq consumptions'
  <1>1. ASSUME NEW t \in Txns, NEW to, NEW digest, RecordObservation(t, to, digest)
        PROVE  \A s \in Txns : phase[s] # NoRow => phase'[s] # NoRow
    <2>1. to # NoRow
      BY <1>1 DEF RecordObservation, MayRecord, AllowedPhaseTransitions, TypeOK, Phases, NoRow
    <2>2. QED
      BY <1>1, <2>1 DEF RecordObservation, TypeOK
  <1>2. QED
    BY <1>1
    DEF Next, vars, approvals, outside, worker, Consume, PrepareTxn, ConsumeApproval, Revoke,
        MarkApplying, ExecuteEffect, Abort, Observe, CommitTxn, Crash, ReconcileTxn, Probe,
        CommitObserved, Resolve, TypeOK, NoRow

LEMMA JournalledPreserved == TypeOK /\ Journalled /\ [Next]_vars => Journalled'
  <1> SUFFICES ASSUME TypeOK, Journalled, [Next]_vars PROVE Journalled'
    OBVIOUS
  <1>1. \A w \in Workers : pc'[w] # "idle" => phase'[txn'[w]] # NoRow
    <2> SUFFICES ASSUME NEW w \in Workers, pc'[w] # "idle" PROVE phase'[txn'[w]] # NoRow
      OBVIOUS
    <2>1. CASE pc[w] # "idle" /\ txn'[w] = txn[w]
      BY <2>1, RowsStay DEF Journalled, TypeOK
    <2>2. ASSUME NEW v \in Workers, NEW t \in Txns, PrepareTxn(v, t) PROVE phase'[txn'[w]] # NoRow
      BY <2>1, <2>2 DEF PrepareTxn, GoTo, TypeOK, NoRow
    <2>3. ASSUME NEW v \in Workers, NEW t \in Txns, Probe(v, t) PROVE phase'[txn'[w]] # NoRow
      BY <2>1, <2>3 DEF Probe, GoTo, TypeOK, NoRow, Incomplete
    <2>4. QED
      BY <2>1, <2>2, <2>3
      DEF Next, vars, outside, worker, GoTo, MarkApplying, ExecuteEffect, Abort, Observe, CommitTxn,
          Crash, ReconcileTxn, CommitObserved, Resolve, Revoke, ConsumeApproval, TypeOK
  <1>2. \A t \in Txns : applied'[t] > 0 => phase'[t] # NoRow
    <2>1. ASSUME NEW w \in Workers, ExecuteEffect(w)
          PROVE  \A t \in Txns : applied'[t] > 0 => phase'[t] # NoRow
      BY <2>1 DEF ExecuteEffect, Journalled, TypeOK
    <2>2. CASE UNCHANGED applied
      BY <2>2, RowsStay DEF Journalled
    <2>3. QED
      BY <2>1, <2>2
      DEF Next, vars, outside, PrepareTxn, ConsumeApproval, Revoke, MarkApplying, Abort, Observe,
          CommitTxn, Crash, ReconcileTxn, Probe, CommitObserved, Resolve
  <1>3. \A t \in Txns :
          phase'[t] # NoRow /\ Asks[t] # NoApproval => <<Asks[t], t>> \in consumptions'
    <2> SUFFICES ASSUME NEW t \in Txns, phase'[t] # NoRow, Asks[t] # NoApproval
                 PROVE  <<Asks[t], t>> \in consumptions'
      OBVIOUS
    <2>1. CASE phase[t] # NoRow
      BY <2>1, RowsStay DEF Journalled
    <2>2. CASE phase[t] = NoRow
      <3>1. \A s \in Txns : \A to, digest : RecordObservation(s, to, digest) => phase'[t] = phase[t]
        BY <2>2 DEF RecordObservation, MayRecord, TypeOK
      <3>2. PICK w \in Workers, s \in Txns : PrepareTxn(w, s)
        BY <2>2, <3>1
        DEF Next, vars, worker, outside, ConsumeApproval, Revoke, MarkApplying, ExecuteEffect, Abort,
            Observe, CommitTxn, Crash, ReconcileTxn, Probe, CommitObserved, Resolve, TypeOK
      <3>3. s = t
        BY <2>2, <3>2 DEF PrepareTxn, TypeOK
      <3>4. QED
        BY <3>2, <3>3 DEF PrepareTxn, Consume
    <2>3. QED
      BY <2>1, <2>2
  <1>4. QED
    BY <1>1, <1>2, <1>3 DEF Journalled

(* No effect that needs an approval happens unless its own intent spent it, *)
(* over every crash and recovery.                                           *)
THEOREM Approved == Spec => []EffectsApproved
  <1>1. Init => Journalled
    BY DEF Init, Journalled, NoRow
  <1>2. TypeOK /\ Journalled => EffectsApproved
    BY DEF Journalled, EffectsApproved
  <1>3. QED
    BY <1>1, <1>2, JournalledPreserved, TypeInitial, TypePreserved, PTL DEF Spec

-----------------------------------------------------------------------------
(* Recoveries that exclude each other.                                      *)

\* A worker is alone with its intent.
Alone == \A v, w \in Workers : v # w /\ pc[v] # "idle" /\ pc[w] # "idle" => txn[v] # txn[w]

\* An effect was executed at most once, and not at all where there is none; an
\* intent without a row has none, one that waits for its commit has the right one.
RowTells(t) ==
  /\ applied[t] \in {0, 1} /\ (applied[t] = 0 <=> world[t] = Absent)
  /\ phase[t] = NoRow => world[t] = Absent
  /\ phase[t] = "OBSERVED_APPLIED" => world[t] = Requested /\ post[t] = Requested

\* What a worker knows of the row it works on.
Knows(w) ==
  LET t == txn[w] IN
  /\ pc[w] = "prepared" => phase[t] = "PREPARED" /\ world[t] = Absent
  /\ pc[w] = "applying" => phase[t] = "APPLYING" /\ world[t] = Absent
  /\ pc[w] = "executed" => phase[t] \in {"PREPARED", "APPLYING"}
  /\ pc[w] = "probed" =>
       /\ observed[w] \in {world[t], Unknown}
       /\ \/ phase[t] \in {"PREPARED", "APPLYING"}
          \/ phase[t] \in {"OBSERVED_APPLIED", "COMMITTED"} /\ world[t] = Requested

Stage == (\A t \in Txns : RowTells(t)) /\ (\A w \in Workers : Knows(w))

IInv == TypeOK /\ Journalled /\ Alone /\ Stage

LEMMA IInvInitial == Init => IInv
  <1>1. Init => Alone /\ Stage /\ Journalled
    BY DEF Init, Alone, Stage, RowTells, Knows, Journalled, NoRow
  <1>2. QED
    BY <1>1, TypeInitial DEF IInv

\* Who is at work stays on its intent; who begins finds it free.
LEMMA AlonePreserved == Exclusive /\ IInv /\ [Next]_vars => Alone'
  <1> SUFFICES ASSUME Exclusive, IInv, [Next]_vars PROVE Alone'
    OBVIOUS
  <1>1. ASSUME NEW w \in Workers, NEW t \in Txns, pc' = [pc EXCEPT ![w] = pc'[w]],
               txn' = [txn EXCEPT ![w] = t], \A v \in Workers : pc[v] # "idle" => txn[v] # t
        PROVE  Alone'
    BY <1>1 DEF IInv, Alone, TypeOK
  <1>2. ASSUME NEW w \in Workers, NEW t \in Txns, PrepareTxn(w, t) PROVE Alone'
    BY <1>1, <1>2 DEF PrepareTxn, GoTo, IInv, TypeOK, Journalled
  <1>3. ASSUME NEW w \in Workers, NEW t \in Txns, Probe(w, t) PROVE Alone'
    BY <1>1, <1>3 DEF Probe, GoTo, IInv, TypeOK
  <1>4. CASE UNCHANGED txn /\ \A w \in Workers : pc'[w] # "idle" => pc[w] # "idle"
    BY <1>4 DEF IInv, Alone
  <1>5. QED
    BY <1>2, <1>3, <1>4
    DEF Next, vars, outside, worker, GoTo, MarkApplying, ExecuteEffect, Abort, Observe, CommitTxn,
        Crash, ReconcileTxn, CommitObserved, Resolve, Revoke, ConsumeApproval, IInv, TypeOK

\* A step of a worker disturbs nobody else: the others are on other intents.
LEMMA StageByWorker ==
  ASSUME IInv, NEW w \in Workers, NEW t \in Txns,
         \A v \in Workers \ {w} :
           /\ pc'[v] = pc[v] /\ txn'[v] = txn[v] /\ observed'[v] = observed[v]
           /\ pc[v] # "idle" => txn[v] # t,
         \A s \in Txns \ {t} : /\ phase'[s] = phase[s] /\ post'[s] = post[s]
                              /\ world'[s] = world[s] /\ applied'[s] = applied[s],
         Knows(w)', RowTells(t)'
  PROVE  Stage'
  <1>1. \A s \in Txns : RowTells(s)'
    BY DEF IInv, Stage, RowTells
  <1>2. ASSUME NEW v \in Workers \ {w} PROVE Knows(v)'
    <2>1. CASE pc[v] = "idle"
      BY <2>1 DEF Knows
    <2>2. CASE pc[v] # "idle"
      <3>1. txn[v] \in Txns \ {t}
        BY <2>2 DEF IInv, TypeOK
      <3>2. Knows(v)
        BY DEF IInv, Stage
      <3>3. QED
        BY <2>2, <3>1, <3>2 DEF Knows
    <2>3. QED
      BY <2>1, <2>2
  <1>3. QED
    BY <1>1, <1>2 DEF Stage

LEMMA StagePreserved == Exclusive /\ IInv /\ [Next]_vars => Stage'
  <1> SUFFICES ASSUME Exclusive, IInv, [Next]_vars PROVE Stage'
    OBVIOUS
  <1> USE DEF GoTo, approvals, outside, worker
  <1>t. TypeOK
    BY DEF IInv
  <1>s. /\ \A t \in Txns : RowTells(t)
        /\ \A w \in Workers : Knows(w)
    BY DEF IInv, Stage
  <1>a. \A v, w \in Workers : v # w /\ pc[v] # "idle" /\ pc[w] # "idle" => txn[v] # txn[w]
    BY DEF IInv, Alone
  <1>1. ASSUME NEW w \in Workers, NEW t \in Txns, PrepareTxn(w, t) PROVE Stage'
    <2>1. \A v \in Workers : pc[v] # "idle" => txn[v] # t
      BY <1>1 DEF PrepareTxn, IInv, Journalled
    <2>2. Knows(w)' /\ RowTells(t)'
      BY <1>1, <1>t, <1>s DEF PrepareTxn, Knows, RowTells, TypeOK
    <2>3. QED
      BY <1>1, <1>t, <2>1, <2>2, StageByWorker DEF PrepareTxn, TypeOK
  <1>2. ASSUME NEW w \in Workers, NEW t \in Txns, Probe(w, t) PROVE Stage'
    <2>1. Knows(w)' /\ RowTells(t)'
      BY <1>2, <1>t, <1>s DEF Probe, Incomplete, Knows, RowTells, TypeOK
    <2>2. QED
      BY <1>2, <1>t, <2>1, StageByWorker DEF Probe, TypeOK
  <1>3. ASSUME NEW w \in Workers, MarkApplying(w) PROVE Stage'
    <2>1. Knows(w)' /\ RowTells(txn[w])'
      BY <1>3, <1>t, <1>s DEF MarkApplying, RecordObservation, Knows, RowTells, TypeOK, NoRow
    <2>2. QED
      BY <1>3, <1>t, <1>a, <2>1, StageByWorker DEF MarkApplying, RecordObservation, TypeOK
  <1>4. ASSUME NEW w \in Workers, ExecuteEffect(w) PROVE Stage'
    <2>1. Knows(w)' /\ RowTells(txn[w])'
      BY <1>4, <1>t, <1>s DEF ExecuteEffect, Knows, RowTells, TypeOK, NoRow, Absent, Requested, Other
    <2>2. QED
      BY <1>4, <1>t, <1>a, <2>1, StageByWorker DEF ExecuteEffect, TypeOK
  <1>5. ASSUME NEW w \in Workers, Abort(w) PROVE Stage'
    <2>1. Knows(w)' /\ RowTells(txn[w])'
      BY <1>5, <1>t, <1>s DEF Abort, RecordObservation, Knows, RowTells, TypeOK, NoRow
    <2>2. QED
      BY <1>5, <1>t, <1>a, <2>1, StageByWorker DEF Abort, RecordObservation, TypeOK
  <1>6. ASSUME NEW w \in Workers, Observe(w) PROVE Stage'
    <2>1. Knows(w)' /\ RowTells(txn[w])'
      BY <1>6, <1>t, <1>s DEF Observe, RecordObservation, Knows, RowTells, TypeOK, NoRow
    <2>2. QED
      BY <1>6, <1>t, <1>a, <2>1, StageByWorker DEF Observe, RecordObservation, TypeOK
  <1>7. ASSUME NEW w \in Workers, CommitTxn(w) PROVE Stage'
    <2>1. Knows(w)' /\ RowTells(txn[w])'
      BY <1>7, <1>t, <1>s DEF CommitTxn, RecordObservation, Knows, RowTells, TypeOK, NoRow
    <2>2. QED
      BY <1>7, <1>t, <1>a, <2>1, StageByWorker DEF CommitTxn, RecordObservation, TypeOK
  <1>8. ASSUME NEW w \in Workers, Crash(w) PROVE Stage'
    BY <1>8, <1>t, <1>s DEF Crash, Stage, Knows, RowTells, TypeOK
  <1>9. ASSUME NEW w \in Workers, ReconcileTxn(w) PROVE Stage'
    <2>1. Knows(w)' /\ RowTells(txn[w])'
      BY <1>9, <1>t, <1>s
      DEF ReconcileTxn, RetryAllowed, ClassifyRecovery, RecordObservation, MayRecord,
          AllowedPhaseTransitions, Knows, RowTells, TypeOK, NoRow, Absent, Requested, Unknown, Other
    <2>2. QED
      BY <1>9, <1>t, <1>a, <2>1, StageByWorker DEF ReconcileTxn, RecordObservation, TypeOK
  <1>10. ASSUME NEW t \in Txns, CommitObserved(t) PROVE Stage'
    BY <1>10, <1>t, <1>s DEF CommitObserved, RecordObservation, Stage, Knows, RowTells, TypeOK, NoRow
  <1>11. ASSUME NEW t \in Txns, Resolve(t) PROVE Stage'
    BY <1>11, <1>t, <1>s DEF Resolve, RecordObservation, Stage, Knows, RowTells, TypeOK, NoRow
  <1>12. ASSUME NEW a \in Approvals, Revoke(a) PROVE Stage'
    BY <1>12, <1>s DEF Revoke, Stage, Knows, RowTells
  <1>13. ASSUME NEW a \in Approvals, NEW t \in Txns, ConsumeApproval(a, t) PROVE Stage'
    BY <1>13, <1>s DEF ConsumeApproval, Stage, Knows, RowTells
  <1>14. CASE UNCHANGED vars
    BY <1>14, <1>s DEF vars, Stage, Knows, RowTells
  <1>15. QED
    BY <1>1, <1>2, <1>3, <1>4, <1>5, <1>6, <1>7, <1>8, <1>9, <1>10, <1>11, <1>12, <1>13, <1>14
    DEF Next

LEMMA IInvPreserved == Exclusive /\ IInv /\ [Next]_vars => IInv'
  BY TypePreserved, JournalledPreserved, AlonePreserved, StagePreserved DEF IInv

(* What the journal calls observed is there, executed once, when recoveries *)
(* exclude each other.                                                      *)
THEOREM ObservedThere == Exclusive => (Spec => []ObservedIsThere)
  <1>1. IInv => ObservedIsThere
    <2> SUFFICES ASSUME IInv, NEW t \in Txns, phase[t] = "OBSERVED_APPLIED"
                 PROVE  world[t] = Requested /\ post[t] = Requested /\ applied[t] = 1
      BY DEF ObservedIsThere
    <2>1. RowTells(t)
      BY DEF IInv, Stage
    <2>2. QED
      BY <2>1 DEF RowTells, Requested, Absent
  <1>2. SUFFICES ASSUME Exclusive PROVE Spec => []ObservedIsThere
    OBVIOUS
  <1>3. QED
    BY <1>1, <1>2, IInvInitial, IInvPreserved, PTL DEF Spec

-----------------------------------------------------------------------------
(* The refinement.                                                          *)

LEMMA OnceInitial == Init => Once!Init
  BY DEF Init, Once!Init, Status, Settled, NoRow

\* A record moves one intent on: it stays open, or it is settled.
LEMMA RecordIsOnceStep ==
  ASSUME IInv, NEW t \in Txns, NEW to, NEW digest, RecordObservation(t, to, digest),
         UNCHANGED applied
  PROVE  Once!Next \/ UNCHANGED Once!vars
  <1>1. to \in Phases /\ phase[t] \in Phases
    BY DEF IInv, TypeOK, RecordObservation, MayRecord, AllowedPhaseTransitions, Phases, NoRow, Settled
  <1>2. phase[t] \notin Settled
    BY DEF IInv, TypeOK, RecordObservation, MayRecord, AllowedPhaseTransitions, Phases, NoRow, Settled
  <1>3. phase[t] # NoRow /\ to # NoRow /\ phase' = [phase EXCEPT ![t] = to]
    BY <1>1 DEF RecordObservation, Phases, NoRow
  <1>4. CASE to \in Settled
    <2>1. Once!Settle(t)
      BY <1>2, <1>3, <1>4 DEF Once!Settle, Status, IInv, TypeOK
    <2>2. QED
      BY <2>1 DEF Once!Next
  <1>5. CASE to \notin Settled
    <2>1. Status' = Status
      BY <1>2, <1>3, <1>5 DEF Status, IInv, TypeOK
    <2>2. QED
      BY <2>1 DEF Once!vars
  <1>6. QED
    BY <1>4, <1>5

LEMMA StepIsOnceStep == Exclusive /\ IInv /\ [Next]_vars => [Once!Next]_Once!vars
  <1> SUFFICES ASSUME Exclusive, IInv, [Next]_vars PROVE Once!Next \/ UNCHANGED Once!vars
    OBVIOUS
  <1>1. CASE UNCHANGED <<phase, applied>>
    BY <1>1 DEF Once!vars, Status
  <1>2. ASSUME NEW w \in Workers, NEW t \in Txns, PrepareTxn(w, t)
        PROVE  Once!Next
    <2>1. Once!Intend(t)
      BY <1>2 DEF PrepareTxn, outside, Once!Intend, Status, Settled, NoRow, IInv, TypeOK
    <2>2. QED
      BY <2>1 DEF Once!Next
  <1>3. ASSUME NEW w \in Workers, ExecuteEffect(w)
        PROVE  Once!Next
    <2>1. phase[txn[w]] \in {"PREPARED", "APPLYING"} /\ applied[txn[w]] = 0 /\ txn[w] \in Txns
      BY <1>3 DEF ExecuteEffect, IInv, Stage, Knows, RowTells, TypeOK
    <2>2. Once!Execute(txn[w])
      BY <1>3, <2>1 DEF ExecuteEffect, Once!Execute, Status, Settled, NoRow, IInv, TypeOK
    <2>3. QED
      BY <2>1, <2>2 DEF Once!Next
  <1>4. ASSUME NEW t \in Txns, NEW to, NEW digest, RecordObservation(t, to, digest),
               UNCHANGED applied
        PROVE  Once!Next \/ UNCHANGED Once!vars
    BY <1>4, RecordIsOnceStep
  <1>5. \A w \in Workers : txn[w] \in Txns
    BY DEF IInv, TypeOK
  <1>6. QED
    BY <1>1, <1>2, <1>3, <1>4, <1>5
    DEF Next, vars, outside, Probe, MarkApplying, Abort, Observe, CommitTxn, Crash, ReconcileTxn,
        CommitObserved, Resolve, Revoke, ConsumeApproval

(* Under exclusive recoveries the journal implements EffectOnce: an effect  *)
(* happens under an open intent and at most once, over every crash.         *)
THEOREM JournalImplementsOnce == Exclusive => (Spec => ImplementsOnce)
  <1>1. SUFFICES ASSUME Exclusive PROVE Spec => ImplementsOnce
    OBVIOUS
  <1>2. QED
    BY <1>1, IInvInitial, IInvPreserved, OnceInitial, StepIsOnceStep, PTL
    DEF Spec, ImplementsOnce, Once!Spec
=============================================================================
