--------------------------- MODULE RunStoreProofs ---------------------------
(***************************************************************************)
(* Proofs about RunStore, for any number of processes and runs.  The       *)
(* argument: a process is between BEGIN IMMEDIATE and COMMIT exactly when  *)
(* it holds the write lock (Locked), so what the holder has written so far *)
(* is a function of the committed database and of where it stands          *)
(* (Shape), and its COMMIT is one step of the ledger.                      *)
(***************************************************************************)
EXTENDS RunStore, TLAPS

PcLabels == InTx \union {"idle", "open", "select", "sequence", "begin", "report"}

\* What a command asks for is well typed.
LEMMA CallsTyped ==
  ASSUME TypeOK, NEW c \in Clients, NEW op \in Ops, NEW r \in Runs, calls[c] < MaxCalls
  PROVE  CallsFor(c, op, r) \subseteq Calls
<1> USE ClientsAssumption
<1>1. Ledger!AllEventIds \subseteq Ids
  <2> SUFFICES ASSUME NEW q \in Runs, NEW i \in DOMAIN db[q].events
               PROVE  db[q].events[i].id \in Ids
    BY DEF Ledger!AllEventIds, Ledger!EventIds
  <2>1. db[q].events \in Seq(Events)  BY DEF TypeOK, Rows
  <2>2. db[q].events[i] \in Events  BY <2>1
  <2> QED  BY <2>2 DEF Events
<1>2. "interrupt" \in Commands /\ "INTERRUPTED" \in States
  <2>1. <<"interrupt", "INTERRUPTED">> \in ExceptionalTransitions
    BY DEF ExceptionalTransitions
  <2> QED  BY <2>1 DEF Commands, States, RecoverableSourceStates
<1>3. /\ calls[c] \in 0..MaxCalls
      /\ FreshId(c) \in Ids
      /\ \A n \in 1..(calls[c] + 1) : <<c, n>> \in Ids
  BY DEF TypeOK, FreshId, Ids
<1>4. CASE op = "advance"
  BY <1>1, <1>3, <1>4 DEF CallsFor, Calls, AllOps, NoCause
<1>5. CASE op # "advance"
  BY <1>2, <1>3, <1>5 DEF CallsFor, Calls
<1> QED  BY <1>4, <1>5

LEMMA CodesTyped ==
  /\ \A c : FailureCode(c) \in Codes
  /\ \A op : SuccessCode(op) \in Codes
  /\ \A op \in AllOps, s \in States \union {NoRow} : ReadAnswers(op, s) \subseteq Codes
BY DEF FailureCode, SuccessCode, Codes

LEMMA TargetTyped ==
  ASSUME NEW k \in Calls  PROVE TargetState(k) \in States
BY DEF TargetState, Calls, States, TerminalStates, RecoverableSourceStates

\* A process that ends leaves only its label and its code behind.
LEMMA FinishTyped ==
  ASSUME TypeOK, NEW c \in Clients, NEW code \in Codes, Finish(c, code)
  PROVE  pc' \in [Clients -> PcLabels] /\ result' \in [Clients -> Codes]
BY DEF TypeOK, Finish, GoTo, PcLabels

LEMMA AbsentTyped == Ledger!Absent \in Rows
BY DEF Ledger!Absent, Rows, NoRow

\* In a gapless journal MAX(sequence) is its length.
LEMMA LastOfGapless ==
  ASSUME NEW events \in Seq(Events), \A i \in DOMAIN events : events[i].sequence = i
  PROVE  LastSequence(events) = Len(events)
<1>1. CASE events = <<>>
  BY <1>1 DEF LastSequence
<1>2. CASE events # <<>>
  <2> DEFINE sequences == { events[i].sequence : i \in DOMAIN events }
  <2>1. /\ Len(events) \in Nat \ {0} /\ DOMAIN events = 1..Len(events)
        /\ \A i \in 1..Len(events) : events[i].sequence = i
    BY <1>2
  <2>2. sequences = 1..Len(events)
    BY <2>1
  <2>3. \A n \in sequences : n <= Len(events)
    BY <2>1, <2>2
  <2>4. Len(events) \in sequences
    BY <2>1, <2>2
  <2>5. \A m \in sequences : (\A n \in sequences : n <= m) => m = Len(events)
    <3> SUFFICES ASSUME NEW m \in sequences, \A n \in sequences : n <= m
                 PROVE  m = Len(events)
      OBVIOUS
    <3>1. m \in 1..Len(events) /\ Len(events) \in Nat
      BY <2>1, <2>2
    <3>2. Len(events) <= m
      BY <2>4
    <3> QED  BY <3>1, <3>2
  <2>6. LastSequence(events) = CHOOSE m \in sequences : \A n \in sequences : n <= m
    BY <1>2 DEF LastSequence
  <2> HIDE DEF sequences
  <2> QED  BY <2>3, <2>4, <2>5, <2>6
<1> QED  BY <1>1, <1>2

-----------------------------------------------------------------------------
(* The inductive invariant.                                                 *)

\* Inside its transaction a process holds the write lock, and only then.
Locked == \A c \in Clients : pc[c] \in InTx <=> writer = c

\* What the commands under way know: the run a "run" is creating is its own and
\* is not in the database yet, the run any other command has read stays there.
Claims ==
  \A c \in Clients :
    /\ call[c].op = "run" /\ pc[c] # "idle" =>
         /\ pc[c] # "report" => db[call[c].run] = Ledger!Absent
         /\ \A d \in Clients \ {c} :
              ~ (call[d].op = "run" /\ pc[d] # "idle" /\ call[d].run = call[c].run)
    /\ call[c].op # "run" /\ pc[c] \in {"sequence", "begin"} \union InTx =>
         db[call[c].run].state # NoRow
    /\ pc[c] = "select" => call[c].op # "run"
    /\ pc[c] \in {"sequence", "journal"} => call[c].op \in Journalled
    /\ pc[c] = "goals" => call[c].op = "run"
    /\ call[c].op = "cancel" => call[c].cause = NoCause
    /\ pc[c] \in {"begin"} \union InTx => call[c].op \in {"run", "reject"} \union Journalled

\* The row the transaction of c leaves in its run once its UPDATE is done ...
Moved(c) ==
  [db[call[c].run] EXCEPT !.state = TargetState(call[c]), !.version = @ + 1]

\* ... and the event that fits behind it.
NewEvent(c) ==
  [id |-> call[c].id, sequence |-> Len(db[call[c].run].events) + 1, cause |-> call[c].cause]

Allowed(c) ==
  call[c].op = "advance" =>
    /\ seen[c] = [state |-> db[call[c].run].state, version |-> db[call[c].run].version]
    /\ IsValidTransition(db[call[c].run].state, call[c].command, call[c].to)

Fresh(c) ==
  /\ \A r \in Runs : call[c].id \notin EventIds(db[r].events)
  /\ call[c].cause \in EventIds(db[call[c].run].events) \union {NoCause}

\* What the holder of the lock has written, by where it stands.
ImageAt(c) ==
  /\ pc[c] = "goals" => tx = db[call[c].run]
  /\ pc[c] = "mutate" =>
       tx = IF call[c].op = "run" THEN [Ledger!Absent EXCEPT !.goal = TRUE]
            ELSE db[call[c].run]
  /\ pc[c] = "journal" => tx = Moved(c) /\ Allowed(c)
  /\ pc[c] = "commit" =>
       /\ call[c].op = "run" => tx = Ledger!Created
       /\ call[c].op = "reject" => tx = Moved(c)
       /\ call[c].op \in Journalled =>
            /\ tx = [Moved(c) EXCEPT !.events = Append(@, NewEvent(c))]
            /\ Allowed(c) /\ Fresh(c)

Shape == \A c \in Clients : ImageAt(c)

IInv == TypeOK /\ Locked /\ Claims /\ Shape /\ Gapless

-----------------------------------------------------------------------------

LEMMA Initially == Init => IInv
<1> SUFFICES ASSUME Init PROVE IInv
  OBVIOUS
<1> USE ClientsAssumption
<1>1. NoCall \in Calls
  <2>1. "interrupt" \in Commands /\ "INTERRUPTED" \in States
    <3>1. <<"interrupt", "INTERRUPTED">> \in ExceptionalTransitions
      BY DEF ExceptionalTransitions
    <3> QED  BY <3>1 DEF Commands, States, RecoverableSourceStates
  <2>2. (CHOOSE r \in Runs : TRUE) \in Runs /\ (CHOOSE c \in Clients : TRUE) \in Clients
    OBVIOUS
  <2>3. <<CHOOSE c \in Clients : TRUE, 1>> \in Ids
    BY <2>2 DEF Ids
  <2> QED  BY <2>1, <2>2, <2>3 DEF NoCall, Calls, AllOps
<1>2. TypeOK
  BY <1>1, AbsentTyped DEF Init, TypeOK, NoImage, Codes
<1>3. Locked
  BY DEF Init, Locked, InTx
<1>4. Claims /\ Shape
  BY DEF Init, Claims, Shape, ImageAt, InTx, NoCall
<1>5. Gapless
  BY DEF Init, Gapless, Ledger!Absent
<1> QED  BY <1>2, <1>3, <1>4, <1>5 DEF IInv

\* MAX(sequence) is read from a gapless journal.
LEMMA SequencesTyped ==
  ASSUME TypeOK, Gapless, NEW r \in Runs
  PROVE  LastSequence(db[r].events) = Len(db[r].events) /\ Len(db[r].events) \in Nat
<1>1. db[r].events \in Seq(Events)
  BY DEF TypeOK, Rows
<1>2. \A i \in DOMAIN db[r].events : db[r].events[i].sequence = i
  BY DEF Gapless
<1> QED  BY <1>1, <1>2, LastOfGapless

LEMMA RollbackTyped ==
  ASSUME TypeOK, NEW c \in Clients, NEW code \in Codes, Rollback(c, code)
  PROVE  TypeOK'
BY FinishTyped, AbsentTyped DEF Rollback, EndTx, NoImage, TypeOK, PcLabels

LEMMA TypeStep == IInv /\ [Next]_vars => TypeOK'
<1> SUFFICES ASSUME IInv, [Next]_vars PROVE TypeOK'
  OBVIOUS
<1> USE DEF IInv
<1>1. CASE UNCHANGED vars
  BY <1>1 DEF vars, TypeOK
<1>2. ASSUME NEW c \in Clients, NEW op \in Ops, NEW r \in Runs, Invoke(c, op, r)
      PROVE  TypeOK'
  <2>1. CallsFor(c, op, r) \subseteq Calls
    BY <1>2, CallsTyped DEF Invoke
  <2>2. call' \in [Clients -> Calls]
    BY <1>2, <2>1 DEF Invoke, TypeOK
  <2>3. calls' \in [Clients -> 0..MaxCalls]
    BY <1>2, ClientsAssumption DEF Invoke, TypeOK
  <2> QED  BY <1>2, <2>2, <2>3 DEF Invoke, TypeOK, GoTo, Codes
<1>3. ASSUME NEW c \in Clients, Open(c)  PROVE TypeOK'
  BY <1>3 DEF Open, GoTo, TypeOK
<1>4. ASSUME NEW c \in Clients, Busy(c)  PROVE TypeOK'
  BY <1>4, CodesTyped, FinishTyped DEF Busy, TypeOK, PcLabels
<1>5. ASSUME NEW c \in Clients, GetRun(c)  PROVE TypeOK'
  <2> DEFINE row == db[call[c].run]
  <2>1. row \in Rows /\ call[c].op \in AllOps
    BY DEF TypeOK, Calls
  <2>2. ReadAnswers(call[c].op, row.state) \subseteq Codes
    BY <2>1, CodesTyped DEF Rows
  <2>3. seen' \in [Clients -> [state : States \union {NoRow}, version : Nat]]
    BY <1>5, <2>1 DEF GetRun, TypeOK, Rows
  <2>4. /\ pc' \in [Clients -> PcLabels] /\ result' \in [Clients -> Codes]
    BY <1>5, <2>2, FinishTyped DEF GetRun, GoTo, TypeOK, PcLabels
  <2> QED  BY <1>5, <2>3, <2>4 DEF GetRun, TypeOK, PcLabels
<1>6. ASSUME NEW c \in Clients, ReadSequence(c)  PROVE TypeOK'
  <2>1. call[c].run \in Runs
    BY DEF TypeOK, Calls
  <2>2. LastSequence(db[call[c].run].events) + 1 \in Nat
    BY <2>1, SequencesTyped
  <2> QED  BY <1>6, <2>2 DEF ReadSequence, GoTo, TypeOK
<1>7. ASSUME NEW c \in Clients, BeginImmediate(c)  PROVE TypeOK'
  <2>1. call[c].run \in Runs
    BY DEF TypeOK, Calls
  <2> QED  BY <1>7, <2>1 DEF BeginImmediate, GoTo, TypeOK, InTx
<1>8. ASSUME NEW c \in Clients, InsertGoal(c) \/ InsertRun(c)  PROVE TypeOK'
  <2>1. "CREATED" \in States
    BY DEF States, ForwardStates
  <2>2. tx \in Rows
    BY DEF TypeOK
  <2>3. CASE InsertGoal(c)
    <3>1. tx' = [tx EXCEPT !.goal = TRUE]
      BY <2>3 DEF InsertGoal
    <3>2. tx' \in Rows
      BY <2>2, <3>1 DEF Rows
    <3> QED  BY <2>3, <3>2 DEF InsertGoal, GoTo, TypeOK, InTx
  <2>4. CASE InsertRun(c)
    <3>1. tx' = [tx EXCEPT !.state = "CREATED", !.version = 0]
      BY <2>4 DEF InsertRun
    <3>2. tx' \in Rows
      BY <2>1, <2>2, <3>1 DEF Rows
    <3> QED  BY <2>4, <3>2 DEF InsertRun, GoTo, TypeOK, InTx
  <2> QED  BY <1>8, <2>3, <2>4
<1>9. ASSUME NEW c \in Clients, UpdateRun(c)  PROVE TypeOK'
  <2>1. TargetState(call[c]) \in States
    BY TargetTyped DEF TypeOK
  <2>2. tx \in Rows /\ tx.version + 1 \in Nat
    BY DEF TypeOK, Rows
  <2>3. tx' = [tx EXCEPT !.state = TargetState(call[c]), !.version = tx.version + 1]
    BY <1>9 DEF UpdateRun
  <2>4. tx' \in Rows
    BY <2>1, <2>2, <2>3 DEF Rows
  <2> QED  BY <1>9, <2>4 DEF UpdateRun, GoTo, TypeOK, InTx
<1>10. ASSUME NEW c \in Clients, RefuseUpdate(c)  PROVE TypeOK'
  <2>1. "REFUSED" \in Codes
    BY DEF Codes
  <2> QED  BY <1>10, <2>1, RollbackTyped DEF RefuseUpdate
<1>11. ASSUME NEW c \in Clients, InsertEvent(c)  PROVE TypeOK'
  <2> DEFINE event == [id |-> call[c].id, sequence |-> sequence[c], cause |-> call[c].cause]
  <2>1. pc[c] = "journal" /\ call[c].run \in Runs /\ call[c] \in Calls /\ tx \in Rows
    BY <1>11 DEF InsertEvent, TypeOK, Calls
  <2>2. tx.events = db[call[c].run].events
    BY <2>1 DEF Shape, ImageAt, Moved, TypeOK, Rows
  <2>3. sequence[c] \in Nat \ {0}
    BY <1>11, <2>1, <2>2, SequencesTyped DEF InsertEvent, EventFits
  <2>4. event \in Events
    BY <2>1, <2>3 DEF Calls, Events
  <2>5. tx.events \in Seq(Events)
    BY <2>1 DEF Rows
  <2> HIDE DEF event
  <2>6. Append(tx.events, event) \in Seq(Events)
    BY <2>4, <2>5
  <2>7. tx' = [tx EXCEPT !.events = Append(tx.events, event)]
    BY <1>11 DEF InsertEvent, event
  <2>8. tx' \in Rows
    BY <2>1, <2>6, <2>7 DEF Rows
  <2> QED  BY <1>11, <2>8 DEF InsertEvent, GoTo, TypeOK, InTx
<1>12. ASSUME NEW c \in Clients, RefuseEvent(c) \/ StatementFails(c)  PROVE TypeOK'
  BY <1>12, CodesTyped, RollbackTyped DEF RefuseEvent, StatementFails
<1>13. ASSUME NEW c \in Clients, Commit(c)  PROVE TypeOK'
  BY <1>13, AbsentTyped DEF Commit, EndTx, NoImage, GoTo, TypeOK
<1>14. ASSUME NEW c \in Clients, Report(c)  PROVE TypeOK'
  BY <1>14, CodesTyped, FinishTyped DEF Report, TypeOK, PcLabels
<1>15. ASSUME NEW c \in Clients, Crash(c)  PROVE TypeOK'
  <2>1. "CRASHED" \in Codes
    BY DEF Codes
  <2>2. pc' \in [Clients -> PcLabels] /\ result' \in [Clients -> Codes]
    BY <1>15, <2>1, FinishTyped DEF Crash
  <2> QED  BY <1>15, <2>2, AbsentTyped DEF Crash, EndTx, NoImage, TypeOK, PcLabels
<1> QED
  BY <1>1, <1>2, <1>3, <1>4, <1>5, <1>6, <1>7, <1>8, <1>9, <1>10, <1>11, <1>12, <1>13,
     <1>14, <1>15 DEF Next, Step

-----------------------------------------------------------------------------
(* The lock and the claims.                                                 *)

LEMMA LockedStep == IInv /\ [Next]_vars => Locked'
<1> SUFFICES ASSUME IInv, [Next]_vars PROVE Locked'
  OBVIOUS
<1> USE ClientsAssumption DEF IInv, Locked, TypeOK, GoTo, InTx
<1>1. CASE UNCHANGED vars
  BY <1>1 DEF vars
<1>2. ASSUME NEW c \in Clients, NEW op \in Ops, NEW r \in Runs, Invoke(c, op, r)
      PROVE  Locked'
  BY <1>2 DEF Invoke
<1>3. ASSUME NEW c \in Clients, Open(c) \/ ReadSequence(c)  PROVE Locked'
  BY <1>3 DEF Open, ReadSequence
<1>4. ASSUME NEW c \in Clients, Busy(c) \/ Report(c)  PROVE Locked'
  BY <1>4 DEF Busy, Report, Finish
<1>5. ASSUME NEW c \in Clients, GetRun(c)  PROVE Locked'
  BY <1>5 DEF GetRun, Finish
<1>6. ASSUME NEW c \in Clients, BeginImmediate(c)  PROVE Locked'
  BY <1>6 DEF BeginImmediate
<1>7. ASSUME NEW c \in Clients, InsertGoal(c) \/ InsertRun(c) \/ UpdateRun(c) \/ InsertEvent(c)
      PROVE  Locked'
  BY <1>7 DEF InsertGoal, InsertRun, UpdateRun, InsertEvent
<1>8. ASSUME NEW c \in Clients, RefuseUpdate(c) \/ RefuseEvent(c) \/ StatementFails(c)
      PROVE  Locked'
  BY <1>8 DEF RefuseUpdate, RefuseEvent, StatementFails, Rollback, EndTx, Finish
<1>9. ASSUME NEW c \in Clients, Commit(c)  PROVE Locked'
  BY <1>9 DEF Commit, EndTx
<1>10. ASSUME NEW c \in Clients, Crash(c)  PROVE Locked'
  BY <1>10 DEF Crash, EndTx, Finish
<1> QED
  BY <1>1, <1>2, <1>3, <1>4, <1>5, <1>6, <1>7, <1>8, <1>9, <1>10 DEF Next, Step

\* A committed run is there for good.
LEMMA CommittedRow ==
  ASSUME IInv, NEW c \in Clients, Commit(c)
  PROVE  /\ tx.state # NoRow
         /\ \A r \in Runs : db[r].state # NoRow => db'[r].state # NoRow
         /\ \A r \in Runs \ {call[c].run} : db'[r] = db[r]
         /\ call[c].op # "run" => db[call[c].run].state # NoRow
<1> USE DEF IInv
<1>1. pc[c] = "commit" /\ call[c] \in Calls /\ call[c].run \in Runs
  BY DEF Commit, TypeOK, Calls
<1>2. TargetState(call[c]) \in States /\ NoRow \notin States
  BY <1>1, TargetTyped
     DEF NoRow, Ledger!NoRow, States, ForwardStates, TerminalStates, RecoverableSourceStates
<1>3. call[c].op \in {"run", "reject"} \union Journalled
  BY <1>1 DEF Claims, InTx
<1>4. db[call[c].run] \in Rows /\ db \in [Runs -> Rows]
  BY <1>1 DEF TypeOK
<1>5. Moved(c).state = TargetState(call[c])
  BY <1>4 DEF Moved, Rows
<1>6. tx.state # NoRow
  <2>1. CASE call[c].op = "run"
    <3>1. tx = Ledger!Created
      BY <1>1, <2>1 DEF Shape, ImageAt
    <3> QED  BY <3>1 DEF Ledger!Created, NoRow, Ledger!NoRow
  <2>2. CASE call[c].op = "reject"
    BY <1>1, <1>2, <1>5, <2>2 DEF Shape, ImageAt
  <2>3. CASE call[c].op \in Journalled
    <3>1. tx = [Moved(c) EXCEPT !.events = Append(@, NewEvent(c))]
      BY <1>1, <2>3 DEF Shape, ImageAt
    <3>2. tx.state = Moved(c).state
      BY <1>4, <3>1 DEF Moved, Rows
    <3> QED  BY <1>2, <1>5, <3>2
  <2> QED  BY <1>3, <2>1, <2>2, <2>3
<1>7. db' = [db EXCEPT ![call[c].run] = tx]
  BY DEF Commit
<1> QED  BY <1>1, <1>3, <1>4, <1>6, <1>7 DEF Claims, InTx

LEMMA ClaimsStep == IInv /\ [Next]_vars => Claims'
<1> SUFFICES ASSUME IInv, [Next]_vars PROVE Claims'
  OBVIOUS
<1> USE DEF IInv, TypeOK, GoTo, InTx
<1>1. CASE UNCHANGED vars
  BY <1>1 DEF vars, Claims
<1>2. ASSUME NEW c \in Clients, NEW op \in Ops, NEW r \in Runs, Invoke(c, op, r)
      PROVE  Claims'
  <2>1. PICK k \in CallsFor(c, op, r) : call' = [call EXCEPT ![c] = k]
    BY <1>2 DEF Invoke
  <2>2. k.op = op /\ k.run = r /\ (op = "cancel" => k.cause = NoCause)
    BY <2>1 DEF CallsFor
  <2>3. /\ pc' = [pc EXCEPT ![c] = "open"] /\ db' = db
        /\ call'[c] = k /\ \A d \in Clients \ {c} : call'[d] = call[d]
    BY <1>2, <2>1 DEF Invoke
  <2> QED  BY <1>2, <2>2, <2>3 DEF Claims, Invoke, FreshFor
<1>3. ASSUME NEW c \in Clients, Open(c)  PROVE Claims'
  BY <1>3 DEF Open, Claims
<1>4. ASSUME NEW c \in Clients, Busy(c) \/ Report(c)  PROVE Claims'
  BY <1>4 DEF Busy, Report, Finish, Claims
<1>5. ASSUME NEW c \in Clients, GetRun(c)  PROVE Claims'
  <2>1. CASE pc' = [pc EXCEPT ![c] = "idle"]
    BY <1>5, <2>1 DEF GetRun, Claims
  <2>2. CASE ReadAnswers(call[c].op, db[call[c].run].state) = {}
    <3>1. call[c].op \in AllOps
      BY DEF Calls
    <3>2. db[call[c].run].state # NoRow /\ call[c].op \in {"run", "reject"} \union Journalled
      BY <2>2, <3>1 DEF ReadAnswers, AllOps, Journalled
    <3>3. pc' = [pc EXCEPT ![c] = IF call[c].op \in Journalled THEN "sequence" ELSE "begin"]
      BY <1>5, <2>2 DEF GetRun
    <3>4. UNCHANGED <<db, call>> /\ call[c].op # "run"
      BY <1>5 DEF GetRun, Claims
    <3> QED  BY <3>2, <3>3, <3>4 DEF Claims
  <2> QED  BY <1>5, <2>1, <2>2 DEF GetRun, Finish
<1>6. ASSUME NEW c \in Clients, ReadSequence(c)  PROVE Claims'
  BY <1>6 DEF ReadSequence, Claims, Journalled
<1>7. ASSUME NEW c \in Clients, BeginImmediate(c)  PROVE Claims'
  BY <1>7 DEF BeginImmediate, Claims
<1>8. ASSUME NEW c \in Clients, InsertGoal(c) \/ InsertRun(c)  PROVE Claims'
  BY <1>8 DEF InsertGoal, InsertRun, Claims
<1>9. ASSUME NEW c \in Clients, UpdateRun(c)  PROVE Claims'
  BY <1>9 DEF UpdateRun, Claims
<1>10. ASSUME NEW c \in Clients, InsertEvent(c)  PROVE Claims'
  BY <1>10 DEF InsertEvent, Claims
<1>11. ASSUME NEW c \in Clients, RefuseUpdate(c) \/ RefuseEvent(c) \/ StatementFails(c)
       PROVE  Claims'
  BY <1>11 DEF RefuseUpdate, RefuseEvent, StatementFails, Rollback, Finish, Claims
<1>12. ASSUME NEW c \in Clients, Commit(c)  PROVE Claims'
  <2>1. pc[c] = "commit" /\ pc' = [pc EXCEPT ![c] = "report"] /\ call' = call
    BY <1>12 DEF Commit
  <2>2. /\ \A r \in Runs : db[r].state # NoRow => db'[r].state # NoRow
        /\ \A r \in Runs \ {call[c].run} : db'[r] = db[r]
        /\ call[c].op # "run" => db[call[c].run].state # NoRow
    BY <1>12, CommittedRow
  <2>3. \A d \in Clients : call[d].run \in Runs
    BY DEF Calls
  <2>4. ASSUME NEW d \in Clients \ {c}, call[d].op = "run", pc[d] # "idle", pc[d] # "report"
        PROVE  db'[call[d].run] = Ledger!Absent
    <3>1. db[call[d].run] = Ledger!Absent
      BY <2>4 DEF Claims
    <3>2. db[call[d].run].state = NoRow
      BY <3>1 DEF Ledger!Absent, NoRow
    <3>3. call[c].op = "run" => call[d].run # call[c].run
      BY <2>1, <2>4 DEF Claims
    <3>4. call[c].op # "run" => call[d].run # call[c].run
      BY <2>2, <3>2
    <3>5. call[d].run # call[c].run
      BY <3>3, <3>4
    <3> QED  BY <2>2, <2>3, <3>1, <3>5
  <2> QED  BY <2>1, <2>2, <2>3, <2>4 DEF Claims
<1>13. ASSUME NEW c \in Clients, Crash(c)  PROVE Claims'
  BY <1>13 DEF Crash, Finish, Claims
<1> QED
  BY <1>1, <1>2, <1>3, <1>4, <1>5, <1>6, <1>7, <1>8, <1>9, <1>10, <1>11, <1>12, <1>13
     DEF Next, Step

-----------------------------------------------------------------------------
(* The transaction's image.                                                 *)

\* Only the holder of the lock is inside a transaction.
LEMMA OthersOutside ==
  ASSUME IInv, NEW c \in Clients, pc[c] \in InTx \/ writer = NoClient,
         NEW d \in Clients \ {c}
  PROVE  pc[d] \notin InTx
BY ClientsAssumption DEF IInv, Locked

\* The image of a process that does not move, over a database that does not.
LEMMA ImageKept ==
  ASSUME NEW d \in Clients, ImageAt(d), UNCHANGED <<db, tx>>,
         pc'[d] = pc[d], call'[d] = call[d], seen'[d] = seen[d]
  PROVE  ImageAt(d)'
<1>1. /\ Moved(d)' = Moved(d) /\ NewEvent(d)' = NewEvent(d)
      /\ Allowed(d)' = Allowed(d) /\ Fresh(d)' = Fresh(d)
  BY DEF Moved, NewEvent, Allowed, Fresh, EventIds, Ledger!EventIds
<1> QED  BY <1>1 DEF ImageAt

\* A process outside its transaction has no image to account for.
LEMMA NoImageOutside ==
  ASSUME NEW d \in Clients, pc'[d] \notin InTx  PROVE ImageAt(d)'
BY DEF ImageAt, InTx

LEMMA ShapeStep == IInv /\ [Next]_vars => Shape'
<1> SUFFICES ASSUME IInv, [Next]_vars PROVE Shape'
  OBVIOUS
<1> USE DEF IInv, TypeOK
<1>1. CASE UNCHANGED vars
  BY <1>1, ImageKept DEF vars, Shape
<1>2. ASSUME NEW c \in Clients, NEW op \in Ops, NEW r \in Runs, Invoke(c, op, r)
      PROVE  Shape'
  <2>1. PICK k \in CallsFor(c, op, r) : call' = [call EXCEPT ![c] = k]
    BY <1>2 DEF Invoke
  <2>2. /\ pc' = [pc EXCEPT ![c] = "open"] /\ UNCHANGED <<db, tx>>
        /\ \A d \in Clients \ {c} : call'[d] = call[d] /\ seen'[d] = seen[d]
    BY <1>2, <2>1 DEF Invoke, GoTo
  <2>3. \A d \in Clients \ {c} : ImageAt(d)'
    BY <2>2, ImageKept DEF Shape
  <2>4. ImageAt(c)'
    BY <2>2, NoImageOutside DEF InTx
  <2> QED  BY <2>3, <2>4 DEF Shape
<1>3. ASSUME NEW c \in Clients,
             Open(c) \/ Busy(c) \/ GetRun(c) \/ ReadSequence(c) \/ Report(c)
      PROVE  Shape'
  <2>1. /\ UNCHANGED <<db, tx, call>>
        /\ pc' = [pc EXCEPT ![c] = pc'[c]] /\ pc'[c] \notin InTx
        /\ seen' = [seen EXCEPT ![c] = seen'[c]]
    BY <1>3 DEF Open, Busy, GetRun, ReadSequence, Report, Finish, GoTo, InTx
  <2>2. \A d \in Clients \ {c} : ImageAt(d)'
    BY <2>1, ImageKept DEF Shape
  <2> QED  BY <2>1, <2>2, NoImageOutside DEF Shape
<1>4. ASSUME NEW c \in Clients,
             \/ RefuseUpdate(c) \/ RefuseEvent(c) \/ StatementFails(c)
             \/ Commit(c) \/ Crash(c)
      PROVE  Shape'
  <2>1. /\ UNCHANGED <<db, tx>> \/ pc[c] \in InTx
        /\ UNCHANGED <<call, seen>>
        /\ pc' = [pc EXCEPT ![c] = pc'[c]] /\ pc'[c] \notin InTx
    BY <1>4 DEF RefuseUpdate, RefuseEvent, StatementFails, Rollback, Commit, Crash, Finish,
                GoTo, InTx, Locked
  <2>2. ASSUME NEW d \in Clients \ {c}  PROVE ImageAt(d)'
    <3>1. CASE UNCHANGED <<db, tx>>
      BY <2>1, <3>1, ImageKept DEF Shape
    <3>2. CASE pc[c] \in InTx
      BY <2>1, <3>2, OthersOutside, NoImageOutside
    <3> QED  BY <2>1, <3>1, <3>2
  <2> QED  BY <2>1, <2>2, NoImageOutside DEF Shape
<1>5. ASSUME NEW c \in Clients, BeginImmediate(c)  PROVE Shape'
  <2>1. \A d \in Clients \ {c} : pc'[d] \notin InTx
    BY <1>5, OthersOutside DEF BeginImmediate, GoTo
  <2>2. /\ tx' = db'[call'[c].run]
        /\ pc'[c] = "goals" \/ (pc'[c] = "mutate" /\ call'[c].op # "run")
    BY <1>5 DEF BeginImmediate, GoTo
  <2> QED  BY <2>1, <2>2 DEF Shape, ImageAt, InTx
<1>6. ASSUME NEW c \in Clients, InsertGoal(c)  PROVE Shape'
  <2>1. \A d \in Clients \ {c} : pc'[d] \notin InTx
    BY <1>6, OthersOutside DEF InsertGoal, GoTo, InTx
  <2>2. call[c].op = "run" /\ tx = Ledger!Absent
    BY <1>6 DEF InsertGoal, Shape, ImageAt, Claims
  <2>3. pc'[c] = "mutate" /\ call' = call /\ tx' = [Ledger!Absent EXCEPT !.goal = TRUE]
    BY <1>6, <2>2 DEF InsertGoal, GoTo
  <2> QED  BY <2>1, <2>2, <2>3 DEF Shape, ImageAt, InTx
<1>7. ASSUME NEW c \in Clients, InsertRun(c)  PROVE Shape'
  <2>1. \A d \in Clients \ {c} : pc'[d] \notin InTx
    BY <1>7, OthersOutside DEF InsertRun, GoTo, InTx
  <2>2. call[c].op = "run" /\ tx = [Ledger!Absent EXCEPT !.goal = TRUE]
    BY <1>7 DEF InsertRun, Shape, ImageAt
  <2>3. pc'[c] = "commit" /\ call' = call /\ tx' = Ledger!Created
    BY <1>7, <2>2 DEF InsertRun, GoTo, Ledger!Absent, Ledger!Created
  <2> QED  BY <2>1, <2>2, <2>3 DEF Shape, ImageAt, InTx, Journalled
<1>8. ASSUME NEW c \in Clients, UpdateRun(c)  PROVE Shape'
  <2>1. \A d \in Clients \ {c} : pc'[d] \notin InTx
    BY <1>8, OthersOutside DEF UpdateRun, GoTo, InTx
  <2>2. /\ call[c].op # "run" /\ call[c].op \in {"run", "reject"} \union Journalled
        /\ tx = db[call[c].run] /\ db' = db /\ call' = call /\ seen' = seen
    BY <1>8 DEF UpdateRun, Shape, ImageAt, Claims, InTx
  <2>3. tx' = Moved(c)
    BY <1>8, <2>2 DEF UpdateRun, Moved
  <2>4. Moved(c)' = Moved(c) /\ Allowed(c)' = Allowed(c)
    BY <2>2 DEF Moved, Allowed
  <2>5. Allowed(c)
    <3> SUFFICES ASSUME call[c].op = "advance"
                 PROVE  /\ seen[c].state = tx.state /\ seen[c].version = tx.version
                        /\ IsValidTransition(tx.state, call[c].command, call[c].to)
      BY <2>2 DEF Allowed
    <3> QED  BY <1>8 DEF UpdateRun, Authorized, AuthorizeTransition
  <2>6. pc'[c] = IF call[c].op \in Journalled THEN "journal" ELSE "commit"
    BY <1>8 DEF UpdateRun, GoTo
  <2> QED  BY <2>1, <2>2, <2>3, <2>4, <2>5, <2>6 DEF Shape, ImageAt, InTx, Journalled
<1>9. ASSUME NEW c \in Clients, InsertEvent(c)  PROVE Shape'
  <2>1. \A d \in Clients \ {c} : pc'[d] \notin InTx
    BY <1>9, OthersOutside DEF InsertEvent, GoTo, InTx
  <2>2. /\ call[c].op \in Journalled /\ tx = Moved(c) /\ Allowed(c)
        /\ db' = db /\ call' = call /\ seen' = seen /\ pc'[c] = "commit"
    BY <1>9 DEF InsertEvent, Shape, ImageAt, Claims, GoTo
  <2>3. call[c].run \in Runs /\ db[call[c].run] \in Rows
    BY DEF Calls
  <2>4. tx.events = db[call[c].run].events
    BY <2>2, <2>3 DEF Moved, Rows
  <2>5. sequence[c] = Len(db[call[c].run].events) + 1
    BY <1>9, <2>3, <2>4, SequencesTyped DEF InsertEvent, EventFits
  <2>6. tx' = [Moved(c) EXCEPT !.events = Append(@, NewEvent(c))]
    BY <1>9, <2>2, <2>5 DEF InsertEvent, NewEvent
  <2>7. Fresh(c)
    BY <1>9, <2>4 DEF InsertEvent, EventFits, Fresh
  <2>8. /\ Moved(c)' = Moved(c) /\ NewEvent(c)' = NewEvent(c)
        /\ Allowed(c)' = Allowed(c) /\ Fresh(c)' = Fresh(c)
    BY <2>2 DEF Moved, NewEvent, Allowed, Fresh, EventIds, Ledger!EventIds
  <2> QED  BY <2>1, <2>2, <2>6, <2>7, <2>8 DEF Shape, ImageAt, InTx, Journalled
<1> QED
  BY <1>1, <1>2, <1>3, <1>4, <1>5, <1>6, <1>7, <1>8, <1>9 DEF Next, Step

-----------------------------------------------------------------------------
(* COMMIT is one step of the ledger.                                        *)

LEMMA SuccessorOf ==
  ASSUME NEW from \in States, NEW command \in Commands, NEW to \in States,
         IsValidTransition(from, command, to)
  PROVE  to \in Successors[from]
BY DEF Successors

\* The ledger's state machine is this one.
LEMMA SameStateMachine == Ledger!Successors = Successors
BY DEF Successors, Ledger!Successors, States, Ledger!States, ForwardStates,
       Ledger!ForwardStates, TerminalStates, Ledger!TerminalStates,
       RecoverableSourceStates, Ledger!RecoverableSourceStates, Commands,
       Ledger!Commands, ForwardTransitions, Ledger!ForwardTransitions,
       ExceptionalTransitions, Ledger!ExceptionalTransitions, IsValidTransition,
       Ledger!IsValidTransition

\* What a journalled command commits: one more event, with the next number.
LEMMA JournalledCommit ==
  ASSUME IInv, NEW c \in Clients, Commit(c), call[c].op \in Journalled
  PROVE  Ledger!Record(call[c].run, TargetState(call[c]), call[c].id, call[c].cause)
<1> USE DEF IInv
<1> DEFINE r == call[c].run
<1>1. pc[c] = "commit" /\ r \in Runs /\ db[r] \in Rows
  BY DEF Commit, TypeOK, Calls
<1>2. tx = [Moved(c) EXCEPT !.events = Append(@, NewEvent(c))] /\ Fresh(c)
  BY <1>1 DEF Shape, ImageAt
<1>3. tx = [goal |-> db[r].goal, state |-> TargetState(call[c]),
            version |-> db[r].version + 1, events |-> Append(db[r].events, NewEvent(c))]
  BY <1>1, <1>2 DEF Moved, Rows
<1>4. call[c].op # "run"
  BY DEF Journalled
<1>5. db[r].state # NoRow
  BY <1>4, CommittedRow
<1>6. call[c].id \notin Ledger!AllEventIds
  BY <1>2 DEF Fresh, EventIds, Ledger!AllEventIds
<1>7. db' = [db EXCEPT ![r] = tx]
  BY DEF Commit
<1> QED  BY <1>3, <1>5, <1>6, <1>7 DEF Ledger!Record, NewEvent, NoRow, Ledger!NoRow

LEMMA CommitIsLedgerStep ==
  ASSUME IInv, NEW c \in Clients, Commit(c)  PROVE Ledger!Next
<1> USE DEF IInv
<1> DEFINE r == call[c].run
<1>1. /\ pc[c] = "commit" /\ r \in Runs /\ db[r] \in Rows /\ call[c] \in Calls
      /\ db' = [db EXCEPT ![r] = tx]
  BY DEF Commit, TypeOK, Calls
<1>2. call[c].op \in {"run", "reject"} \union Journalled
  BY <1>1 DEF Claims, InTx
<1>3. CASE call[c].op = "run"
  <2>1. tx = Ledger!Created /\ db[r] = Ledger!Absent
    BY <1>1, <1>3 DEF Shape, ImageAt, Claims
  <2> QED  BY <1>1, <2>1 DEF Ledger!Next, Ledger!Create
<1>4. CASE call[c].op = "reject"
  <2>1. tx = [db[r] EXCEPT !.state = "REJECTED", !.version = @ + 1]
    BY <1>1, <1>4 DEF Shape, ImageAt, Moved, TargetState
  <2>2. db[r].state # NoRow
    BY <1>4, CommittedRow
  <2>3. db' = [db EXCEPT ![r].state = "REJECTED", ![r].version = @ + 1]
    BY <1>1, <2>1 DEF TypeOK, Rows
  <2> QED  BY <1>1, <2>2, <2>3 DEF Ledger!Next, Ledger!Reject, NoRow
<1>5. CASE call[c].op = "cancel"
  <2>1. Ledger!Record(r, "INTERRUPTED", call[c].id, NoCause)
    <3>1. TargetState(call[c]) = "INTERRUPTED" /\ call[c].cause = NoCause
      BY <1>5 DEF TargetState, Claims
    <3> QED  BY <1>5, <3>1, JournalledCommit DEF Journalled
  <2>2. call[c].id \in Ids
    BY <1>1 DEF Calls
  <2> QED  BY <1>1, <2>1, <2>2 DEF Ledger!Next, Ledger!Interrupt, NoCause
<1>6. CASE call[c].op = "advance"
  <2>1. Ledger!Record(r, call[c].to, call[c].id, call[c].cause)
    <3>1. TargetState(call[c]) = call[c].to
      BY <1>6 DEF TargetState
    <3> QED  BY <1>6, <3>1, JournalledCommit DEF Journalled
  <2>2. /\ Allowed(c) /\ Fresh(c) /\ db[r].state # NoRow
    BY <1>1, <1>6, CommittedRow DEF Shape, ImageAt, Journalled
  <2>3. call[c].to \in Successors[db[r].state]
    BY <1>1, <1>6, <2>2, SuccessorOf DEF Allowed, Rows, Calls
  <2>4. call[c].cause \in Ledger!EventIds(db[r].events) \union {Ledger!NoCause}
    BY <2>2 DEF Fresh, EventIds, NoCause
  <2>5. Ledger!Advance(r, call[c].id)
    <3>1. \E to \in Successors[db[r].state] :
            \E cause \in Ledger!EventIds(db[r].events) \union {Ledger!NoCause} :
              Ledger!Record(r, to, call[c].id, cause)
      BY <2>1, <2>3, <2>4, Zenon
    <3> QED  BY <2>2, <3>1, SameStateMachine DEF Ledger!Advance, NoRow
  <2>6. call[c].id \in Ids
    BY <1>1 DEF Calls
  <2> QED  BY <1>1, <2>5, <2>6 DEF Ledger!Next
<1> QED  BY <1>2, <1>3, <1>4, <1>5, <1>6 DEF Journalled

\* Every other step leaves the committed database alone.
LEMMA OnlyCommitWrites ==
  ASSUME [Next]_vars  PROVE UNCHANGED db \/ \E c \in Clients : Commit(c)
BY DEF Next, Step, vars, Invoke, Open, Busy, GetRun, ReadSequence, BeginImmediate,
       InsertGoal, InsertRun, UpdateRun, RefuseUpdate, InsertEvent, RefuseEvent, Report,
       StatementFails, Crash, Rollback

LEMMA GaplessStep == IInv /\ [Next]_vars => Gapless'
<1> SUFFICES ASSUME IInv, [Next]_vars PROVE Gapless'
  OBVIOUS
<1> USE DEF IInv
<1>1. CASE UNCHANGED db
  BY <1>1 DEF Gapless
<1>2. ASSUME NEW c \in Clients, Commit(c)  PROVE Gapless'
  <2> DEFINE r == call[c].run
  <2>1. /\ pc[c] = "commit" /\ r \in Runs /\ db[r] \in Rows
        /\ db' = [db EXCEPT ![r] = tx] /\ db \in [Runs -> Rows]
    BY <1>2 DEF Commit, TypeOK, Calls
  <2>2. call[c].op \in {"run", "reject"} \union Journalled
    BY <2>1 DEF Claims, InTx
  <2>3. \A i \in DOMAIN tx.events : tx.events[i].sequence = i
    <3>1. CASE call[c].op = "run"
      <4>1. tx.events = <<>>
        BY <2>1, <3>1 DEF Shape, ImageAt, Ledger!Created
      <4> QED  BY <4>1
    <3>2. CASE call[c].op = "reject"
      <4>1. tx.events = db[r].events
        BY <2>1, <3>2 DEF Shape, ImageAt, Moved, Rows
      <4> QED  BY <2>1, <4>1 DEF Gapless
    <3>3. CASE call[c].op \in Journalled
      <4>1. tx.events = Append(db[r].events, NewEvent(c))
        BY <2>1, <3>3 DEF Shape, ImageAt, Moved, Rows
      <4>2. db[r].events \in Seq(Events)
        BY <2>1 DEF Rows
      <4>3. NewEvent(c).sequence = Len(db[r].events) + 1
        BY DEF NewEvent
      <4>4. \A i \in DOMAIN db[r].events : db[r].events[i].sequence = i
        BY <2>1 DEF Gapless
      <4> QED  BY <4>1, <4>2, <4>3, <4>4
    <3> QED  BY <2>2, <3>1, <3>2, <3>3
  <2> QED  BY <2>1, <2>3 DEF Gapless
<1> QED  BY <1>1, <1>2, OnlyCommitWrites

-----------------------------------------------------------------------------
(* The theorems.                                                            *)

THEOREM Invariance == Spec => []IInv
<1>1. Init => IInv
  BY Initially
<1>2. IInv /\ [Next]_vars => IInv'
  BY TypeStep, LockedStep, ClaimsStep, ShapeStep, GaplessStep DEF IInv
<1> QED  BY <1>1, <1>2, PTL DEF Spec

\* Every variable keeps its type: no code, label or row outside the model's.
THEOREM TypeCorrect == Spec => []TypeOK
BY Invariance, PTL DEF IInv

\* INV-EVENT-001/002 as mutate_with_event enforces them: a run's journal is
\* numbered without gaps, for any number of racing processes and failures.
THEOREM JournalGapless == Spec => []Gapless
BY Invariance, PTL DEF IInv

\* Whatever races, fails or dies, the run database changes only by whole
\* commands: RunStore implements RunLedger.
THEOREM StoreImplementsLedger == Spec => ImplementsLedger
<1>1. Init => Ledger!Init
  BY DEF Init, Ledger!Init
<1>2. IInv /\ [Next]_vars => [Ledger!Next]_db
  BY CommitIsLedgerStep, OnlyCommitWrites
<1> QED  BY <1>1, <1>2, Invariance, PTL DEF Spec, ImplementsLedger, Ledger!Spec

\* The embedding runtime commits only against the very row it decided on,
\* although it read the row before it had the lock.
THEOREM AdvanceFresh == Spec => AdvanceIsFresh
<1>1. IInv /\ [Next]_vars =>
        [\A c \in Clients :
           (pc[c] = "commit" /\ pc'[c] = "report" /\ call[c].op = "advance") =>
             LET row == db[call[c].run] IN
             /\ seen[c] = [state |-> row.state, version |-> row.version]
             /\ IsValidTransition(row.state, call[c].command, call[c].to)]_vars
  BY DEF IInv, Shape, ImageAt, Allowed, Journalled
<1> QED  BY <1>1, Invariance, PTL DEF Spec, AdvanceIsFresh

-----------------------------------------------------------------------------
(* What a commit does to a journal.                                         *)

\* The journal of the run gets the command's event, behind all it had, or
\* stays; the journals of the others stay.
LEMMA CommittedEvents ==
  ASSUME IInv, NEW c \in Clients, Commit(c)
  PROVE  /\ call[c].run \in Runs
         /\ \A r \in Runs \ {call[c].run} : db'[r].events = db[r].events
         /\ \A r \in Runs : db[r].events \in Seq(Events)
         /\ call[c].op \in Journalled =>
              /\ db'[call[c].run].events = Append(db[call[c].run].events, NewEvent(c))
              /\ Fresh(c)
         /\ call[c].op \notin Journalled => db'[call[c].run].events = db[call[c].run].events
<1> USE DEF IInv
<1> DEFINE r == call[c].run
<1>1. /\ pc[c] = "commit" /\ r \in Runs /\ db[r] \in Rows
      /\ db' = [db EXCEPT ![r] = tx] /\ db \in [Runs -> Rows]
  BY DEF Commit, TypeOK, Calls
<1>2. db'[r] = tx /\ \A q \in Runs \ {r} : db'[q] = db[q]
  BY <1>1
<1>3. call[c].op \in {"run", "reject"} \union Journalled
  BY <1>1 DEF Claims, InTx
<1>4. CASE call[c].op = "run"
  <2>1. tx = Ledger!Created /\ db[r] = Ledger!Absent
    BY <1>1, <1>4 DEF Shape, ImageAt, Claims
  <2>2. tx.events = db[r].events
    BY <2>1 DEF Ledger!Created, Ledger!Absent
  <2> QED  BY <1>1, <1>2, <1>4, <2>2 DEF Rows, Journalled
<1>5. CASE call[c].op = "reject"
  <2>1. tx.events = db[r].events
    BY <1>1, <1>5 DEF Shape, ImageAt, Moved, Rows
  <2> QED  BY <1>1, <1>2, <1>5, <2>1 DEF Rows, Journalled
<1>6. CASE call[c].op \in Journalled
  <2>1. tx.events = Append(db[r].events, NewEvent(c)) /\ Fresh(c)
    BY <1>1, <1>6 DEF Shape, ImageAt, Moved, Rows
  <2> QED  BY <1>1, <1>2, <1>6, <2>1 DEF Rows
<1> QED  BY <1>3, <1>4, <1>5, <1>6

LEMMA AppendedAt ==
  ASSUME NEW S, NEW s \in Seq(S), NEW e
  PROVE  /\ DOMAIN Append(s, e) = DOMAIN s \union {Len(s) + 1}
         /\ \A i \in DOMAIN s : Append(s, e)[i] = s[i] /\ i <= Len(s)
         /\ Append(s, e)[Len(s) + 1] = e /\ Len(s) + 1 \notin DOMAIN s /\ Len(s) \in Nat
OBVIOUS

LEMMA NoEventTwiceStep == IInv /\ NoEventTwice /\ [Next]_vars => NoEventTwice'
<1> SUFFICES ASSUME IInv, NoEventTwice, [Next]_vars PROVE NoEventTwice'
  OBVIOUS
<1>1. CASE UNCHANGED db
  BY <1>1 DEF NoEventTwice
<1>2. ASSUME NEW c \in Clients, Commit(c)  PROVE NoEventTwice'
  <2> DEFINE q == call[c].run
  <2>1. CASE call[c].op \notin Journalled
    <3>1. \A r \in Runs : db'[r].events = db[r].events
      BY <1>2, <2>1, CommittedEvents
    <3> QED  BY <3>1 DEF NoEventTwice
  <2>2. CASE call[c].op \in Journalled
    <3> DEFINE old == db[q].events
               last == Len(old) + 1
    <3>1. /\ q \in Runs /\ old \in Seq(Events) /\ db'[q].events = Append(old, NewEvent(c))
          /\ \A r \in Runs \ {q} : db'[r].events = db[r].events
      BY <1>2, <2>2, CommittedEvents
    <3>2. \A r \in Runs : \A i \in DOMAIN db[r].events : db[r].events[i].id # NewEvent(c).id
      <4>1. Fresh(c)
        BY <1>2, <2>2, CommittedEvents
      <4>2. NewEvent(c).id = call[c].id
        BY DEF NewEvent
      <4> QED  BY <4>1, <4>2 DEF Fresh, EventIds, Ledger!EventIds
    <3>3. /\ DOMAIN db'[q].events = DOMAIN old \union {last} /\ last \notin DOMAIN old
          /\ \A i \in DOMAIN old : db'[q].events[i] = old[i]
          /\ db'[q].events[last] = NewEvent(c)
      <4>1. /\ DOMAIN Append(old, NewEvent(c)) = DOMAIN old \union {last}
            /\ \A i \in DOMAIN old : Append(old, NewEvent(c))[i] = old[i]
            /\ Append(old, NewEvent(c))[last] = NewEvent(c) /\ last \notin DOMAIN old
        <5>1. old \in Seq(Events)
          BY <3>1
        <5> HIDE DEF old
        <5> QED  BY <5>1, AppendedAt
      <4> QED  BY <3>1, <4>1
    <3> HIDE DEF last
    <3>4. ASSUME NEW r \in Runs, NEW i \in DOMAIN db'[r].events
          PROVE  \/ i \in DOMAIN db[r].events /\ db'[r].events[i] = db[r].events[i]
                 \/ r = q /\ i = last /\ db'[r].events[i] = NewEvent(c)
      BY <3>1, <3>3
    <3>5. SUFFICES ASSUME NEW r \in Runs, NEW s \in Runs,
                          NEW i \in DOMAIN db'[r].events, NEW j \in DOMAIN db'[s].events,
                          db'[r].events[i].id = db'[s].events[j].id
                   PROVE  r = s /\ i = j
      BY DEF NoEventTwice
    <3>6. CASE i \in DOMAIN db[r].events /\ db'[r].events[i] = db[r].events[i]
      <4>1. j \in DOMAIN db[s].events /\ db'[s].events[j] = db[s].events[j]
        BY <3>2, <3>4, <3>5, <3>6
      <4> QED  BY <3>5, <3>6, <4>1 DEF NoEventTwice
    <3>7. CASE r = q /\ i = last /\ db'[r].events[i] = NewEvent(c)
      BY <3>2, <3>4, <3>5, <3>7
    <3> QED  BY <3>4, <3>6, <3>7
  <2> QED  BY <2>1, <2>2
<1> QED  BY <1>1, <1>2, OnlyCommitWrites

LEMMA CausesPrecedeStep == IInv /\ CausesPrecede /\ [Next]_vars => CausesPrecede'
<1> SUFFICES ASSUME IInv, CausesPrecede, [Next]_vars PROVE CausesPrecede'
  OBVIOUS
<1>1. CASE UNCHANGED db
  BY <1>1 DEF CausesPrecede
<1>2. ASSUME NEW c \in Clients, Commit(c)  PROVE CausesPrecede'
  <2> DEFINE q == call[c].run
  <2>1. CASE call[c].op \notin Journalled
    <3>1. \A r \in Runs : db'[r].events = db[r].events
      BY <1>2, <2>1, CommittedEvents
    <3> QED  BY <3>1 DEF CausesPrecede
  <2>2. CASE call[c].op \in Journalled
    <3> DEFINE old == db[q].events
               last == Len(old) + 1
    <3>1. /\ q \in Runs /\ old \in Seq(Events) /\ db'[q].events = Append(old, NewEvent(c))
          /\ \A r \in Runs \ {q} : db'[r].events = db[r].events
      BY <1>2, <2>2, CommittedEvents
    <3>2. NewEvent(c).cause \in EventIds(old) \union {NoCause}
      BY <1>2, <2>2, CommittedEvents DEF Fresh, NewEvent
    <3>3. /\ DOMAIN db'[q].events = DOMAIN old \union {last}
          /\ \A i \in DOMAIN old : db'[q].events[i] = old[i]
          /\ db'[q].events[last] = NewEvent(c)
      <4>1. /\ DOMAIN Append(old, NewEvent(c)) = DOMAIN old \union {last}
            /\ \A i \in DOMAIN old : Append(old, NewEvent(c))[i] = old[i]
            /\ Append(old, NewEvent(c))[last] = NewEvent(c) /\ last \notin DOMAIN old
        <5>1. old \in Seq(Events)
          BY <3>1
        <5> HIDE DEF old
        <5> QED  BY <5>1, AppendedAt
      <4> QED  BY <3>1, <4>1
    <3>4. DOMAIN old = 1..Len(old) /\ Len(old) \in Nat
      BY <3>1
    <3>5. ASSUME NEW i \in DOMAIN db'[q].events
          PROVE  \/ db'[q].events[i].cause = NoCause
                 \/ \E j \in 1..(i - 1) : db'[q].events[j].id = db'[q].events[i].cause
      <4>1. CASE i \in DOMAIN old
        <5>1. \/ old[i].cause = NoCause
              \/ \E j \in 1..(i - 1) : old[j].id = old[i].cause
          BY <3>1, <4>1 DEF CausesPrecede
        <5>2. \A j \in 1..(i - 1) : j \in DOMAIN old
          BY <3>4, <4>1
        <5> QED  BY <3>3, <4>1, <5>1, <5>2
      <4>2. CASE i = last /\ NewEvent(c).cause # NoCause
        <5>1. PICK j \in DOMAIN old : old[j].id = NewEvent(c).cause
          BY <3>2, <4>2 DEF EventIds, Ledger!EventIds
        <5>2. j \in 1..(i - 1)
          BY <3>4, <4>2
        <5> QED  BY <3>3, <4>2, <5>1, <5>2
      <4>3. CASE i = last /\ NewEvent(c).cause = NoCause
        BY <3>3, <4>3
      <4> QED  BY <3>3, <4>1, <4>2, <4>3
    <3>6. ASSUME NEW r \in Runs \ {q}, NEW i \in DOMAIN db'[r].events
          PROVE  \/ db'[r].events[i].cause = NoCause
                 \/ \E j \in 1..(i - 1) : db'[r].events[j].id = db'[r].events[i].cause
      <4>1. db'[r].events = db[r].events
        BY <3>1
      <4> QED  BY <3>6, <4>1 DEF CausesPrecede
    <3> QED  BY <3>5, <3>6 DEF CausesPrecede
  <2> QED  BY <2>1, <2>2
<1> QED  BY <1>1, <1>2, OnlyCommitWrites

\* INV-EVENT-001: no event is recorded twice, in its run or another, although
\* an event whose answer was lost is sent again.
THEOREM EventsOnce == Spec => []NoEventTwice
<1>1. Init => NoEventTwice
  BY DEF Init, NoEventTwice, Ledger!Absent
<1> QED  BY <1>1, NoEventTwiceStep, Invariance, PTL DEF Spec

\* INV-EVENT-002: an event's cause is an earlier event of its own run.
THEOREM CausesEarlier == Spec => []CausesPrecede
<1>1. Init => CausesPrecede
  BY DEF Init, CausesPrecede, Ledger!Absent
<1> QED  BY <1>1, CausesPrecedeStep, Invariance, PTL DEF Spec

-----------------------------------------------------------------------------
(* What the processes report.                                               *)

\* Ids in the journal were given to a call that was made; the fresh id of a
\* call is there only once the call has committed.
Issued ==
  /\ \A c \in Clients : pc[c] # "idle" => \E n \in 1..calls[c] : call[c].id = <<c, n>>
  /\ \A id \in JournalledIds : \E c \in Clients : \E n \in 1..calls[c] : id = <<c, n>>
  /\ \A c \in Clients : pc[c] \notin {"idle", "report"} => <<c, calls[c]>> \notin JournalledIds

\* A call that has committed is told so, and only such a call.
Done ==
  \A c \in Clients : pc[c] = "report" =>
    /\ call[c].op \in {"run", "reject"} \union Journalled
    /\ call[c].op \in Journalled => call[c].id \in JournalledIds
    /\ call[c].op \notin Journalled => <<c, calls[c]>> \notin JournalledIds
    /\ call[c].op = "run" => db[call[c].run].state # NoRow

Truth == Issued /\ Done /\ TruthfulReports

\* What a commit adds to the ids of the journals.
LEMMA CommittedIds ==
  ASSUME IInv, NEW c \in Clients, Commit(c)
  PROVE  /\ call[c].op \in Journalled => JournalledIds' = JournalledIds \union {call[c].id}
         /\ call[c].op \notin Journalled => JournalledIds' = JournalledIds
<1> DEFINE q == call[c].run
<1>1. CASE call[c].op \notin Journalled
  <2>1. \A r \in Runs : db'[r].events = db[r].events
    BY <1>1, CommittedEvents
  <2> QED  BY <1>1, <2>1 DEF JournalledIds, EventIds, Ledger!EventIds
<1>2. CASE call[c].op \in Journalled
  <2> DEFINE old == db[q].events
  <2>1. /\ q \in Runs /\ old \in Seq(Events) /\ db'[q].events = Append(old, NewEvent(c))
        /\ \A r \in Runs \ {q} : db'[r].events = db[r].events
    BY <1>2, CommittedEvents
  <2>2. EventIds(Append(old, NewEvent(c))) = EventIds(old) \union {NewEvent(c).id}
    <3>1. old \in Seq(Events)
      BY <2>1
    <3> HIDE DEF old
    <3> DEFINE new == Append(old, NewEvent(c))
    <3>2. /\ DOMAIN new = DOMAIN old \union {Len(old) + 1}
          /\ \A i \in DOMAIN old : new[i] = old[i]
          /\ new[Len(old) + 1] = NewEvent(c)
      BY <3>1, AppendedAt
    <3> HIDE DEF new
    <3>3. \A id : id \in EventIds(new) <=> id \in EventIds(old) \/ id = NewEvent(c).id
      BY <3>2 DEF EventIds, Ledger!EventIds
    <3> QED  BY <3>3 DEF new
  <2>3. NewEvent(c).id = call[c].id
    BY DEF NewEvent
  <2>4. EventIds(db'[q].events) = EventIds(old) \union {call[c].id}
    BY <2>1, <2>2, <2>3
  <2>5. \A r \in Runs \ {q} : EventIds(db'[r].events) = EventIds(db[r].events)
    BY <2>1
  <2>6. JournalledIds' = UNION { EventIds(db'[r].events) : r \in Runs }
    BY DEF JournalledIds, EventIds, Ledger!EventIds
  <2>7. ASSUME NEW id
        PROVE  id \in JournalledIds' <=> id \in JournalledIds \/ id = call[c].id
    <3> DEFINE before(r) == EventIds(db[r].events)
               after(r) == EventIds(db'[r].events)
    <3>1. /\ q \in Runs /\ after(q) = before(q) \union {call[c].id}
          /\ \A r \in Runs \ {q} : after(r) = before(r)
      BY <2>1, <2>4, <2>5
    <3>2. /\ JournalledIds' = UNION { after(r) : r \in Runs }
          /\ JournalledIds = UNION { before(r) : r \in Runs }
      BY <2>6 DEF JournalledIds
    <3> HIDE DEF before, after, q
    <3>3. /\ id \in JournalledIds' <=> \E r \in Runs : id \in after(r)
          /\ id \in JournalledIds <=> \E r \in Runs : id \in before(r)
      BY <3>2
    <3> QED  BY <3>1, <3>3
  <2>8. JournalledIds' = JournalledIds \union {call[c].id}
    BY <2>7
  <2> QED  BY <1>2, <2>8
<1> QED  BY <1>1, <1>2

LEMMA TruthInitial == Init => Truth
<1> SUFFICES ASSUME Init PROVE Truth
  OBVIOUS
<1>1. JournalledIds = {}
  BY DEF Init, JournalledIds, EventIds, Ledger!EventIds, Ledger!Absent
<1> QED  BY <1>1 DEF Init, Truth, Issued, Done, TruthfulReports

\* Away from Commit and Invoke a process only moves on or ends with a code.
LEMMA TruthStep == IInv /\ Truth /\ [Next]_vars => Truth'
<1> SUFFICES ASSUME IInv, Truth, [Next]_vars PROVE Truth'
  OBVIOUS
<1> USE DEF IInv, TypeOK
<1>j. UNCHANGED db => JournalledIds' = JournalledIds
  BY DEF JournalledIds, EventIds, Ledger!EventIds
<1>k. /\ SuccessCode("run") = "CLI_RUN_CREATED" /\ SuccessCode("reject") = "CLI_REJECTED"
      /\ \A op \in Journalled : SuccessCode(op) \in {"TOOL_CANCELLED", "COMMITTED"}
  BY DEF SuccessCode, Journalled
<1>1. CASE UNCHANGED vars
  BY <1>1, <1>j DEF vars, Truth, Issued, Done, TruthfulReports
<1>2. ASSUME NEW c \in Clients, NEW op \in Ops, NEW r \in Runs, Invoke(c, op, r)
      PROVE  Truth'
  <2>1. PICK k \in CallsFor(c, op, r) : call' = [call EXCEPT ![c] = k]
    BY <1>2 DEF Invoke
  <2>2. \E n \in 1..(calls[c] + 1) : k.id = <<c, n>>
    BY DEF CallsFor, FreshId
  <2>3. /\ pc' = [pc EXCEPT ![c] = "open"] /\ calls' = [calls EXCEPT ![c] = @ + 1]
        /\ UNCHANGED db /\ JournalledIds' = JournalledIds
        /\ result' = [result EXCEPT ![c] = "none"]
    BY <1>2, <1>j DEF Invoke, GoTo
  <2>4. <<c, calls[c] + 1>> \notin JournalledIds
    BY DEF Truth, Issued
  <2>5. Issued'
    BY <2>1, <2>2, <2>3, <2>4 DEF Truth, Issued
  <2>6. Done' /\ TruthfulReports'
    BY <2>1, <2>3 DEF Truth, Done, TruthfulReports
  <2> QED  BY <2>5, <2>6 DEF Truth
<1>3. ASSUME NEW c \in Clients, Commit(c)  PROVE Truth'
  <2>1. /\ pc[c] = "commit" /\ pc' = [pc EXCEPT ![c] = "report"] /\ UNCHANGED <<call, calls, result>>
    BY <1>3 DEF Commit, GoTo
  <2>2. /\ call[c].op \in Journalled => JournalledIds' = JournalledIds \union {call[c].id}
        /\ call[c].op \notin Journalled => JournalledIds' = JournalledIds
    BY <1>3, CommittedIds
  <2>3. PICK n \in 1..calls[c] : call[c].id = <<c, n>>
    BY <2>1 DEF Truth, Issued
  <2>4. Issued'
    BY <2>1, <2>2, <2>3 DEF Truth, Issued
  <2>5. /\ tx.state # NoRow /\ \A r \in Runs : db[r].state # NoRow => db'[r].state # NoRow
        /\ db'[call[c].run] = tx
    BY <1>3, CommittedRow DEF Commit, Calls
  <2>6. \A d \in Clients : call[d].run \in Runs
    BY DEF Calls
  <2>7. Done'
    <3>1. ASSUME NEW d \in Clients \ {c}, pc'[d] = "report"
          PROVE  /\ call[d].op \in {"run", "reject"} \union Journalled
                 /\ call[d].op \in Journalled => call[d].id \in JournalledIds'
                 /\ call[d].op \notin Journalled => <<d, calls[d]>> \notin JournalledIds'
                 /\ call[d].op = "run" => db'[call[d].run].state # NoRow
      BY <2>1, <2>2, <2>3, <2>5, <2>6, <3>1 DEF Truth, Done
    <3>2. /\ call[c].op \in {"run", "reject"} \union Journalled
          /\ call[c].op \in Journalled => call[c].id \in JournalledIds'
          /\ call[c].op \notin Journalled => <<c, calls[c]>> \notin JournalledIds'
          /\ call[c].op = "run" => db'[call[c].run].state # NoRow
      BY <2>1, <2>2, <2>5 DEF Truth, Issued, Claims, InTx
    <3> QED  BY <2>1, <3>1, <3>2 DEF Done
  <2>8. TruthfulReports'
    BY <2>1, <2>2, <2>3, <2>5, <2>6 DEF Truth, TruthfulReports
  <2> QED  BY <2>4, <2>7, <2>8 DEF Truth
<1>4. ASSUME NEW c \in Clients, NEW code \in Codes,
             pc[c] # "idle", pc' = [pc EXCEPT ![c] = "idle"], result' = [result EXCEPT ![c] = code],
             UNCHANGED <<db, call, calls>>,
             \/ pc[c] = "report" /\ code \in {SuccessCode(call[c].op), "CRASHED"}
             \/ pc[c] # "report" /\ code \notin {"TOOL_CANCELLED", "COMMITTED", "CLI_RUN_CREATED"}
      PROVE  Truth'
  <2>1. Issued' /\ Done'
    BY <1>4, <1>j DEF Truth, Issued, Done
  <2>3. ASSUME NEW d \in Clients \ {c}, pc'[d] = "idle"
        PROVE  pc[d] = "idle" /\ result'[d] = result[d]
    BY <1>4, <2>3
  <2>4. /\ code \in {"TOOL_CANCELLED", "COMMITTED"} => call[c].id \in JournalledIds
        /\ call[c].id = <<c, calls[c]>> /\ call[c].id \in JournalledIds =>
             code \in {"TOOL_CANCELLED", "COMMITTED", "CRASHED"}
        /\ code = "CLI_RUN_CREATED" => db[call[c].run].state # NoRow
    <3>1. CASE pc[c] = "report" /\ code = SuccessCode(call[c].op)
      <4>1. CASE call[c].op \in Journalled
        <5>1. call[c].id \in JournalledIds
          BY <3>1, <4>1 DEF Truth, Done
        <5> QED  BY <1>k, <3>1, <4>1, <5>1
      <4>2. CASE call[c].op \notin Journalled
        <5>1. call[c].op \in {"run", "reject"} /\ <<c, calls[c]>> \notin JournalledIds
          BY <3>1, <4>2 DEF Truth, Done
        <5>2. call[c].op = "run" => db[call[c].run].state # NoRow
          BY <3>1 DEF Truth, Done
        <5> QED  BY <1>k, <3>1, <5>1, <5>2
      <4> QED  BY <4>1, <4>2
    <3>2. CASE code = "CRASHED"
      BY <3>2
    <3>3. CASE pc[c] # "report" /\ code \notin {"TOOL_CANCELLED", "COMMITTED", "CLI_RUN_CREATED"}
      BY <1>4, <3>3 DEF Truth, Issued
    <3> QED  BY <1>4, <3>1, <3>2, <3>3
  <2>5. TruthfulReports'
    <3>1. JournalledIds' = JournalledIds /\ UNCHANGED <<db, call, calls>> /\ result'[c] = code
      BY <1>4, <1>j
    <3> QED  BY <2>3, <2>4, <3>1 DEF Truth, TruthfulReports
  <2> QED  BY <2>1, <2>5 DEF Truth
<1>5. ASSUME NEW c \in Clients, pc[c] \notin {"idle", "report"},
             pc' = [pc EXCEPT ![c] = pc'[c]], pc'[c] \notin {"idle", "report"},
             UNCHANGED <<db, call, calls, result>>
      PROVE  Truth'
  <2>1. \A d \in Clients : /\ pc'[d] = "idle" <=> pc[d] = "idle"
                           /\ pc'[d] = "report" <=> pc[d] = "report"
    BY <1>5
  <2>2. UNCHANGED <<db, call, calls, result>> /\ JournalledIds' = JournalledIds
    BY <1>5, <1>j
  <2>3. Issued'
    BY <2>1, <2>2 DEF Truth, Issued
  <2>4. Done' /\ TruthfulReports'
    BY <2>1, <2>2 DEF Truth, Done, TruthfulReports
  <2> QED  BY <2>3, <2>4 DEF Truth
<1>6. ASSUME NEW c \in Clients, Open(c) \/ ReadSequence(c) \/ BeginImmediate(c)
                                \/ InsertGoal(c) \/ InsertRun(c) \/ UpdateRun(c) \/ InsertEvent(c)
      PROVE  Truth'
  BY <1>5, <1>6 DEF Open, ReadSequence, BeginImmediate, InsertGoal, InsertRun, UpdateRun,
                    InsertEvent, GoTo
<1>7. \A c \in Clients : FailureCode(c) \in Codes \ {"TOOL_CANCELLED", "COMMITTED", "CLI_RUN_CREATED"}
  BY CodesTyped DEF FailureCode
<1>8. ASSUME NEW c \in Clients, Busy(c) \/ RefuseEvent(c) \/ StatementFails(c) \/ RefuseUpdate(c)
      PROVE  Truth'
  <2>1. "REFUSED" \in Codes
    BY DEF Codes
  <2> QED  BY <1>4, <1>7, <1>8, <2>1
           DEF Busy, RefuseEvent, StatementFails, RefuseUpdate, Rollback, Finish, GoTo, InTx
<1>9. ASSUME NEW c \in Clients, GetRun(c)  PROVE Truth'
  <2>1. CASE \E code \in ReadAnswers(call[c].op, db[call[c].run].state) : Finish(c, code)
    <3>1. PICK code \in ReadAnswers(call[c].op, db[call[c].run].state) : Finish(c, code)
      BY <2>1
    <3>2. call[c].op \in AllOps /\ db[call[c].run].state \in States \union {NoRow}
      BY DEF Calls, Rows
    <3>3. code \in Codes
      BY <3>1, <3>2, CodesTyped
    <3>4. code \notin {"TOOL_CANCELLED", "COMMITTED", "CLI_RUN_CREATED"}
      BY <3>1, <3>2 DEF ReadAnswers, AllOps
    <3> QED  BY <1>4, <1>9, <3>1, <3>3, <3>4 DEF GetRun, Finish, GoTo
  <2>2. CASE UNCHANGED result /\ GoTo(c, IF call[c].op \in Journalled THEN "sequence" ELSE "begin")
    BY <1>5, <1>9, <2>2 DEF GetRun, GoTo
  <2> QED  BY <1>9, <2>1, <2>2 DEF GetRun
<1>10. ASSUME NEW c \in Clients, Report(c)  PROVE Truth'
  BY <1>4, <1>10, CodesTyped DEF Report, Finish, GoTo
<1>11. ASSUME NEW c \in Clients, Crash(c)  PROVE Truth'
  <2>1. "CRASHED" \in Codes
    BY DEF Codes
  <2> QED  BY <1>4, <1>11, <2>1 DEF Crash, Finish, GoTo
<1> QED
  BY <1>1, <1>2, <1>3, <1>6, <1>8, <1>9, <1>10, <1>11 DEF Next, Step

\* What a process reports is true: done means committed, failed means nothing
\* was, whatever failed in between; only a crash leaves it open.
THEOREM ReportsTrue == Spec => []TruthfulReports
BY TruthInitial, TruthStep, Invariance, PTL DEF Spec, Truth
=============================================================================
