------------------------------ MODULE RunStore ------------------------------
(***************************************************************************)
(* The SQLite authority (_persistence.py) under concurrent command-line    *)
(* processes (cli.py).  Each process opens its own connection, reads the   *)
(* run outside any transaction, decides, and only then takes the write     *)
(* lock with BEGIN IMMEDIATE.  A process may wait for the lock until the   *)
(* busy timeout, have a statement fail, or die at any point.  The calls    *)
(* "advance" are those of the runtime that embeds mutate_with_event as the *)
(* Blueprint's transaction rule asks: it re-authorizes its transition      *)
(* inside the transaction.                                                 *)
(***************************************************************************)
EXTENDS StateMachine

CONSTANTS Clients,    \* processes
          NoClient,   \* nobody holds the write lock
          Runs,       \* run identities
          Ops,        \* the commands the processes issue
          DriverMoves,\* the <<command, to>> pairs "advance" asks for
          MaxCalls    \* bound on the calls of a process

AllOps == {"run", "status", "inspect", "resume", "accept", "reject", "cancel", "advance"}

ASSUME ClientsAssumption ==
  /\ NoClient \notin Clients /\ Clients # {} /\ Runs # {}
  /\ MaxCalls \in Nat \ {0}
  /\ Ops \subseteq AllOps /\ DriverMoves \subseteq Commands \X States

VARIABLES
  db,       \* run -> goal, row and events, as committed
  writer,   \* the process inside BEGIN IMMEDIATE, or NoClient
  tx,       \* what its uncommitted statements made of the run it writes
  pc,       \* process -> where it is in its command
  call,     \* process -> the command and its arguments
  calls,    \* process -> calls made so far
  seen,     \* process -> state and version its SELECT returned
  sequence, \* process -> event sequence it computed before the transaction
  result    \* process -> the symbolic code of its last call

vars == <<db, writer, tx, pc, call, calls, seen, sequence, result>>

Ids == Clients \X (1..MaxCalls)
Ledger == INSTANCE RunLedger
NoRow == Ledger!NoRow
NoCause == Ledger!NoCause
EventIds(events) == Ledger!EventIds(events)

Journalled == {"cancel", "advance"}   \* the commands that use mutate_with_event
InTx == {"goals", "mutate", "journal", "commit"}

NoImage == Ledger!Absent
NoCall == [op |-> "status", run |-> CHOOSE r \in Runs : TRUE,
           id |-> <<CHOOSE c \in Clients : TRUE, 1>>, command |-> "interrupt", to |-> "INTERRUPTED", cause |-> NoCause]

\* SELECT COALESCE(MAX(sequence), 0)
LastSequence(events) ==
  IF events = <<>> THEN 0
  ELSE LET sequences == { events[i].sequence : i \in DOMAIN events }
       IN CHOOSE m \in sequences : \A n \in sequences : n <= m

Init ==
  /\ db = [r \in Runs |-> Ledger!Absent]
  /\ writer = NoClient
  /\ tx = NoImage
  /\ pc = [c \in Clients |-> "idle"]
  /\ call = [c \in Clients |-> NoCall]
  /\ calls = [c \in Clients |-> 0]
  /\ seen = [c \in Clients |-> [state |-> NoRow, version |-> 0]]
  /\ sequence = [c \in Clients |-> 0]
  /\ result = [c \in Clients |-> "none"]

GoTo(c, label) == pc' = [pc EXCEPT ![c] = label]

\* The process reports a code and exits.
Finish(c, code) ==
  /\ GoTo(c, "idle")
  /\ result' = [result EXCEPT ![c] = code]

-----------------------------------------------------------------------------
(* Before the transaction.                                                  *)

\* A fresh uuid7 names the run that "run" creates.
FreshFor(c, r) ==
  /\ db[r] = Ledger!Absent
  /\ \A d \in Clients \ {c} : ~ (pc[d] # "idle" /\ call[d].op = "run" /\ call[d].run = r)

\* Every envelope has a fresh event id; the embedding runtime may also send
\* again the one of an earlier call, whose answer it lost.  A cause is an event
\* id the caller has learnt, of this run or another.
FreshId(c) == <<c, calls[c] + 1>>
CallsFor(c, op, r) ==
  IF op = "advance"
  THEN { [op |-> op, run |-> r, id |-> <<c, n>>, command |-> m[1], to |-> m[2], cause |-> e] :
         n \in 1..(calls[c] + 1), m \in DriverMoves,
         e \in Ledger!AllEventIds \union {NoCause} }
  ELSE { [op |-> op, run |-> r, id |-> FreshId(c), command |-> "interrupt",
           to |-> "INTERRUPTED", cause |-> NoCause] }

Invoke(c, op, r) ==
  /\ pc[c] = "idle" /\ calls[c] < MaxCalls
  /\ op = "run" => FreshFor(c, r)
  /\ call' \in { [call EXCEPT ![c] = k] : k \in CallsFor(c, op, r) }
  /\ calls' = [calls EXCEPT ![c] = @ + 1]
  /\ seen' = [seen EXCEPT ![c] = [state |-> NoRow, version |-> 0]]
  /\ sequence' = [sequence EXCEPT ![c] = 0]
  /\ result' = [result EXCEPT ![c] = "none"]
  /\ GoTo(c, "open")
  /\ UNCHANGED <<db, writer, tx>>

\* SQLiteStore(): the schema script writes, so opening needs the lock free.
Open(c) ==
  /\ pc[c] = "open" /\ writer = NoClient
  /\ GoTo(c, IF call[c].op = "run" THEN "begin" ELSE "select")
  /\ UNCHANGED <<db, writer, tx, call, calls, seen, sequence, result>>

\* What sqlite3's "database is locked", or any other statement failure,
\* becomes: run and cancel catch it, the others die of it.
FailureCode(c) ==
  CASE call[c].op = "run" -> "CLI_INVALID_USAGE"
    [] call[c].op = "cancel" /\ pc[c] # "open" -> "PERSIST_CORRUPT"
    [] OTHER -> "UNCAUGHT"

Busy(c) ==
  /\ pc[c] \in {"open", "begin"} /\ writer # NoClient
  /\ Finish(c, FailureCode(c))
  /\ UNCHANGED <<db, writer, tx, call, calls, seen, sequence>>

\* The codes a command may answer from the row alone; none when it goes on.
\* accept of an accepted run answers by the integration record, which the
\* embedding runtime may or may not have written.
ReadAnswers(op, state) ==
  IF state = NoRow THEN {"CLI_RUN_NOT_FOUND"}
  ELSE CASE op = "status" -> {"CLI_STATUS_OK"}
         [] op = "inspect" -> {"CLI_INSPECT_OK"}
         [] op = "resume" ->
              {IF state \in RecoverableSourceStates
               THEN "RECOVERY_EXTERNAL_DRIFT" ELSE "STATE_INVALID_TRANSITION"}
         [] op = "accept" ->
              IF state = "ACCEPTED" THEN {"CLI_ALREADY_ACCEPTED", "RECOVERY_EXTERNAL_DRIFT"}
              ELSE {"VERIFY_INCONCLUSIVE"}
         [] op = "reject" /\ state = "REJECTED" -> {"CLI_ALREADY_REJECTED"}
         [] op = "reject" /\ state \in {"ACCEPTED", "FAILED"} -> {"STATE_INVALID_TRANSITION"}
         [] op = "cancel" /\ state = "INTERRUPTED" -> {"CLI_ALREADY_INTERRUPTED"}
         [] op = "cancel" /\ state \in TerminalStates \ {"INTERRUPTED"} -> {"STATE_INVALID_TRANSITION"}
         [] OTHER -> {}

GetRun(c) ==
  LET row == db[call[c].run]
      answers == ReadAnswers(call[c].op, row.state)
  IN
  /\ pc[c] = "select"
  /\ seen' = [seen EXCEPT ![c] = [state |-> row.state, version |-> row.version]]
  /\ \/ \E code \in answers : Finish(c, code)
     \/ /\ answers = {}
        /\ GoTo(c, IF call[c].op \in Journalled THEN "sequence" ELSE "begin")
        /\ UNCHANGED result
  /\ UNCHANGED <<db, writer, tx, call, calls, sequence>>

\* _interrupt computes the sequence of its event outside the transaction.
ReadSequence(c) ==
  /\ pc[c] = "sequence"
  /\ sequence' = [sequence EXCEPT ![c] = LastSequence(db[call[c].run].events) + 1]
  /\ GoTo(c, "begin")
  /\ UNCHANGED <<db, writer, tx, call, calls, seen, result>>

-----------------------------------------------------------------------------
(* The transaction: its statements change tx, COMMIT publishes it.          *)

BeginImmediate(c) ==
  /\ pc[c] = "begin" /\ writer = NoClient
  /\ writer' = c
  /\ tx' = db[call[c].run]
  /\ GoTo(c, IF call[c].op = "run" THEN "goals" ELSE "mutate")
  /\ UNCHANGED <<db, call, calls, seen, sequence, result>>

EndTx == writer' = NoClient /\ tx' = NoImage

\* Mutant: a failed transaction is left open.
NoRollback(c, code) ==
  /\ Finish(c, code)
  /\ UNCHANGED <<db, writer, tx, call, calls, seen, sequence>>

Rollback(c, code) ==
  /\ EndTx
  /\ Finish(c, code)
  /\ UNCHANGED <<db, call, calls, seen, sequence>>

InsertGoal(c) ==
  /\ pc[c] = "goals"
  /\ tx' = [tx EXCEPT !.goal = TRUE]
  /\ GoTo(c, "mutate")
  /\ UNCHANGED <<db, writer, call, calls, seen, sequence, result>>

InsertRun(c) ==
  /\ pc[c] = "mutate" /\ call[c].op = "run"
  /\ tx' = [tx EXCEPT !.state = "CREATED", !.version = 0]
  /\ GoTo(c, "commit")
  /\ UNCHANGED <<db, writer, call, calls, seen, sequence, result>>

\* The state an UPDATE writes: reject and cancel do not look at the row again.
TargetState(k) ==
  CASE k.op = "reject" -> "REJECTED"
    [] k.op = "cancel" -> "INTERRUPTED"
    [] OTHER           -> k.to

\* Mutant: the decision is taken against the row read before the transaction.
AuthorizedOnRead(c) ==
  call[c].op = "advance" =>
    /\ seen[c].state # NoRow
    /\ IsValidTransition(seen[c].state, call[c].command, call[c].to)

\* The embedding runtime's decision, taken against the row it is about to write.
Authorized(c) ==
  call[c].op = "advance" =>
    "COMMITTED" = AuthorizeTransition(
      [from_state |-> seen[c].state, to_state |-> call[c].to, command |-> call[c].command,
       expected_run_version |-> seen[c].version],
      tx.state, tx.version,
      [mandatory_criterion_ids |-> {}, criterion_evaluations |-> <<>>,
       integration_status |-> "COMPLETED", post_integration_checks_passed |-> TRUE])

\* Mutant: the new version is computed from the one read before the
\* transaction.
UpdateFromRead(c) ==
  /\ pc[c] = "mutate" /\ call[c].op # "run"
  /\ Authorized(c)
  /\ tx' = [tx EXCEPT !.state = TargetState(call[c]), !.version = seen[c].version + 1]
  /\ GoTo(c, IF call[c].op \in Journalled THEN "journal" ELSE "commit")
  /\ UNCHANGED <<db, writer, call, calls, seen, sequence, result>>

UpdateRun(c) ==
  /\ pc[c] = "mutate" /\ call[c].op # "run"
  /\ Authorized(c)
  /\ tx' = [tx EXCEPT !.state = TargetState(call[c]), !.version = @ + 1]
  /\ GoTo(c, IF call[c].op \in Journalled THEN "journal" ELSE "commit")
  /\ UNCHANGED <<db, writer, call, calls, seen, sequence, result>>

RefuseUpdate(c) ==
  /\ pc[c] = "mutate" /\ ~ Authorized(c)
  /\ Rollback(c, "REFUSED")

\* Mutants: the sequence is not compared; the cause is not looked up; the
\* event id is no key.
FitsAnySequence(c) ==
  /\ \A r \in Runs : call[c].id \notin EventIds(db[r].events)
  /\ call[c].cause # NoCause =>
       sequence[c] # 1 /\ call[c].cause \in EventIds(tx.events)

FitsAnyCause(c) ==
  /\ sequence[c] = LastSequence(tx.events) + 1
  /\ \A r \in Runs : call[c].id \notin EventIds(db[r].events)

FitsWithoutKey(c) ==
  /\ sequence[c] = LastSequence(tx.events) + 1
  /\ call[c].cause # NoCause =>
       sequence[c] # 1 /\ call[c].cause \in EventIds(tx.events)

\* mutate_with_event's checks of the event against the journal, and the
\* PRIMARY KEY of the events table.
EventFits(c) ==
  /\ sequence[c] = LastSequence(tx.events) + 1
  /\ \A r \in Runs : call[c].id \notin EventIds(db[r].events)
  /\ call[c].cause # NoCause =>
       sequence[c] # 1 /\ call[c].cause \in EventIds(tx.events)

InsertEvent(c) ==
  /\ pc[c] = "journal" /\ EventFits(c)
  /\ tx' = [tx EXCEPT !.events = Append(@,
              [id |-> call[c].id, sequence |-> sequence[c], cause |-> call[c].cause])]
  /\ GoTo(c, "commit")
  /\ UNCHANGED <<db, writer, call, calls, seen, sequence, result>>

RefuseEvent(c) ==
  /\ pc[c] = "journal" /\ ~ EventFits(c)
  /\ Rollback(c, FailureCode(c))

\* Mutant: the connection is closed without COMMIT.
CommitForgotten(c) ==
  /\ pc[c] = "commit"
  /\ EndTx
  /\ GoTo(c, "report")
  /\ UNCHANGED <<db, call, calls, seen, sequence, result>>

Commit(c) ==
  /\ pc[c] = "commit"
  /\ db' = [db EXCEPT ![call[c].run] = tx]
  /\ EndTx
  /\ GoTo(c, "report")
  /\ UNCHANGED <<call, calls, seen, sequence, result>>

\* Mutant: a code that is not in the registry.
UnregisteredCode(op) ==
  CASE op = "run"    -> "CLI_RUN_CREATED"
    [] op = "reject" -> "CLI_REJECTED"
    [] op = "cancel" -> "CLI_CANCELLED"
    [] OTHER         -> "COMMITTED"

SuccessCode(op) ==
  CASE op = "run"    -> "CLI_RUN_CREATED"
    [] op = "reject" -> "CLI_REJECTED"
    [] op = "cancel" -> "TOOL_CANCELLED"
    [] OTHER         -> "COMMITTED"

Report(c) ==
  /\ pc[c] = "report"
  /\ Finish(c, SuccessCode(call[c].op))
  /\ UNCHANGED <<db, writer, tx, call, calls, seen, sequence>>

-----------------------------------------------------------------------------
(* Failures.                                                                *)

\* A statement of the transaction fails (disk full, I/O error): rolled back
\* by mutate_with_event, or by the exit of the process.
StatementFails(c) ==
  /\ pc[c] \in InTx
  /\ Rollback(c, FailureCode(c))

\* The process dies; SQLite drops what it had not committed.
Crash(c) ==
  /\ pc[c] # "idle"
  /\ IF writer = c THEN EndTx ELSE UNCHANGED <<writer, tx>>
  /\ Finish(c, "CRASHED")
  /\ UNCHANGED <<db, call, calls, seen, sequence>>

-----------------------------------------------------------------------------

Step(c) ==
  \/ Open(c) \/ Busy(c) \/ GetRun(c) \/ ReadSequence(c)
  \/ BeginImmediate(c) \/ InsertGoal(c) \/ InsertRun(c)
  \/ UpdateRun(c) \/ RefuseUpdate(c) \/ InsertEvent(c) \/ RefuseEvent(c)
  \/ Commit(c) \/ Report(c)

Next == \E c \in Clients :
  \/ \E op \in Ops, r \in Runs : Invoke(c, op, r)
  \/ Step(c)
  \/ StatementFails(c)
  \/ Crash(c)

Spec == Init /\ [][Next]_vars

\* The operating system keeps running every process; nobody owes a call.
FairSpec == Spec /\ \A c \in Clients : WF_vars(Step(c))

-----------------------------------------------------------------------------
(* Properties.                                                              *)

Codes == {"none", "CRASHED", "UNCAUGHT", "REFUSED", "COMMITTED", "CLI_RUN_CREATED",
          "CLI_REJECTED", "TOOL_CANCELLED", "CLI_INVALID_USAGE", "PERSIST_CORRUPT"}
         \union UNION { ReadAnswers(op, s) : op \in AllOps, s \in States \union {NoRow} }

Events == [id : Ids, sequence : Nat \ {0}, cause : Ids \union {NoCause}]
Rows == [goal : BOOLEAN, state : States \union {NoRow}, version : Nat,
         events : Seq(Events)]
Calls == [op : AllOps, run : Runs, id : Ids, command : Commands, to : States,
          cause : Ids \union {NoCause}]

TypeOK ==
  /\ db \in [Runs -> Rows] /\ tx \in Rows
  /\ writer \in Clients \union {NoClient}
  /\ pc \in [Clients -> InTx \union
               {"idle", "open", "select", "sequence", "begin", "report"}]
  /\ call \in [Clients -> Calls]
  /\ calls \in [Clients -> 0..MaxCalls]
  /\ seen \in [Clients -> [state : States \union {NoRow}, version : Nat]]
  /\ sequence \in [Clients -> Nat]
  /\ result \in [Clients -> Codes]

\* mutate_with_event and run: whatever fails or races between its statements,
\* a command takes effect as one step of the ledger or not at all.
ImplementsLedger == Ledger!Spec

\* INV-EVENT-001/002: the journal of a run is numbered 1, 2, ... without gaps
\* or duplicates, although sequences are computed outside the transaction.
Gapless ==
  \A r \in Runs : \A i \in DOMAIN db[r].events : db[r].events[i].sequence = i

\* No event is recorded twice, in its run or another, although a runtime that
\* lost an answer sends its event again.
NoEventTwice ==
  \A r, s \in Runs : \A i \in DOMAIN db[r].events, j \in DOMAIN db[s].events :
    db[r].events[i].id = db[s].events[j].id => r = s /\ i = j

\* Causation points backwards within the run: no event names as its cause an
\* event of another run, itself or a later one.
CausesPrecede ==
  \A r \in Runs : \A i \in DOMAIN db[r].events :
    \/ db[r].events[i].cause = NoCause
    \/ \E j \in 1..(i - 1) : db[r].events[j].id = db[r].events[i].cause

\* What a process reports is true of the database: a cancellation or an
\* advance reported done is in the journal, one reported failed left no event
\* (its own, not one it sent again), and a run reported created exists.
JournalledIds == UNION { EventIds(db[r].events) : r \in Runs }
TruthfulReports ==
  \A c \in Clients : pc[c] = "idle" =>
    /\ result[c] \in {"TOOL_CANCELLED", "COMMITTED"} => call[c].id \in JournalledIds
    /\ call[c].id = <<c, calls[c]>> /\ call[c].id \in JournalledIds =>
         result[c] \in {"TOOL_CANCELLED", "COMMITTED", "CRASHED"}
    /\ result[c] = "CLI_RUN_CREATED" => db[call[c].run].state # NoRow

\* The embedding runtime commits only against the very row it decided on.
AdvanceIsFresh ==
  [][\A c \in Clients :
       (pc[c] = "commit" /\ pc'[c] = "report" /\ call[c].op = "advance") =>
         LET row == db[call[c].run] IN
         /\ seen[c] = [state |-> row.state, version |-> row.version]
         /\ IsValidTransition(row.state, call[c].command, call[c].to)]_vars

\* Every command ends, and leaves the write lock free for the others, unless
\* its process keeps making calls: timeouts and rollbacks see to it.
EveryCallEnds ==
  \A c \in Clients : pc[c] # "idle" ~> (pc[c] = "idle" /\ writer # c)

-----------------------------------------------------------------------------
(* What the Blueprint says and the code does not do.                        *)

\* Blueprint 9.8.4: REJECTED, ACCEPTED and FAILED are terminal.
TerminalStays ==
  [][\A r \in Runs : (db[r].state \in TerminalStates) => db'[r].state = db[r].state]_db

=============================================================================
