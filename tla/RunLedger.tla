----------------------------- MODULE RunLedger -----------------------------
(***************************************************************************)
(* What the run database promises, with every command a single step: runs  *)
(* are created whole, a move and its event are recorded together, an event *)
(* gets the next sequence number of its run, is recorded once and names as *)
(* its cause an earlier event of that run.  RunStore, where a command is   *)
(* many statements of a process that may fail, implements this             *)
(* specification.                                                          *)
(***************************************************************************)
EXTENDS StateMachine

CONSTANTS Runs,  \* run identities
          Ids    \* event identities

VARIABLE db      \* run -> its goal, its row and its events, as committed

NoCause == <<>>   \* None: the event has no cause
NoRow == "none"
Absent == [goal |-> FALSE, state |-> NoRow, version |-> 0, events |-> <<>>]
Created == [goal |-> TRUE, state |-> "CREATED", version |-> 0, events |-> <<>>]

EventIds(events) == { events[i].id : i \in DOMAIN events }
AllEventIds == UNION { EventIds(db[r].events) : r \in Runs }

Init == db = [r \in Runs |-> Absent]

Create(r) ==
  /\ db[r] = Absent
  /\ db' = [db EXCEPT ![r] = Created]

\* A move of an existing run together with its event.
Record(r, to, id, cause) ==
  /\ db[r].state # NoRow
  /\ id \notin AllEventIds
  /\ db' = [db EXCEPT ![r] =
       [goal |-> db[r].goal, state |-> to, version |-> db[r].version + 1,
        events |-> Append(db[r].events,
          [id |-> id, sequence |-> Len(db[r].events) + 1, cause |-> cause])]]

\* Advancing takes a transition of the state machine; a cancellation
\* interrupts whatever the state has become.
Advance(r, id) ==
  /\ db[r].state # NoRow
  /\ \E to \in Successors[db[r].state] :
     \E cause \in EventIds(db[r].events) \union {NoCause} : Record(r, to, id, cause)

Interrupt(r, id) == Record(r, "INTERRUPTED", id, NoCause)

\* The operator's rejection is the one move that leaves no event.
Reject(r) ==
  /\ db[r].state # NoRow
  /\ db' = [db EXCEPT ![r].state = "REJECTED", ![r].version = @ + 1]

Next == \E r \in Runs :
  \/ Create(r)
  \/ Reject(r)
  \/ \E id \in Ids : Advance(r, id) \/ Interrupt(r, id)

Spec == Init /\ [][Next]_db
=============================================================================
