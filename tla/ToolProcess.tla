---------------------------- MODULE ToolProcess ----------------------------
(***************************************************************************)
(* execute_process and _terminate_process_tree (_tool_protocol.py) against *)
(* the process tree they start: processes fork, exit, close their pipes,   *)
(* ignore SIGTERM or leave the process group.  subprocess and the kernel   *)
(* are external: a pipe is at its end, or broken, once nobody holds its    *)
(* other side.                                                             *)
(***************************************************************************)
EXTENDS Naturals

CONSTANTS Procs, Leader,  \* the processes of the tree, the one Popen starts
          Stubborn,       \* those that ignore SIGTERM
          Detached,       \* those that may leave the process group
          Timeout,        \* a timeout_ms is given
          Stdins          \* what a call may pass as stdin: "none", "fits" in
                          \* the pipe's buffer, or "exceeds" it

ASSUME ToolProcessAssumption ==
  /\ Leader \in Procs \ Detached /\ Stubborn \subseteq Procs /\ Detached \subseteq Procs
  /\ Timeout \in BOOLEAN /\ Stdins \subseteq {"none", "fits", "exceeds"}

VARIABLES
  alive,      \* the processes that run
  started,    \* the processes that have been started
  group,      \* those started in the leader's process group and still in it
  signalled,  \* those a signal will end
  reached,    \* history: those that ran in the group when SIGTERM was sent
  inputs,     \* those that hold the read end of stdin
  outputs,    \* those that hold the write end of stdout or stderr
  stdin,      \* what is passed as stdin
  reading,    \* somebody reads what exceeds the buffer
  phase,      \* where execute_process is
  expired,    \* the deadline has passed
  cancel,     \* cancel() returns True
  grace,      \* the two seconds of proc.wait have passed
  status      \* the ToolStatus of the result

processVars == <<alive, started, group, signalled, reached, inputs, outputs, stdin,
                 reading, phase, expired, cancel, grace, status>>
members == <<alive, started, group>>
signals == <<signalled, reached>>
pipes == <<inputs, outputs, stdin, reading>>
clock == <<expired, cancel, grace>>

ProcessInit ==
  /\ alive = {} /\ started = {} /\ group = {} /\ signalled = {} /\ reached = {}
  /\ inputs = {} /\ outputs = {} /\ stdin \in Stdins /\ reading = FALSE
  /\ phase = "spawn" /\ status = "none"
  /\ expired = FALSE /\ cancel = FALSE /\ grace = FALSE

AnswerCall(code) == phase' = "answered" /\ status' = code

-----------------------------------------------------------------------------
(* The tree, the clock and the operator.                                    *)

\* A child is in its parent's group and holds what its parent holds.  A process
\* with a signal pending forks no more (fork is restarted after it).
Fork(q, p) ==
  /\ q \in alive \ signalled /\ p \notin started
  /\ alive' = alive \union {p} /\ started' = started \union {p}
  /\ group' = IF q \in group THEN group \union {p} ELSE group
  /\ inputs' = IF q \in inputs THEN inputs \union {p} ELSE inputs
  /\ outputs' = IF q \in outputs THEN outputs \union {p} ELSE outputs
  /\ UNCHANGED <<signals, stdin, reading, phase, clock, status>>

Exit(p) ==
  /\ p \in alive
  /\ alive' = alive \ {p} /\ inputs' = inputs \ {p} /\ outputs' = outputs \ {p}
  /\ UNCHANGED <<started, group, signals, stdin, reading, phase, clock, status>>

Die(p) == p \in signalled /\ Exit(p)

\* setsid: a daemon leaves the group.
Leave(p) ==
  /\ p \in Detached \intersect alive \intersect group
  /\ group' = group \ {p}
  /\ UNCHANGED <<alive, started, signals, pipes, phase, clock, status>>

\* A process closes its end of a pipe or redirects it.
CloseInput(p) ==
  /\ p \in inputs /\ inputs' = inputs \ {p}
  /\ UNCHANGED <<members, signals, outputs, stdin, reading, phase, clock, status>>
CloseOutput(p) ==
  /\ p \in outputs /\ outputs' = outputs \ {p}
  /\ UNCHANGED <<members, signals, inputs, stdin, reading, phase, clock, status>>

ReadInput ==
  /\ phase = "stdin" /\ stdin = "exceeds" /\ inputs # {} /\ ~ reading
  /\ reading' = TRUE
  /\ UNCHANGED <<members, signals, inputs, outputs, stdin, phase, clock, status>>

\* The deadline is computed after stdin has been written.
DeadlinePasses ==
  /\ Timeout /\ phase \notin {"spawn", "stdin"} /\ ~ expired /\ expired' = TRUE
  /\ UNCHANGED <<members, signals, pipes, phase, cancel, grace, status>>

GracePasses ==
  /\ phase = "wait" /\ ~ grace /\ grace' = TRUE
  /\ UNCHANGED <<members, signals, pipes, phase, expired, cancel, status>>

Cancel ==
  /\ ~ cancel /\ cancel' = TRUE
  /\ UNCHANGED <<members, signals, pipes, phase, expired, grace, status>>

-----------------------------------------------------------------------------
(* execute_process.                                                         *)

Spawn ==
  /\ phase = "spawn"
  /\ \/ /\ alive' = {Leader} /\ started' = {Leader} /\ group' = {Leader}
        /\ outputs' = {Leader}
        /\ inputs' = IF stdin = "none" THEN {} ELSE {Leader}
        /\ phase' = IF stdin = "none" THEN "poll" ELSE "stdin"
        /\ UNCHANGED status
     \/ AnswerCall("FAILURE") /\ UNCHANGED <<members, inputs, outputs>>
  /\ UNCHANGED <<signals, stdin, reading, clock>>

\* What exceeds the buffer blocks until somebody reads it; a pipe nobody holds
\* any more is a BrokenPipeError, an OSError, and the tree is left as it is.
WriteStdin ==
  /\ phase = "stdin"
  /\ \/ /\ inputs # {} /\ (stdin = "fits" \/ reading)
        /\ phase' = "poll" /\ UNCHANGED status
     \/ inputs = {} /\ AnswerCall("FAILURE")
  /\ UNCHANGED <<members, signals, pipes, clock>>

\* communicate returns once the output pipes are closed and the leader is dead.
EndOfFile == outputs = {} /\ Leader \notin alive

Poll ==
  /\ phase = "poll" /\ EndOfFile
  /\ \E code \in {"SUCCESS", "FAILURE"} : AnswerCall(code)
  /\ UNCHANGED <<members, signals, pipes, clock>>

\* Mutant of StopTree: the leader alone is signalled.
StopLeader ==
  /\ phase = "poll" /\ (cancel \/ expired)
  /\ status' = IF cancel THEN "CANCELLED" ELSE "TIMEOUT"
  /\ reached' = alive \intersect group
  /\ signalled' = signalled \union ((alive \intersect {Leader}) \ Stubborn)
  /\ phase' = "wait"
  /\ UNCHANGED <<members, pipes, clock>>

\* communicate timed out: cancellation is looked at before the deadline.
StopTree ==
  /\ phase = "poll" /\ (cancel \/ expired)
  /\ status' = IF cancel THEN "CANCELLED" ELSE "TIMEOUT"
  /\ reached' = alive \intersect group
  /\ signalled' = signalled \union (reached' \ Stubborn)
  /\ phase' = "wait"
  /\ UNCHANGED <<members, pipes, clock>>

\* The leader is waited for, then killed, and nobody else is.
LeaderGone ==
  /\ phase = "wait" /\ Leader \notin alive
  /\ phase' = "answered"
  /\ UNCHANGED <<members, signals, pipes, clock, status>>

\* Mutant of Kill: SIGTERM once more.
Terminate ==
  /\ phase = "wait" /\ grace /\ Leader \in alive
  /\ signalled' = signalled \union ({Leader} \ Stubborn)
  /\ phase' = "collect"
  /\ UNCHANGED <<members, reached, pipes, clock, status>>

Kill ==
  /\ phase = "wait" /\ grace /\ Leader \in alive
  /\ signalled' = signalled \union {Leader}
  /\ phase' = "collect"
  /\ UNCHANGED <<members, reached, pipes, clock, status>>

\* _process_result: a leader not yet seen dead is communicated with again, now
\* without a timeout.
Collect ==
  /\ phase = "collect"
  /\ phase' = IF Leader \in alive THEN "drain" ELSE "answered"
  /\ UNCHANGED <<members, signals, pipes, clock, status>>

Drain ==
  /\ phase = "drain" /\ EndOfFile
  /\ phase' = "answered"
  /\ UNCHANGED <<members, signals, pipes, clock, status>>

Call == Spawn \/ WriteStdin \/ Poll \/ StopTree \/ LeaderGone \/ Kill \/ Collect \/ Drain

ProcessNext ==
  \/ Call \/ DeadlinePasses \/ GracePasses \/ Cancel \/ ReadInput
  \/ \E p, q \in Procs : Fork(q, p)
  \/ \E p \in Procs : Exit(p) \/ Leave(p) \/ CloseInput(p) \/ CloseOutput(p)

\* The caller is scheduled, time passes and a process that a signal ends does
\* end; nobody makes a process exit, read or close by itself.
ProcessSpec ==
  /\ ProcessInit /\ [][ProcessNext]_processVars
  /\ WF_processVars(Call) /\ WF_processVars(DeadlinePasses) /\ WF_processVars(GracePasses)
  /\ \A p \in Procs : WF_processVars(Die(p))

-----------------------------------------------------------------------------
(* Properties.                                                              *)

\* The two places where execute_process waits without a deadline: for a reader
\* of stdin (line 286), and after the kill for the end of pipes that somebody
\* other than the leader holds whom no signal ends (line 318).
Unread == phase = "stdin" /\ stdin = "exceeds" /\ inputs # {} /\ ~ reading
HeldOpen == phase = "drain" /\ (outputs \ {Leader}) \ signalled # {}

\* Whatever the tree does, a call with a timeout is answered in the end, unless
\* nobody ever reads what exceeds the pipe or, the leader killed, a descendant
\* that no signal ends keeps the output open for ever (9.14.6 has no such case).
\* A leader that ignores SIGTERM, a descendant that holds the pipes while the
\* leader is dead, and a daemon keep no call from ending otherwise.
CallEnds == <>[](phase = "answered" \/ Unread \/ HeldOpen)

\* A TIMEOUT or CANCELLED answer leaves nobody of the group unsent: of the
\* processes that ran in it when the call was stopped, those that still run are
\* ended by a signal, or are descendants that ignore SIGTERM.  Those, what left
\* the group before and what is forked later go unreported, against 9.14.6.
TerminationReported ==
  (phase = "answered" /\ status \in {"TIMEOUT", "CANCELLED"}) =>
    (alive \intersect reached) \ signalled \subseteq Stubborn \ {Leader}
=============================================================================
