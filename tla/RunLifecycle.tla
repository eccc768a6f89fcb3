---------------------------- MODULE RunLifecycle ----------------------------
(***************************************************************************)
(* One run and the requesters that move it through StateMachine v1.  A     *)
(* requester prepares a TransitionCommand (or a resume) from what it sees, *)
(* carrying expected_run_version and the evidence it saw; the command is   *)
(* decided later by authorize_transition (authorize_resume) against the    *)
(* live row.  The decision is the code's; applying its effects, editing    *)
(* the candidate and producing evidence is the runtime around it, which    *)
(* the repository describes (state_machine.yaml, authorize_transition's    *)
(* docstring) but does not contain.                                        *)
(***************************************************************************)
EXTENDS StateMachine

CONSTANTS Requesters,    \* the actors that submit requests
          Criteria,      \* the mandatory acceptance criteria
          UsedCommands,  \* state -> commands requesters issue in it (a bound on a run)
          UsedStatuses,  \* the criterion statuses evaluations yield (likewise)
          MaxVersion,    \* bound on run_version (it counts transitions)
          MaxCandidate   \* bound on candidate snapshots

Statuses == {"SATISFIED", "UNSATISFIED", "INCONCLUSIVE", "WAIVED"}

ASSUME BoundsAssumption ==
  /\ MaxVersion \in Nat /\ MaxCandidate \in Nat
  /\ UsedCommands \in [States -> SUBSET Commands] /\ UsedStatuses \subseteq Statuses

VARIABLES
  state, version,   \* the runs row: state and run_version
  resumeTarget,     \* its resume_target_state
  checkpoint,       \* state of the last checkpoint that is safe to resume to
  candidate,        \* number of the current candidate snapshot
  evidence,         \* criterion -> latest evaluation and the candidate it is about
  integration,      \* the integration attempt: outcome and candidate landed
  pending,          \* requester -> request prepared and not yet decided
  proven,           \* recovery conditions proven since the state was entered
  reviewed,         \* history: candidates a review_passed vouched for
  reconciled,       \* history: candidates created by a reconciliation
  drifted,          \* history: a drift was recorded and not yet reconciled
  recovered         \* history: a drifted run was given to recovery

vars == <<state, version, resumeTarget, checkpoint, candidate, evidence,
          integration, pending, proven, reviewed, reconciled, drifted, recovered>>
row == <<state, version, resumeTarget, checkpoint>>
work == <<candidate, evidence, integration>>
history == <<reviewed, reconciled, drifted, recovered>>

NoRequest == [kind |-> "none"]
Conditions == UNION { RequiredConditions(s) : s \in RecoverableSourceStates }
\* A disposition is recorded for an integration conflict, and only for one.
Dispositions(s) ==
  IF s = "INTEGRATION_CONFLICT" THEN DOMAIN DispositionTarget ELSE {NoTarget}

Init ==
  /\ state = "CREATED" /\ version = 0
  /\ resumeTarget = NoTarget
  /\ checkpoint = NoTarget
  /\ candidate = 0
  /\ evidence = [k \in Criteria |-> [status |-> "INCONCLUSIVE", candidate |-> 0]]
  /\ integration = [status |-> "NONE", candidate |-> 0]
  /\ pending = [r \in Requesters |-> NoRequest]
  /\ reviewed = {}
  /\ proven = {}
  /\ reconciled = {} /\ drifted = FALSE /\ recovered = FALSE

-----------------------------------------------------------------------------
(* What a requester sees when it prepares a request.                        *)

\* Criterion evaluations over current evidence: an evaluation about another
\* candidate is stale and counts as INCONCLUSIVE.
CurrentEvaluations ==
  [k \in Criteria |-> IF evidence[k].candidate = candidate
                      THEN evidence[k].status ELSE "INCONCLUSIVE"]

GuardContext ==
  [mandatory_criterion_ids |-> Criteria,
   criterion_evaluations |-> CurrentEvaluations,
   integration_status |-> integration.status,
   post_integration_checks_passed |-> integration.candidate = candidate]

PrepareTransition(r, command, to) ==
  /\ pending[r] = NoRequest
  /\ IsValidTransition(state, command, to)
  /\ pending' = [pending EXCEPT ![r] =
       [kind |-> "transition", from_state |-> state, to_state |-> to,
        command |-> command, expected_run_version |-> version,
        context |-> GuardContext, candidate |-> candidate]]
  /\ UNCHANGED <<row, work, proven, history>>

PrepareResume(r, disposition) ==
  /\ pending[r] = NoRequest
  /\ state \in RecoverableSourceStates
  /\ pending' = [pending EXCEPT ![r] =
       [kind |-> "resume", expected_run_version |-> version,
        disposition |-> disposition]]
  /\ UNCHANGED <<row, work, proven, history>>

-----------------------------------------------------------------------------
(* The canonical effects of a committed decision.                           *)

MoveTo(to) ==
  /\ version < MaxVersion
  /\ state' = to
  /\ version' = version + 1
  /\ checkpoint' = IF to \in RecoverableSourceStates THEN checkpoint ELSE to
  /\ proven' = {}
  /\ drifted' = (drifted \/ to = "RECONCILIATION_REQUIRED")
  /\ recovered' = (recovered \/ (drifted /\ to = "RECOVERY_REQUIRED"))

\* A transition into a recoverable state persists the state it leaves as
\* resume_target_state.
CommitTransition(r) ==
  LET req == pending[r] IN
  /\ req.kind = "transition"
  /\ AuthorizeTransition(req, state, version, req.context) = "COMMITTED"
  /\ MoveTo(req.to_state)
  /\ resumeTarget' = IF req.to_state \in RecoverableSourceStates
                     THEN state ELSE resumeTarget
  /\ evidence' = IF InvalidationRule(req.from_state, req.command) = "INV-VERIFY-002"
                 THEN [k \in Criteria |-> [evidence[k] EXCEPT !.status = "INCONCLUSIVE"]]
                 ELSE evidence
  /\ reviewed' = IF req.command = "review_passed"
                 THEN reviewed \union {req.candidate} ELSE reviewed
  /\ pending' = [pending EXCEPT ![r] = NoRequest]
  /\ UNCHANGED <<candidate, integration, reconciled>>

RejectTransition(r) ==
  LET req == pending[r] IN
  /\ req.kind = "transition"
  /\ AuthorizeTransition(req, state, version, req.context) # "COMMITTED"
  /\ pending' = [pending EXCEPT ![r] = NoRequest]
  /\ UNCHANGED <<row, work, proven, history>>

ResumeAnswer(req) ==
  AuthorizeResume(state, version, req.expected_run_version,
                  ResumeTarget(state, resumeTarget, checkpoint, req.disposition),
                  proven)

CommitResume(r) ==
  LET req == pending[r] IN
  /\ req.kind = "resume"
  /\ ResumeAnswer(req) = "COMMITTED"
  /\ MoveTo(ResumeTarget(state, resumeTarget, checkpoint, req.disposition))
  /\ pending' = [pending EXCEPT ![r] = NoRequest]
  /\ UNCHANGED <<resumeTarget, work, reviewed, reconciled>>

RejectResume(r) ==
  LET req == pending[r] IN
  /\ req.kind = "resume"
  /\ ResumeAnswer(req) # "COMMITTED"
  /\ pending' = [pending EXCEPT ![r] = NoRequest]
  /\ UNCHANGED <<row, work, proven, history>>

-----------------------------------------------------------------------------
(* The runtime's own work between transitions.                              *)

EditCandidate ==
  /\ state = "IMPLEMENTING" /\ candidate < MaxCandidate
  /\ candidate' = candidate + 1
  /\ UNCHANGED <<row, evidence, integration, pending, proven, history>>

Evaluate(k, status) ==
  /\ state \in {"VERIFYING_FOCUSED", "VERIFYING_BROAD", "INTENT_REVIEW"}
  /\ evidence' = [evidence EXCEPT ![k] = [status |-> status, candidate |-> candidate]]
  /\ UNCHANGED <<row, candidate, integration, pending, proven, history>>

Integrate ==
  /\ state = "ACCEPTING"
  /\ integration' = [status |-> "COMPLETED", candidate |-> candidate]
  /\ UNCHANGED <<row, candidate, evidence, pending, proven, history>>

\* RECONCILIATION_REQUIRED: a new reconciled snapshot is created and the
\* evidence about the old one is explicitly invalidated.
Reconcile ==
  /\ state = "RECONCILIATION_REQUIRED" /\ candidate < MaxCandidate
  /\ candidate' = candidate + 1
  /\ reconciled' = reconciled \union {candidate + 1}
  /\ evidence' = [k \in Criteria |-> [evidence[k] EXCEPT !.status = "INCONCLUSIVE"]]
  /\ proven' = RequiredConditions(state)
  /\ drifted' = FALSE /\ recovered' = FALSE
  /\ UNCHANGED <<row, integration, pending, reviewed>>

\* Every other recovery proves its conditions without touching the candidate.
ProveConditions ==
  /\ state \in RecoverableSourceStates \ {"RECONCILIATION_REQUIRED"}
  /\ proven = {}
  /\ proven' = RequiredConditions(state)
  /\ UNCHANGED <<row, work, pending, history>>

Next ==
  \/ \E r \in Requesters :
       \/ \E command \in UsedCommands[state], to \in States : PrepareTransition(r, command, to)
       \/ \E d \in Dispositions(state) : PrepareResume(r, d)
       \/ CommitTransition(r)
       \/ RejectTransition(r)
       \/ CommitResume(r)
       \/ RejectResume(r)
  \/ EditCandidate
  \/ \E k \in Criteria, s \in UsedStatuses : Evaluate(k, s)
  \/ Integrate
  \/ Reconcile
  \/ ProveConditions

Spec == Init /\ [][Next]_vars

-----------------------------------------------------------------------------
(* Properties.                                                              *)

GuardContexts ==
  [mandatory_criterion_ids : {Criteria}, criterion_evaluations : [Criteria -> Statuses],
   integration_status : {"NONE", "COMPLETED"}, post_integration_checks_passed : BOOLEAN]

Requests ==
  {NoRequest}
    \union [kind : {"transition"}, from_state : States, to_state : States,
            command : Commands, expected_run_version : 0..MaxVersion,
            context : GuardContexts, candidate : 0..MaxCandidate]
    \union [kind : {"resume"}, expected_run_version : 0..MaxVersion,
            disposition : DOMAIN DispositionTarget \union {NoTarget}]

TypeOK ==
  /\ state \in States
  /\ version \in 0..MaxVersion
  /\ resumeTarget \in States \union {NoTarget}
  /\ checkpoint \in States \union {NoTarget}
  /\ candidate \in 0..MaxCandidate
  /\ evidence \in [Criteria -> [status : Statuses, candidate : 0..MaxCandidate]]
  /\ integration \in [status : {"NONE", "COMPLETED"}, candidate : 0..MaxCandidate]
  /\ pending \in [Requesters -> Requests]
  /\ proven \subseteq Conditions
  /\ reviewed \subseteq 0..MaxCandidate
  /\ reconciled \subseteq 0..MaxCandidate
  /\ drifted \in BOOLEAN /\ recovered \in BOOLEAN

PastReview == {"READY_FOR_USER", "ACCEPTING", "ACCEPTED"}

\* Outside reconciliation no candidate is ready for the user, being accepted
\* or accepted unless a review_passed vouched for that very candidate: an old
\* request, prepared for a candidate since repaired, must not open the gate
\* (optimistic concurrency in authorize_transition).
ReviewedUnlessReconciled ==
  state \in PastReview => candidate \in reviewed \union reconciled

\* An accepted run landed the candidate it holds: the integration its
\* integration_verified vouched for is complete and about this candidate.
AcceptedIsIntegrated ==
  state = "ACCEPTED" => integration = [status |-> "COMPLETED", candidate |-> candidate]

\* A run whose destination or identity drifted does not work on until a new
\* snapshot reconciled it, however often it is blocked, interrupted or sent to
\* reconciliation again -- unless it was given to recovery meanwhile:
\* RECOVERY_REQUIRED resumes to the last checkpoint, past the reconciliation
\* still due.  That is the relation's one way past it.
DriftReconciled ==
  drifted /\ ~ recovered => state \notin ForwardStates \union {"ACCEPTED"}

\* A terminal run never moves again, whatever requests were prepared before.
TerminalAbsorbing == [][(state \in TerminalStates) => UNCHANGED row]_row
=============================================================================
