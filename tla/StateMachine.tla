---------------------------- MODULE StateMachine ----------------------------
(***************************************************************************)
(* The canonical run state machine: the data of                            *)
(* contracts/state_machine.yaml and the decision functions of              *)
(* _state_machine.py that consult it.  Everything here is a constant-level *)
(* operator: the code decides, its callers apply the decision.             *)
(***************************************************************************)
EXTENDS Integers, Sequences

ForwardStates ==
  {"CREATED", "REPOSITORY_READY", "GOAL_BOUND", "RECONNAISSANCE", "PLAN_READY",
   "IMPLEMENTING", "VERIFYING_FOCUSED", "VERIFYING_BROAD", "INTENT_REVIEW",
   "READY_FOR_USER", "ACCEPTING"}

TerminalStates == {"ACCEPTED", "REJECTED", "FAILED"}

RecoverableSourceStates ==
  {"BLOCKED", "INTERRUPTED", "RECOVERY_REQUIRED", "RECONCILIATION_REQUIRED",
   "INTEGRATION_CONFLICT"}

States == ForwardStates \union TerminalStates \union RecoverableSourceStates

\* A row <<from, command, to>> of forward_transitions.
ForwardTransitions ==
  { <<"CREATED", "bind_repository", "REPOSITORY_READY">>,
    <<"REPOSITORY_READY", "bind_goal", "GOAL_BOUND">>,
    <<"GOAL_BOUND", "begin_reconnaissance", "RECONNAISSANCE">>,
    <<"RECONNAISSANCE", "finalize_plan", "PLAN_READY">>,
    <<"PLAN_READY", "begin_implementation", "IMPLEMENTING">>,
    <<"IMPLEMENTING", "begin_focused_verification", "VERIFYING_FOCUSED">>,
    <<"VERIFYING_FOCUSED", "focused_passed", "VERIFYING_BROAD">>,
    <<"VERIFYING_FOCUSED", "repair", "IMPLEMENTING">>,
    <<"VERIFYING_BROAD", "broad_passed", "INTENT_REVIEW">>,
    <<"VERIFYING_BROAD", "repair", "IMPLEMENTING">>,
    <<"INTENT_REVIEW", "review_passed", "READY_FOR_USER">>,
    <<"INTENT_REVIEW", "repair", "IMPLEMENTING">>,
    <<"READY_FOR_USER", "accept", "ACCEPTING">>,
    <<"READY_FOR_USER", "reject", "REJECTED">>,
    <<"ACCEPTING", "integration_verified", "ACCEPTED">>,
    <<"ACCEPTING", "integration_conflict", "INTEGRATION_CONFLICT">>,
    <<"ACCEPTING", "destination_drift", "RECONCILIATION_REQUIRED">> }

\* An entry <<command, to>> of exceptional_transitions (from ANY_NONTERMINAL).
ExceptionalTransitions ==
  { <<"block", "BLOCKED">>, <<"interrupt", "INTERRUPTED">>,
    <<"require_recovery", "RECOVERY_REQUIRED">>,
    <<"require_reconciliation", "RECONCILIATION_REQUIRED">>,
    <<"fail", "FAILED">> }

Commands == { row[2] : row \in ForwardTransitions }
              \union { row[1] : row \in ExceptionalTransitions }

\* Mutant: exceptional entries taken from any state, terminal ones too.
ExceptionalFromAnyState(from, command, to) ==
  /\ from \in States /\ to \in States
  /\ \/ <<from, command, to>> \in ForwardTransitions
     \/ /\ <<command, to>> \in ExceptionalTransitions
        /\ ~ \E s \in States : <<from, command, s>> \in ForwardTransitions

\* INV-STATE-001's predicate: a forward row for (from, command) decides alone;
\* otherwise a nonterminal state may take an exceptional entry.
IsValidTransition(from, command, to) ==
  /\ from \in States /\ to \in States
  /\ \/ <<from, command, to>> \in ForwardTransitions
     \/ /\ <<command, to>> \in ExceptionalTransitions
        /\ from \notin TerminalStates
        /\ ~ \E s \in States : <<from, command, s>> \in ForwardTransitions

\* The states some command may move a run to.
Successors == [from \in States |->
  { to \in States : \E command \in Commands : IsValidTransition(from, command, to) }]

-----------------------------------------------------------------------------
(* The two hard gates.  A guard context is a dict: a function whose domain  *)
(* is the set of keys the caller supplied.                                  *)

InvState002(mandatory, evaluations) ==
  \A id \in mandatory :
    /\ id \in DOMAIN evaluations
    /\ evaluations[id] \in {"SATISFIED", "WAIVED"}

\* Mutant: the post-integration checks are not asked for.
CompletedSuffices(status, checksPassed) == status = "COMPLETED"

InvAccept001(status, checksPassed) == status = "COMPLETED" /\ checksPassed

GuardSatisfied(command, context) ==
  /\ command = "review_passed" =>
       /\ {"mandatory_criterion_ids", "criterion_evaluations"} \subseteq DOMAIN context
       /\ InvState002(context.mandatory_criterion_ids, context.criterion_evaluations)
  /\ command = "integration_verified" =>
       /\ {"integration_status", "post_integration_checks_passed"} \subseteq DOMAIN context
       /\ InvAccept001(context.integration_status, context.post_integration_checks_passed)

-----------------------------------------------------------------------------
(* authorize_transition: the reason of its answer, in the order in which    *)
(* the code decides; COMMITTED carries current_run_version + 1.             *)

\* Mutant: no optimistic concurrency, the request's own state is believed.
AuthorizeUnversioned(request, currentState, currentVersion, context) ==
  IF /\ request.from_state = currentState
     /\ IsValidTransition(request.from_state, request.command, request.to_state)
     /\ GuardSatisfied(request.command, context)
  THEN "COMMITTED" ELSE "STATE_INVALID_TRANSITION"

AuthorizeTransition(request, currentState, currentVersion, context) ==
  IF request.expected_run_version # currentVersion THEN "STATE_STALE_RUN_VERSION"
  ELSE IF /\ request.from_state = currentState
          /\ IsValidTransition(request.from_state, request.command, request.to_state)
          /\ GuardSatisfied(request.command, context)
       THEN "COMMITTED"
       ELSE "STATE_INVALID_TRANSITION"

\* The invalidation_rule the committed row names, "none" when it names none.
InvalidationRule(from, command) ==
  IF command = "repair"
       /\ from \in {"VERIFYING_FOCUSED", "VERIFYING_BROAD", "INTENT_REVIEW"}
  THEN "INV-VERIFY-002"
  ELSE IF from = "ACCEPTING" /\ command = "integration_verified"
       THEN "INV-ACCEPT-001" ELSE "none"

-----------------------------------------------------------------------------
(* The recovery relation and authorize_resume.                              *)

TargetMode(source) ==
  CASE source = "RECOVERY_REQUIRED"    -> "LAST_SAFE_CHECKPOINT"
    [] source = "INTEGRATION_CONFLICT" -> "FIXED_BY_DISPOSITION"
    [] OTHER                           -> "RESUME_TARGET_STATE"

RequiredConditions(source) ==
  CASE source = "BLOCKED" ->
         {"blocker_reason_no_longer_true", "all_pre_block_guards_revalidate"}
    [] source = "INTERRUPTED" ->
         {"process_tool_tree_proven_quiescent", "identities_still_match"}
    [] source = "RECOVERY_REQUIRED" -> {"every_incomplete_side_effect_classified"}
    [] source = "RECONCILIATION_REQUIRED" ->
         {"new_reconciled_snapshot_created", "stale_evidence_explicitly_invalidated"}
    [] source = "INTEGRATION_CONFLICT" -> {"disposition_explicitly_recorded"}

DispositionTarget ==
  [ DESTINATION_UNCHANGED_CANDIDATE_VALID |-> "READY_FOR_USER",
    NEW_CANDIDATE_CREATED                 |-> "IMPLEMENTING",
    AUTHORIZED_ABANDONMENT                |-> "REJECTED" ]

NoTarget == "none"   \* Python's None for a state or a disposition

\* Mutant: the branch a disposition names is taken for its target.
ResumeToDisposition(source, resumeTarget, checkpoint, disposition) ==
  CASE TargetMode(source) = "FIXED_BY_DISPOSITION" -> disposition
    [] TargetMode(source) = "LAST_SAFE_CHECKPOINT" -> checkpoint
    [] TargetMode(source) = "RESUME_TARGET_STATE"  -> resumeTarget

\* The state a resume request asks for, NoTarget when nothing was persisted
\* (or the disposition names no branch).
ResumeTarget(source, resumeTarget, checkpoint, disposition) ==
  CASE TargetMode(source) = "FIXED_BY_DISPOSITION" ->
         IF disposition \in DOMAIN DispositionTarget
         THEN DispositionTarget[disposition] ELSE NoTarget
    [] TargetMode(source) = "LAST_SAFE_CHECKPOINT" -> checkpoint
    [] TargetMode(source) = "RESUME_TARGET_STATE"  -> resumeTarget

\* Mutant: the recovery conditions are not asked for.
ResumeUnconditioned(current, version, expected, target, conditions) ==
  IF expected # version THEN "STATE_STALE_RUN_VERSION"
  ELSE IF current \notin RecoverableSourceStates \/ target = NoTarget
       THEN "STATE_INVALID_TRANSITION"
  ELSE IF target = "ACCEPTED" THEN "RAISED" ELSE "COMMITTED"

\* "RAISED" is the StateMachineError that refuses a target of ACCEPTED.
AuthorizeResume(current, version, expected, target, conditions) ==
  IF expected # version THEN "STATE_STALE_RUN_VERSION"
  ELSE IF current \notin RecoverableSourceStates \/ target = NoTarget
       THEN "STATE_INVALID_TRANSITION"
  ELSE IF target = "ACCEPTED" THEN "RAISED"
  ELSE IF RequiredConditions(current) \subseteq conditions
       THEN "COMMITTED" ELSE "RECOVERY_EXTERNAL_DRIFT"
=============================================================================
