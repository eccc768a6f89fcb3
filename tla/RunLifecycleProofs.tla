------------------------- MODULE RunLifecycleProofs -------------------------
(***************************************************************************)
(* What RunLifecycle guarantees for every number of requesters, criteria,  *)
(* versions and candidates.                                                *)
(***************************************************************************)
EXTENDS RunLifecycle, TLAPS

(* The canonical relation leads to each gated state from one place only.    *)
LEMMA GatedTargets ==
  ASSUME NEW from, NEW command, NEW to, IsValidTransition(from, command, to)
  PROVE  /\ from \in States /\ to \in States
         /\ from \notin TerminalStates
         /\ to = "READY_FOR_USER" => command = "review_passed" /\ from = "INTENT_REVIEW"
         /\ to = "ACCEPTING" => from = "READY_FOR_USER"
         /\ to = "INTEGRATION_CONFLICT" => from = "ACCEPTING"
         /\ to = "ACCEPTED" => command = "integration_verified" /\ from = "ACCEPTING"
  <1>1. from \in States /\ to \in States
    BY DEF IsValidTransition
  <1>2. CASE <<from, command, to>> \in ForwardTransitions
    BY <1>1, <1>2 DEF ForwardTransitions, TerminalStates
  <1>3. CASE /\ from \notin TerminalStates
             /\ <<command, to>> \in ExceptionalTransitions
    BY <1>1, <1>3 DEF ExceptionalTransitions
  <1>4. QED
    BY <1>2, <1>3 DEF IsValidTransition

(* The relation is a function of state and command: a command cannot lead   *)
(* from one state to two.                                                   *)
THEOREM TransitionDeterministic ==
  ASSUME NEW from, NEW command, NEW to1, NEW to2,
         IsValidTransition(from, command, to1), IsValidTransition(from, command, to2)
  PROVE  to1 = to2
  <1>1. CASE <<from, command, to1>> \in ForwardTransitions
    <2>1. <<from, command, to2>> \in ForwardTransitions
      BY <1>1 DEF IsValidTransition
    <2>2. QED
      BY <1>1, <2>1 DEF ForwardTransitions
  <1>2. CASE <<command, to1>> \in ExceptionalTransitions
             /\ ~ \E s \in States : <<from, command, s>> \in ForwardTransitions
    <2>1. <<command, to2>> \in ExceptionalTransitions
      BY <1>2 DEF IsValidTransition
    <2>2. QED
      BY <1>2, <2>1 DEF ExceptionalTransitions
  <1>3. QED
    BY <1>1, <1>2 DEF IsValidTransition

-----------------------------------------------------------------------------
(* The inductive invariant.                                                 *)

Vouched == candidate \in reviewed \union reconciled
NeedsVouch == PastReview \union {"INTEGRATION_CONFLICT"}

(* Wherever the run is, or may resume to, past the review gate its          *)
(* candidate is vouched for.                                                *)
VouchInv ==
  /\ state \in NeedsVouch => Vouched
  /\ state \in RecoverableSourceStates =>
       ((resumeTarget \in NeedsVouch \/ checkpoint \in NeedsVouch) => Vouched)
  /\ state \notin RecoverableSourceStates => checkpoint \in {state, NoTarget}

(* A request that is still fresh (its expected version is the live one) was *)
(* prepared for the candidate, and for the integration, the run has now.    *)
FreshInv ==
  \A r \in Requesters :
    pending[r].kind = "transition" =>
      /\ pending[r].expected_run_version <= version
      /\ pending[r].expected_run_version = version =>
           /\ state \notin {"IMPLEMENTING", "RECONCILIATION_REQUIRED"} =>
                pending[r].candidate = candidate
           /\ (/\ state = "ACCEPTING"
               /\ pending[r].context.integration_status = "COMPLETED"
               /\ pending[r].context.post_integration_checks_passed)
              => integration = [status |-> "COMPLETED", candidate |-> candidate]

IInv == TypeOK /\ VouchInv /\ FreshInv /\ AcceptedIsIntegrated

LEMMA InitIInv == Init => IInv
  <1> SUFFICES ASSUME Init PROVE IInv
    OBVIOUS
  <1>1. 0 \in 0..MaxVersion /\ 0 \in 0..MaxCandidate
    BY BoundsAssumption
  <1>2. TypeOK
    BY <1>1 DEF Init, TypeOK, States, ForwardStates, Requests, NoRequest, Statuses
  <1>3. VouchInv /\ FreshInv /\ AcceptedIsIntegrated
    BY DEF Init, VouchInv, FreshInv, AcceptedIsIntegrated, NeedsVouch, PastReview,
           RecoverableSourceStates, NoRequest, NoTarget
  <1>4. QED
    BY <1>2, <1>3 DEF IInv

-----------------------------------------------------------------------------
(* One lemma per kind of step.                                              *)

(* MoveTo keeps the vouching as long as the target it moves to is vouched   *)
(* for; it makes every pending request stale.                               *)
LEMMA MoveKeepsVouch ==
  ASSUME IInv, NEW to \in States, MoveTo(to), UNCHANGED candidate,
         reviewed \subseteq reviewed', UNCHANGED reconciled,
         to \in NeedsVouch => Vouched',
         to \in RecoverableSourceStates =>
           (resumeTarget' \in NeedsVouch => Vouched')
  PROVE  VouchInv'
  <1>1. Vouched => Vouched'
    BY DEF Vouched
  <1>2. ASSUME to \in RecoverableSourceStates, checkpoint \in NeedsVouch
        PROVE  Vouched
    BY <1>2 DEF IInv, VouchInv, NeedsVouch, PastReview, RecoverableSourceStates, NoTarget
  <1>3. state' = to
        /\ checkpoint' = IF to \in RecoverableSourceStates THEN checkpoint ELSE to
    BY DEF MoveTo
  <1>4. QED
    BY <1>1, <1>2, <1>3 DEF VouchInv

LEMMA MoveMakesStale ==
  ASSUME IInv, NEW to, MoveTo(to), NEW r \in Requesters,
         pending' = [pending EXCEPT ![r] = NoRequest]
  PROVE  FreshInv'
  <1> SUFFICES ASSUME NEW q \in Requesters, pending'[q].kind = "transition"
               PROVE  /\ pending'[q].expected_run_version <= version'
                      /\ pending'[q].expected_run_version # version'
    BY DEF FreshInv
  <1>1. pending'[q] = pending[q] /\ q # r
    BY DEF IInv, TypeOK, NoRequest
  <1>2. pending[q].expected_run_version <= version
    BY <1>1 DEF IInv, FreshInv
  <1>3. /\ pending[q].expected_run_version \in 0..MaxVersion
        /\ version \in 0..MaxVersion
    <2>1. pending[q] \in Requests
      BY DEF IInv, TypeOK
    <2>2. QED
      BY <1>1, <2>1 DEF IInv, TypeOK, Requests, NoRequest
  <1>4. version' = version + 1
    BY DEF MoveTo
  <1>5. QED
    BY <1>1, <1>2, <1>3, <1>4, BoundsAssumption

LEMMA PrepareKeeps ==
  ASSUME IInv, NEW r \in Requesters, NEW command \in Commands, NEW to \in States,
         PrepareTransition(r, command, to)
  PROVE  IInv'
  <1> DEFINE req == [kind |-> "transition", from_state |-> state, to_state |-> to,
                     command |-> command, expected_run_version |-> version,
                     context |-> GuardContext, candidate |-> candidate]
  <1>1. /\ pending' = [pending EXCEPT ![r] = req]
        /\ UNCHANGED <<row, work, proven, history>>
    BY DEF PrepareTransition
  <1>2. UNCHANGED <<state, version, resumeTarget, checkpoint, candidate, evidence,
                    integration, proven, reviewed, reconciled, drifted, recovered>>
    BY <1>1 DEF row, work, history
  <1>3. GuardContext \in GuardContexts
    <2>1. CurrentEvaluations \in [Criteria -> Statuses]
      BY DEF IInv, TypeOK, CurrentEvaluations, Statuses
    <2>2. integration.status \in {"NONE", "COMPLETED"}
      BY DEF IInv, TypeOK
    <2>3. QED
      BY <2>1, <2>2 DEF GuardContext, GuardContexts
  <1>4. req \in Requests
    BY <1>3 DEF IInv, TypeOK, Requests
  <1>5. TypeOK'
    BY <1>1, <1>2, <1>4 DEF IInv, TypeOK
  <1>6. VouchInv' /\ AcceptedIsIntegrated'
    BY <1>2 DEF IInv, VouchInv, AcceptedIsIntegrated, Vouched
  <1>7. FreshInv'
    <2> SUFFICES ASSUME NEW q \in Requesters, pending'[q].kind = "transition"
                 PROVE  FreshInv!(q)'
      BY DEF FreshInv
    <2>1. CASE q # r
      BY <1>1, <1>2, <2>1 DEF IInv, TypeOK, FreshInv
    <2>2. CASE q = r
      <3>1. pending'[q] = req
        BY <1>1, <2>2 DEF IInv, TypeOK
      <3>2. /\ GuardContext.integration_status = integration.status
            /\ GuardContext.post_integration_checks_passed = (integration.candidate = candidate)
        BY DEF GuardContext
      <3>3. integration = [status |-> integration.status, candidate |-> integration.candidate]
        BY DEF IInv, TypeOK
      <3>4. version <= version
        BY BoundsAssumption DEF IInv, TypeOK
      <3>5. ASSUME GuardContext.integration_status = "COMPLETED",
                   GuardContext.post_integration_checks_passed
            PROVE  integration = [status |-> "COMPLETED", candidate |-> candidate]
        BY <3>2, <3>3, <3>5
      <3>6. /\ req.context = GuardContext /\ req.candidate = candidate
            /\ req.expected_run_version = version
        OBVIOUS
      <3>7. QED
        BY <1>2, <3>1, <3>4, <3>5, <3>6
    <2>3. QED
      BY <2>1, <2>2
  <1>8. QED
    BY <1>5, <1>6, <1>7 DEF IInv

LEMMA PrepareResumeKeeps ==
  ASSUME IInv, NEW r \in Requesters,
         NEW d \in DOMAIN DispositionTarget \union {NoTarget}, PrepareResume(r, d)
  PROVE  IInv'
  <1> DEFINE req == [kind |-> "resume", expected_run_version |-> version, disposition |-> d]
  <1>1. /\ pending' = [pending EXCEPT ![r] = req]
        /\ UNCHANGED <<state, version, resumeTarget, checkpoint, candidate, evidence,
                       integration, proven, reviewed, reconciled, drifted, recovered>>
    BY DEF PrepareResume, row, work, history
  <1>2. req \in Requests
    BY DEF IInv, TypeOK, Requests
  <1>3. TypeOK'
    BY <1>1, <1>2 DEF IInv, TypeOK
  <1>4. \A q \in Requesters : q # r => pending'[q] = pending[q]
    BY <1>1 DEF IInv, TypeOK
  <1>5. pending'[r].kind = "resume"
    BY <1>1 DEF IInv, TypeOK
  <1>6. VouchInv' /\ FreshInv' /\ AcceptedIsIntegrated'
    BY <1>1, <1>4, <1>5 DEF IInv, VouchInv, FreshInv, AcceptedIsIntegrated, Vouched
  <1>7. QED
    BY <1>3, <1>6 DEF IInv

LEMMA CommitTransitionKeeps ==
  ASSUME IInv, NEW r \in Requesters, CommitTransition(r)
  PROVE  IInv'
  <1> DEFINE req == pending[r]
  <1>1. /\ req \in Requests /\ req.kind = "transition"
        /\ req.to_state \in States /\ req.candidate \in 0..MaxCandidate
    BY DEF CommitTransition, IInv, TypeOK, Requests, NoRequest
  <1>2. /\ req.expected_run_version = version
        /\ req.from_state = state
        /\ IsValidTransition(req.from_state, req.command, req.to_state)
        /\ GuardSatisfied(req.command, req.context)
    BY DEF CommitTransition, AuthorizeTransition
  <1>3. /\ MoveTo(req.to_state)
        /\ resumeTarget' = IF req.to_state \in RecoverableSourceStates
                           THEN state ELSE resumeTarget
        /\ reviewed' = IF req.command = "review_passed"
                       THEN reviewed \union {req.candidate} ELSE reviewed
        /\ pending' = [pending EXCEPT ![r] = NoRequest]
        /\ UNCHANGED <<candidate, integration, reconciled>>
    BY DEF CommitTransition
  <1>4. /\ req.to_state = "READY_FOR_USER" =>
             req.command = "review_passed" /\ state = "INTENT_REVIEW"
        /\ req.to_state = "ACCEPTING" => state = "READY_FOR_USER"
        /\ req.to_state = "INTEGRATION_CONFLICT" => state = "ACCEPTING"
        /\ req.to_state = "ACCEPTED" =>
             req.command = "integration_verified" /\ state = "ACCEPTING"
        /\ state \notin TerminalStates
    BY <1>2, GatedTargets
  <1>5. TypeOK'
    <2>1. evidence' \in [Criteria -> [status : Statuses, candidate : 0..MaxCandidate]]
      <3>1. evidence \in [Criteria -> [status : Statuses, candidate : 0..MaxCandidate]]
        BY DEF IInv, TypeOK
      <3>2. [k \in Criteria |-> [evidence[k] EXCEPT !.status = "INCONCLUSIVE"]]
              \in [Criteria -> [status : Statuses, candidate : 0..MaxCandidate]]
        BY <3>1 DEF Statuses
      <3>3. QED
        BY <3>1, <3>2 DEF CommitTransition
    <2>2. version' \in 0..MaxVersion
      BY <1>3, BoundsAssumption DEF MoveTo, IInv, TypeOK
    <2>3. pending' \in [Requesters -> Requests]
      BY <1>3 DEF IInv, TypeOK, Requests
    <2>4. /\ state' \in States
          /\ resumeTarget' \in States \union {NoTarget}
          /\ checkpoint' \in States \union {NoTarget}
          /\ proven' \subseteq Conditions /\ drifted' \in BOOLEAN /\ recovered' \in BOOLEAN
          /\ candidate' = candidate /\ integration' = integration
          /\ reviewed' \subseteq 0..MaxCandidate /\ reconciled' = reconciled
      BY <1>1, <1>3 DEF MoveTo, IInv, TypeOK
    <2>5. QED
      BY <2>1, <2>2, <2>3, <2>4 DEF IInv, TypeOK
  <1>6. VouchInv'
    <2>1. state \in NeedsVouch => Vouched
      BY DEF IInv, VouchInv
    <2>2. req.to_state = "READY_FOR_USER" => req.candidate = candidate
      BY <1>1, <1>2, <1>4 DEF IInv, FreshInv
    <2>3. req.to_state \in NeedsVouch => Vouched'
      BY <1>3, <1>4, <2>1, <2>2 DEF Vouched, NeedsVouch, PastReview
    <2>4. req.to_state \in RecoverableSourceStates =>
            (resumeTarget' \in NeedsVouch => Vouched')
      BY <1>3, <2>1 DEF Vouched
    <2>5. QED
      BY <1>1, <1>3, <2>3, <2>4, MoveKeepsVouch
  <1>7. FreshInv'
    BY <1>3, MoveMakesStale
  <1>8. AcceptedIsIntegrated'
    <2>1. SUFFICES ASSUME req.to_state = "ACCEPTED"
                   PROVE  integration = [status |-> "COMPLETED", candidate |-> candidate]
      BY <1>3 DEF AcceptedIsIntegrated, MoveTo
    <2>2. /\ req.context.integration_status = "COMPLETED"
          /\ req.context.post_integration_checks_passed
      BY <1>2, <1>4, <2>1 DEF GuardSatisfied, InvAccept001
    <2>3. QED
      BY <1>1, <1>2, <1>4, <2>1, <2>2 DEF IInv, FreshInv
  <1>9. QED
    BY <1>5, <1>6, <1>7, <1>8 DEF IInv

LEMMA CommitResumeKeeps ==
  ASSUME IInv, NEW r \in Requesters, CommitResume(r)
  PROVE  IInv'
  <1> DEFINE req == pending[r]
             to == ResumeTarget(state, resumeTarget, checkpoint, req.disposition)
  <1>1. /\ MoveTo(to)
        /\ pending' = [pending EXCEPT ![r] = NoRequest]
        /\ UNCHANGED <<resumeTarget, candidate, evidence, integration, reviewed, reconciled>>
    BY DEF CommitResume, work
  <1>2. state \in RecoverableSourceStates /\ to # NoTarget /\ to # "ACCEPTED"
    BY DEF CommitResume, ResumeAnswer, AuthorizeResume
  <1>3. \/ state = "INTEGRATION_CONFLICT" /\ to \in {"READY_FOR_USER", "IMPLEMENTING", "REJECTED"}
        \/ to = resumeTarget
        \/ to = checkpoint
    BY <1>2 DEF ResumeTarget, TargetMode, DispositionTarget, NoTarget
  <1>4. to \in States
    BY <1>2, <1>3 DEF IInv, TypeOK, States, ForwardStates, TerminalStates
  <1>5. TypeOK'
    <2>1. version' \in 0..MaxVersion
      BY <1>1, BoundsAssumption DEF MoveTo, IInv, TypeOK
    <2>2. pending' \in [Requesters -> Requests]
      BY <1>1 DEF IInv, TypeOK, Requests
    <2>3. /\ state' \in States /\ checkpoint' \in States \union {NoTarget}
          /\ proven' \subseteq Conditions /\ drifted' \in BOOLEAN /\ recovered' \in BOOLEAN
      BY <1>1, <1>4 DEF MoveTo, IInv, TypeOK
    <2>4. QED
      BY <1>1, <2>1, <2>2, <2>3 DEF IInv, TypeOK
  <1>6. VouchInv'
    <2>1. state = "INTEGRATION_CONFLICT" => Vouched
      BY DEF IInv, VouchInv, NeedsVouch
    <2>2. resumeTarget \in NeedsVouch \/ checkpoint \in NeedsVouch => Vouched
      BY <1>2 DEF IInv, VouchInv
    <2>3. Vouched' = Vouched
      BY <1>1 DEF Vouched
    <2>4. to \in NeedsVouch => Vouched'
      BY <1>3, <2>1, <2>2, <2>3
    <2>5. QED
      BY <1>1, <1>4, <2>2, <2>3, <2>4, MoveKeepsVouch
  <1>7. FreshInv'
    BY <1>1, MoveMakesStale
  <1>8. AcceptedIsIntegrated'
    BY <1>1, <1>2 DEF AcceptedIsIntegrated, MoveTo
  <1>9. QED
    BY <1>5, <1>6, <1>7, <1>8 DEF IInv

LEMMA DropRequestKeeps ==
  ASSUME IInv, NEW r \in Requesters, RejectTransition(r) \/ RejectResume(r)
  PROVE  IInv'
  <1>1. /\ pending' = [pending EXCEPT ![r] = NoRequest]
        /\ UNCHANGED <<state, version, resumeTarget, checkpoint, candidate, evidence,
                       integration, proven, reviewed, reconciled, drifted, recovered>>
    BY DEF RejectTransition, RejectResume, row, work, history
  <1>2. TypeOK'
    BY <1>1 DEF IInv, TypeOK, Requests
  <1>3. pending'[r].kind = "none" /\ \A q \in Requesters : q # r => pending'[q] = pending[q]
    BY <1>1 DEF IInv, TypeOK, NoRequest
  <1>4. VouchInv' /\ FreshInv' /\ AcceptedIsIntegrated'
    BY <1>1, <1>3 DEF IInv, VouchInv, FreshInv, AcceptedIsIntegrated, Vouched
  <1>5. QED
    BY <1>2, <1>4 DEF IInv

LEMMA WorkKeeps ==
  ASSUME IInv,
         \/ EditCandidate \/ Integrate \/ Reconcile \/ ProveConditions
         \/ \E k \in Criteria, s \in UsedStatuses : Evaluate(k, s)
  PROVE  IInv'
  <1> USE DEF row, work, history
  <1>1. CASE EditCandidate
    <2>1. TypeOK'
      BY <1>1, BoundsAssumption DEF IInv, TypeOK, EditCandidate
    <2>2. VouchInv' /\ FreshInv' /\ AcceptedIsIntegrated'
      BY <1>1 DEF IInv, VouchInv, FreshInv, AcceptedIsIntegrated, EditCandidate,
                  NeedsVouch, PastReview, RecoverableSourceStates
    <2>3. QED
      BY <2>1, <2>2 DEF IInv
  <1>2. CASE Integrate
    <2>1. TypeOK'
      BY <1>2 DEF IInv, TypeOK, Integrate
    <2>2. VouchInv' /\ FreshInv' /\ AcceptedIsIntegrated'
      BY <1>2 DEF IInv, VouchInv, FreshInv, AcceptedIsIntegrated, Integrate, Vouched
    <2>3. QED
      BY <2>1, <2>2 DEF IInv
  <1>3. CASE Reconcile
    <2>1. /\ candidate' = candidate + 1 /\ reconciled' = reconciled \union {candidate + 1}
          /\ proven' = RequiredConditions(state) /\ drifted' = FALSE /\ recovered' = FALSE
          /\ evidence' = [k \in Criteria |-> [evidence[k] EXCEPT !.status = "INCONCLUSIVE"]]
          /\ state = "RECONCILIATION_REQUIRED" /\ candidate < MaxCandidate
          /\ UNCHANGED <<state, version, resumeTarget, checkpoint, integration,
                         pending, reviewed>>
      BY <1>3 DEF Reconcile
    <2>2. candidate' \in 0..MaxCandidate /\ reconciled' \subseteq 0..MaxCandidate
      BY <2>1, BoundsAssumption DEF IInv, TypeOK
    <2>3. evidence' \in [Criteria -> [status : Statuses, candidate : 0..MaxCandidate]]
      BY <2>1 DEF IInv, TypeOK, Statuses
    <2>4. proven' \subseteq Conditions
      BY <2>1 DEF Conditions, RecoverableSourceStates
    <2>5. TypeOK'
      BY <2>1, <2>2, <2>3, <2>4 DEF IInv, TypeOK
    <2>6. VouchInv' /\ FreshInv' /\ AcceptedIsIntegrated'
      BY <2>1 DEF IInv, VouchInv, FreshInv, AcceptedIsIntegrated, Vouched
    <2>7. QED
      BY <2>5, <2>6 DEF IInv
  <1>4. CASE ProveConditions
    <2>1. proven' \subseteq Conditions
      BY <1>4 DEF ProveConditions, Conditions
    <2>2. TypeOK'
      BY <1>4, <2>1 DEF IInv, TypeOK, ProveConditions
    <2>3. VouchInv' /\ FreshInv' /\ AcceptedIsIntegrated'
      BY <1>4 DEF IInv, VouchInv, FreshInv, AcceptedIsIntegrated, ProveConditions, Vouched
    <2>4. QED
      BY <2>2, <2>3 DEF IInv
  <1>5. ASSUME NEW k \in Criteria, NEW s \in UsedStatuses, Evaluate(k, s)
        PROVE  IInv'
    <2>1. TypeOK'
      BY <1>5, BoundsAssumption DEF IInv, TypeOK, Evaluate
    <2>2. VouchInv' /\ FreshInv' /\ AcceptedIsIntegrated'
      BY <1>5 DEF IInv, VouchInv, FreshInv, AcceptedIsIntegrated, Evaluate, Vouched
    <2>3. QED
      BY <2>1, <2>2 DEF IInv
  <1>6. QED
    BY <1>1, <1>2, <1>3, <1>4, <1>5

LEMMA NextIInv == IInv /\ [Next]_vars => IInv'
  <1> SUFFICES ASSUME IInv, [Next]_vars PROVE IInv'
    OBVIOUS
  <1>1. ASSUME NEW r \in Requesters, NEW command \in UsedCommands[state], NEW to \in States,
               PrepareTransition(r, command, to)
        PROVE  IInv'
    <2>1. command \in Commands
      BY <1>1, BoundsAssumption DEF IInv, TypeOK
    <2>2. QED
      BY <1>1, <2>1, PrepareKeeps
  <1>2. ASSUME NEW r \in Requesters, NEW d \in Dispositions(state), PrepareResume(r, d)
        PROVE  IInv'
    BY <1>2, PrepareResumeKeeps DEF Dispositions
  <1>3. ASSUME NEW r \in Requesters, CommitTransition(r) PROVE IInv'
    BY <1>3, CommitTransitionKeeps
  <1>4. ASSUME NEW r \in Requesters, CommitResume(r) PROVE IInv'
    BY <1>4, CommitResumeKeeps
  <1>5. ASSUME NEW r \in Requesters, RejectTransition(r) \/ RejectResume(r) PROVE IInv'
    BY <1>5, DropRequestKeeps
  <1>6. CASE UNCHANGED vars
    BY <1>6 DEF vars, IInv, TypeOK, VouchInv, FreshInv, AcceptedIsIntegrated, Vouched
  <1>7. QED
    BY <1>1, <1>2, <1>3, <1>4, <1>5, <1>6, WorkKeeps DEF Next

-----------------------------------------------------------------------------
(* Drift.                                                                   *)

(* A drifted run nobody gave to recovery waits for its reconciliation, is   *)
(* on a detour that leads back to it, or has failed.                        *)
DriftInv ==
  drifted /\ ~ recovered =>
    \/ state = "RECONCILIATION_REQUIRED" /\ proven = {}
    \/ /\ state \in {"BLOCKED", "INTERRUPTED"}
       /\ resumeTarget \in {"BLOCKED", "INTERRUPTED", "RECONCILIATION_REQUIRED"}
    \/ state = "FAILED"

(* No forward row leaves a recoverable state, and only `fail' ends there.   *)
LEMMA DetourTargets ==
  ASSUME NEW command, NEW to, NEW from \in RecoverableSourceStates,
         IsValidTransition(from, command, to)
  PROVE  to \in (RecoverableSourceStates \ {"INTEGRATION_CONFLICT"}) \union {"FAILED"}
  <1>1. <<from, command, to>> \notin ForwardTransitions
    BY DEF ForwardTransitions, RecoverableSourceStates
  <1>2. <<command, to>> \in ExceptionalTransitions
    BY <1>1 DEF IsValidTransition
  <1>3. QED
    BY <1>2 DEF ExceptionalTransitions, RecoverableSourceStates

LEMMA NextDriftInv ==
  ASSUME TypeOK, DriftInv, [Next]_vars
  PROVE  DriftInv'
  <1>1. ASSUME NEW r \in Requesters, CommitTransition(r)
        PROVE  DriftInv'
    <2> DEFINE req == pending[r]
    <2>1. /\ req.from_state = state
          /\ IsValidTransition(state, req.command, req.to_state)
      BY <1>1 DEF CommitTransition, AuthorizeTransition
    <2>2. /\ state' = req.to_state /\ proven' = {}
          /\ drifted' = (drifted \/ req.to_state = "RECONCILIATION_REQUIRED")
          /\ recovered' = (recovered \/ (drifted /\ req.to_state = "RECOVERY_REQUIRED"))
          /\ resumeTarget' = IF req.to_state \in RecoverableSourceStates
                             THEN state ELSE resumeTarget
      BY <1>1 DEF CommitTransition, MoveTo
    <2>3. CASE state \in {"RECONCILIATION_REQUIRED", "BLOCKED", "INTERRUPTED"}
      <3>1. req.to_state \in
              {"BLOCKED", "INTERRUPTED", "RECOVERY_REQUIRED", "RECONCILIATION_REQUIRED",
               "FAILED"}
        BY <2>1, <2>3, DetourTargets DEF RecoverableSourceStates
      <3>2. QED
        BY <2>2, <2>3, <3>1 DEF DriftInv, RecoverableSourceStates
    <2>4. CASE /\ state \notin {"RECONCILIATION_REQUIRED", "BLOCKED", "INTERRUPTED"}
               /\ drifted /\ ~ recovered
      <3>1. state \in TerminalStates
        BY <2>4 DEF DriftInv, TerminalStates
      <3>2. QED
        BY <2>1, <3>1, GatedTargets
    <2>5. CASE ~ drifted \/ recovered
      BY <2>2, <2>5 DEF DriftInv, TypeOK
    <2>6. QED
      BY <2>3, <2>4, <2>5
  <1>2. ASSUME NEW r \in Requesters, CommitResume(r)
        PROVE  DriftInv'
    <2> DEFINE to == ResumeTarget(state, resumeTarget, checkpoint, pending[r].disposition)
    <2>1. /\ state' = to /\ proven' = {} /\ UNCHANGED resumeTarget
          /\ drifted' = (drifted \/ to = "RECONCILIATION_REQUIRED")
          /\ recovered' = (recovered \/ (drifted /\ to = "RECOVERY_REQUIRED"))
      BY <1>2 DEF CommitResume, MoveTo
    <2>2. state \in RecoverableSourceStates /\ RequiredConditions(state) \subseteq proven
      BY <1>2 DEF CommitResume, ResumeAnswer, AuthorizeResume
    <2>3. state = "RECONCILIATION_REQUIRED" => proven # {}
      BY <2>2 DEF RequiredConditions
    <2>4. CASE drifted /\ ~ recovered
      <3>1. /\ state \in {"BLOCKED", "INTERRUPTED"}
            /\ resumeTarget \in {"BLOCKED", "INTERRUPTED", "RECONCILIATION_REQUIRED"}
        BY <2>2, <2>3, <2>4 DEF DriftInv, RecoverableSourceStates
      <3>2. to = resumeTarget
        BY <3>1 DEF ResumeTarget, TargetMode
      <3>3. QED
        BY <2>1, <3>1, <3>2 DEF DriftInv
    <2>5. CASE ~ drifted \/ recovered
      BY <2>1, <2>5 DEF DriftInv, TypeOK
    <2>6. QED
      BY <2>4, <2>5
  <1>3. ASSUME UNCHANGED <<state, resumeTarget, proven, drifted, recovered>>
        PROVE  DriftInv'
    BY <1>3 DEF DriftInv
  <1>4. ASSUME NEW r \in Requesters, NEW command \in UsedCommands[state], NEW to \in States,
               PrepareTransition(r, command, to)
        PROVE  DriftInv'
    BY <1>3, <1>4 DEF PrepareTransition, row, history
  <1>5. ASSUME NEW r \in Requesters, NEW d \in Dispositions(state), PrepareResume(r, d)
        PROVE  DriftInv'
    BY <1>3, <1>5 DEF PrepareResume, row, history
  <1>6. ASSUME NEW r \in Requesters, RejectTransition(r) \/ RejectResume(r)
        PROVE  DriftInv'
    BY <1>3, <1>6 DEF RejectTransition, RejectResume, row, history
  <1>7. CASE EditCandidate \/ Integrate \/ UNCHANGED vars
    BY <1>3, <1>7 DEF EditCandidate, Integrate, vars, row, history
  <1>8. ASSUME NEW k \in Criteria, NEW s \in UsedStatuses, Evaluate(k, s)
        PROVE  DriftInv'
    BY <1>3, <1>8 DEF Evaluate, row, history
  <1>9. CASE Reconcile
    BY <1>9 DEF Reconcile, DriftInv
  <1>10. CASE ProveConditions
    BY <1>10 DEF ProveConditions, DriftInv, row, history
  <1>11. QED
    BY <1>1, <1>2, <1>4, <1>5, <1>6, <1>7, <1>8, <1>9, <1>10 DEF Next

(* Unless somebody asks for recovery, no run is recovered.                  *)
OutOfRecovery ==
  /\ recovered = FALSE
  /\ "RECOVERY_REQUIRED" \notin {state, resumeTarget, checkpoint}
  /\ \A r \in Requesters :
       pending[r].kind = "transition" => pending[r].command # "require_recovery"

LEMMA RecoveryIsAskedFor ==
  ASSUME NEW from, NEW command, IsValidTransition(from, command, "RECOVERY_REQUIRED")
  PROVE  command = "require_recovery"
  BY DEF IsValidTransition, ForwardTransitions, ExceptionalTransitions

LEMMA NextOutOfRecovery ==
  ASSUME \A s \in States : "require_recovery" \notin UsedCommands[s],
         TypeOK, OutOfRecovery, [Next]_vars
  PROVE  OutOfRecovery'
  <1>1. ASSUME NEW q \in Requesters, NEW req, pending' = [pending EXCEPT ![q] = req],
               req.kind = "transition" => req.command # "require_recovery"
        PROVE  \A r \in Requesters :
                 pending'[r].kind = "transition" => pending'[r].command # "require_recovery"
    BY <1>1 DEF TypeOK, OutOfRecovery
  <1>2. NoRequest.kind # "transition"
    BY DEF NoRequest
  <1>3. ASSUME NEW r \in Requesters, CommitTransition(r)
        PROVE  OutOfRecovery'
    <2> DEFINE to == pending[r].to_state
    <2>1. /\ state' = to /\ checkpoint' \in {checkpoint, to}
          /\ recovered' = (recovered \/ (drifted /\ to = "RECOVERY_REQUIRED"))
          /\ resumeTarget' \in {state, resumeTarget}
          /\ pending' = [pending EXCEPT ![r] = NoRequest]
          /\ pending[r].kind = "transition"
      BY <1>3 DEF CommitTransition, MoveTo
    <2>2. IsValidTransition(state, pending[r].command, to)
      BY <1>3 DEF CommitTransition, AuthorizeTransition
    <2>3. to # "RECOVERY_REQUIRED"
      BY <2>1, <2>2, RecoveryIsAskedFor DEF OutOfRecovery
    <2>4. QED
      BY <1>1, <1>2, <2>1, <2>3 DEF OutOfRecovery
  <1>4. ASSUME NEW r \in Requesters, CommitResume(r)
        PROVE  OutOfRecovery'
    <2> DEFINE to == ResumeTarget(state, resumeTarget, checkpoint, pending[r].disposition)
    <2>1. /\ state' = to /\ checkpoint' \in {checkpoint, to} /\ UNCHANGED resumeTarget
          /\ recovered' = (recovered \/ (drifted /\ to = "RECOVERY_REQUIRED"))
          /\ pending' = [pending EXCEPT ![r] = NoRequest]
      BY <1>4 DEF CommitResume, MoveTo
    <2>2. to # "RECOVERY_REQUIRED"
      BY DEF OutOfRecovery, ResumeTarget, TargetMode, DispositionTarget, NoTarget
    <2>3. QED
      BY <1>1, <1>2, <2>1, <2>2 DEF OutOfRecovery
  <1>5. ASSUME NEW r \in Requesters, NEW command \in UsedCommands[state], NEW to \in States,
               PrepareTransition(r, command, to)
        PROVE  OutOfRecovery'
    <2> DEFINE req == [kind |-> "transition", from_state |-> state, to_state |-> to,
                       command |-> command, expected_run_version |-> version,
                       context |-> GuardContext, candidate |-> candidate]
    <2>1. pending' = [pending EXCEPT ![r] = req] /\ UNCHANGED <<row, recovered>>
      BY <1>5 DEF PrepareTransition, history
    <2>2. req.command # "require_recovery"
      BY <1>5 DEF TypeOK
    <2> HIDE DEF req
    <2>3. QED
      BY <1>1, <2>1, <2>2 DEF OutOfRecovery, row
  <1>6. ASSUME NEW r \in Requesters, NEW d \in Dispositions(state), PrepareResume(r, d)
        PROVE  OutOfRecovery'
    <2> DEFINE req == [kind |-> "resume", expected_run_version |-> version, disposition |-> d]
    <2>1. pending' = [pending EXCEPT ![r] = req] /\ UNCHANGED <<row, recovered>>
      BY <1>6 DEF PrepareResume, history
    <2>2. req.kind # "transition"
      OBVIOUS
    <2> HIDE DEF req
    <2>3. QED
      BY <1>1, <2>1, <2>2 DEF OutOfRecovery, row
  <1>7. ASSUME NEW r \in Requesters, RejectTransition(r) \/ RejectResume(r)
        PROVE  OutOfRecovery'
    BY <1>1, <1>2, <1>7 DEF RejectTransition, RejectResume, row, history, OutOfRecovery
  <1>8. ASSUME UNCHANGED <<row, pending>>, recovered' \in {recovered, FALSE}
        PROVE  OutOfRecovery'
    BY <1>8 DEF row, OutOfRecovery
  <1>9. CASE EditCandidate \/ Integrate \/ Reconcile \/ ProveConditions \/ UNCHANGED vars
    BY <1>8, <1>9
       DEF EditCandidate, Integrate, Reconcile, ProveConditions, vars, row, history
  <1>10. ASSUME NEW k \in Criteria, NEW s \in UsedStatuses, Evaluate(k, s)
         PROVE  OutOfRecovery'
    BY <1>8, <1>10 DEF Evaluate, history
  <1>11. QED
    BY <1>3, <1>4, <1>5, <1>6, <1>7, <1>9, <1>10 DEF Next

-----------------------------------------------------------------------------
(* The theorems.                                                            *)

LEMMA IInvAlways == Spec => []IInv
  BY InitIInv, NextIInv, PTL DEF Spec

(* The model's variables keep their types.                                  *)
THEOREM TypeCorrect == Spec => []TypeOK
  <1>1. IInv => TypeOK
    BY DEF IInv
  <1>2. QED
    BY <1>1, IInvAlways, PTL

(* No candidate gets past the review gate without a review of that very     *)
(* candidate, except through a reconciliation.                              *)
THEOREM ReviewGate == Spec => []ReviewedUnlessReconciled
  <1>1. IInv => ReviewedUnlessReconciled
    BY DEF IInv, VouchInv, ReviewedUnlessReconciled, NeedsVouch, Vouched
  <1>2. QED
    BY <1>1, IInvAlways, PTL

(* An accepted run holds the candidate its completed integration landed.    *)
THEOREM AcceptGate == Spec => []AcceptedIsIntegrated
  <1>1. IInv => AcceptedIsIntegrated
    BY DEF IInv
  <1>2. QED
    BY <1>1, IInvAlways, PTL

(* A terminal run never moves.                                              *)
THEOREM TerminalStays == Spec => TerminalAbsorbing
  <1>1. ASSUME [Next]_vars, state \in TerminalStates
        PROVE  UNCHANGED row
    <2>1. ASSUME NEW r \in Requesters PROVE ~ CommitTransition(r)
      BY <1>1, GatedTargets DEF CommitTransition, AuthorizeTransition
    <2>2. ASSUME NEW r \in Requesters PROVE ~ CommitResume(r)
      BY <1>1 DEF CommitResume, ResumeAnswer, AuthorizeResume, TerminalStates,
                  RecoverableSourceStates
    <2>3. QED
      BY <1>1, <2>1, <2>2
         DEF Next, vars, row, PrepareTransition, PrepareResume, RejectTransition,
             RejectResume, EditCandidate, Evaluate, Integrate, Reconcile, ProveConditions
  <1>2. QED
    BY <1>1, PTL DEF Spec, TerminalAbsorbing

(* A drifted run nobody gave to recovery goes on only from a reconciliation. *)
THEOREM DriftGate == Spec => []DriftReconciled
  <1>1. Init => DriftInv
    BY DEF Init, DriftInv
  <1>2. TypeOK /\ DriftInv /\ [Next]_vars => DriftInv'
    BY NextDriftInv
  <1>3. DriftInv => DriftReconciled
    BY DEF DriftInv, DriftReconciled, ForwardStates
  <1>4. QED
    BY <1>1, <1>2, <1>3, TypeCorrect, PTL DEF Spec

(* Blocked, interrupted, failed or sent to reconciliation again: without a  *)
(* require_recovery no command takes a drifted run past its reconciliation. *)
THEOREM DriftWithoutRecovery ==
  (\A s \in States : "require_recovery" \notin UsedCommands[s]) =>
    (Spec => [](drifted => state \notin ForwardStates \union {"ACCEPTED"}))
  <1>1. SUFFICES ASSUME \A s \in States : "require_recovery" \notin UsedCommands[s]
                 PROVE  Spec => [](drifted => state \notin ForwardStates \union {"ACCEPTED"})
    OBVIOUS
  <1>2. Init => OutOfRecovery
    BY DEF Init, OutOfRecovery, NoRequest, NoTarget
  <1>3. TypeOK /\ OutOfRecovery /\ [Next]_vars => OutOfRecovery'
    BY <1>1, NextOutOfRecovery
  <1>4. OutOfRecovery /\ DriftReconciled =>
          (drifted => state \notin ForwardStates \union {"ACCEPTED"})
    BY DEF OutOfRecovery, DriftReconciled
  <1>5. QED
    BY <1>2, <1>3, <1>4, TypeCorrect, DriftGate, PTL DEF Spec
=============================================================================
