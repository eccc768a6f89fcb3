---------------------------- MODULE Verification ----------------------------
(***************************************************************************)
(* The evidence algebra of _verification.py over evidence that ages: the   *)
(* candidate is edited, the configuration changes, waivers expire, checks  *)
(* run again.  The evaluators are the code's; who edits, runs checks,      *)
(* waives and reviews is the runtime around them.                          *)
(***************************************************************************)
EXTENDS Naturals, FiniteSets

CONSTANTS
  Claims, RequiredKinds,  \* claim -> its required_evidence_kinds
  Checks, CheckSpec,      \* check -> [claims, dependencies, mechanism, type]
  Criteria, Requirement,  \* criterion -> [mode, claims, threshold, allow_waiver]
  EvidenceRefs,           \* the references [claim, kind] that may be recorded
  Waivers,                \* the waivers that may be granted:
                          \* [scope, bound, expires, issuer]
  Configs,                \* values of CONFIG_DIGEST
  None,
  MaxCandidate, MaxTime   \* bounds on edits and on the clock

ASSUME VerificationAssumption ==
  /\ MaxCandidate \in Nat /\ MaxTime \in Nat
  /\ RequiredKinds \in [Claims -> SUBSET {"CHECK_RESULT", "REVIEW", "ARTIFACT", "REPOSITORY_FACT"}]
  /\ \A k \in Checks : CheckSpec[k].claims \subseteq Claims
  /\ \A k \in Criteria : LET req == Requirement[k] IN  \* validate_evidence_requirement
       /\ req.claims \subseteq Claims /\ req.claims # {} /\ IsFiniteSet(req.claims)
       /\ req.mode \in {"ALL", "ANY", "THRESHOLD"} /\ req.allow_waiver \in BOOLEAN
       /\ req.mode = "THRESHOLD" => req.threshold \in Nat \ {0}
  /\ \A w \in Waivers : w.expires = None \/ w.expires \in Nat

VARIABLES
  candidate, config,  \* the current identities
  results,            \* check -> its latest result, or NoResult
  evidence,           \* recorded references, with the candidate of the moment
  waivers, now,       \* granted waivers, the clock
  review, manifest,   \* intent review or its bare status; candidate of the EvidenceManifest
  landed, post        \* tree landed in the destination; check -> post-integration result

evidenceVars == <<candidate, config, results, evidence, waivers, now, review, manifest, landed, post>>
gathered == <<evidence, waivers, now, review, manifest>>
integration == <<landed, post>>

Candidates == 0..MaxCandidate
NoResult == [status |-> "none"]
NoReview == [form |-> "status", overall |-> "none"]

EvidenceInit ==
  /\ candidate = 0 /\ config \in Configs
  /\ results = [k \in Checks |-> NoResult]
  /\ evidence = {} /\ waivers = {} /\ now = 0
  /\ review = NoReview /\ manifest = None
  /\ landed = None /\ post = [k \in Checks |-> NoResult]

-----------------------------------------------------------------------------
(* The evaluators.                                                          *)

\* execute_check: only a mechanism that ran and held passes.
MechanismKinds == {"COMMAND", "PYTHON_CALLABLE", "JSON_ASSERTION", "FILE_ASSERTION",
                   "REPOSITORY_INVARIANT", "ARTIFACT_COMPARISON", "REVIEWER"}
ExecuteCheck(mechanism, applicable, reviewerAvailable, outcome) ==
  IF mechanism \notin MechanismKinds THEN "ERROR"
  ELSE IF ~ applicable THEN "NOT_APPLICABLE"
  ELSE IF mechanism = "REVIEWER" THEN IF reviewerAvailable THEN "PASS" ELSE "INCONCLUSIVE"
  ELSE CASE outcome = "holds" -> "PASS"
         [] outcome = "fails" -> "FAIL"
         [] outcome = "raises" -> "ERROR"

StalePassCurrent(k) ==  \* mutant: only what failed goes stale
  \/ results[k].status = "PASS"
  \/ /\ results[k].candidate = candidate
     /\ "CONFIG_DIGEST" \in CheckSpec[k].dependencies => results[k].config = config

\* result_is_current, as evaluate_claim calls it.
ResultIsCurrent(k) ==
  /\ results[k].candidate = candidate
  /\ "CONFIG_DIGEST" \in CheckSpec[k].dependencies => results[k].config = config

WaivesForever(w, claim) ==  \* mutant: no expiry
  /\ w.scope = claim \/ (w.scope \in Criteria /\ claim \in Requirement[w.scope].claims)
  /\ w.bound \in {None, candidate}
  /\ w.issuer \in {"USER", "TRUSTED_CI"}

Waives(w, claim) ==
  /\ w.scope = claim \/ (w.scope \in Criteria /\ claim \in Requirement[w.scope].claims)
  /\ w.bound \in {None, candidate}
  /\ w.expires = None \/ w.expires > now
  /\ w.issuer \in {"USER", "TRUSTED_CI"}

EvaluateClaim(claim) ==
  LET referring == { k \in Checks : results[k] # NoResult /\ claim \in CheckSpec[k].claims }
      current == { k \in referring : ResultIsCurrent(k) }
      byCheck == "CHECK_RESULT" \in RequiredKinds[claim]
      counted == IF byCheck THEN current ELSE {}
      matched == \/ \E k \in counted : results[k].status = "PASS"
                 \/ \E e \in evidence : e.claim = claim /\ e.kind \in RequiredKinds[claim]
      inconclusive == \/ referring # current
                      \/ \E k \in counted : results[k].status \notin {"PASS", "FAIL"}
  IN IF \E w \in waivers : Waives(w, claim) THEN "WAIVED"
     ELSE IF \E k \in counted : results[k].status = "FAIL" THEN "DISPROVEN"
     ELSE IF matched /\ byCheck THEN "ESTABLISHED"
     ELSE IF inconclusive \/ ~ matched THEN "INCONCLUSIVE" ELSE "ESTABLISHED"

EvaluateCriterion(k) ==
  LET req == Requirement[k]
      In(state) == { c \in req.claims : EvaluateClaim(c) = state }
      established == Cardinality(In("ESTABLISHED"))
      waived == Cardinality(In("WAIVED"))
      all == Cardinality(req.claims)
  IN IF In("DISPROVEN") # {} THEN "UNSATISFIED"
     ELSE CASE req.mode = "ALL" ->
                 IF established + waived = all THEN "SATISFIED" ELSE "INCONCLUSIVE"
            [] req.mode = "ANY" ->
                 IF established > 0 THEN "SATISFIED"
                 ELSE IF req.allow_waiver /\ waived = all THEN "WAIVED" ELSE "INCONCLUSIVE"
            [] req.mode = "THRESHOLD" ->
                 IF established + (IF req.allow_waiver THEN waived ELSE 0) >= req.threshold
                 THEN "SATISFIED" ELSE "INCONCLUSIVE"

\* evaluate_intent_review with the arguments evaluate_ready_for_user gives it:
\* neither a required route nor the implementer's context.
EvaluateIntentReview ==
  IF review.overall # "PASS" THEN "FAIL"
  ELSE IF review.candidate # candidate \/ review.context = None THEN "INCONCLUSIVE"
  ELSE IF review.passed # Criteria THEN "FAIL" ELSE "PASS"

EvaluateReadyForUser ==
  /\ manifest = candidate
  /\ IF review.form = "mapping" THEN EvaluateIntentReview = "PASS" ELSE review.overall = "PASS"
  /\ \A k \in Criteria : EvaluateCriterion(k) \in {"SATISFIED", "WAIVED"}

EvaluateAccepted(destinationReconciled, integrationStatus) ==
  /\ destinationReconciled /\ integrationStatus = "COMPLETED" /\ landed # None
  /\ Checks # {} /\ \A k \in Checks : post[k].status \in {"PASS", "NOT_APPLICABLE"}

ReuseAnyway(k) ==  \* mutant: the landed tree is not compared
  /\ CheckSpec[k].type # "POST_INTEGRATION"
  /\ CheckSpec[k].dependencies \intersect {"DESTINATION_SNAPSHOT", "ENVIRONMENT_DIGEST"} = {}

PostIntegrationReuseAllowed(k) ==
  /\ CheckSpec[k].type # "POST_INTEGRATION"
  /\ CheckSpec[k].dependencies \intersect {"DESTINATION_SNAPSHOT", "ENVIRONMENT_DIGEST"} = {}
  /\ candidate = landed

-----------------------------------------------------------------------------
(* What ages or adds to the evidence.                                       *)

EditCandidate ==
  /\ candidate < MaxCandidate /\ landed = None
  /\ candidate' = candidate + 1
  /\ UNCHANGED <<config, results, gathered, integration>>

Configure(value) ==
  /\ config' = value
  /\ UNCHANGED <<candidate, results, gathered, integration>>

\* What a check may yield, whatever its applicability rule and its mechanism do.
Yields(k) ==
  { ExecuteCheck(CheckSpec[k].mechanism, applicable, reviewerAvailable, outcome) :
    applicable \in BOOLEAN, reviewerAvailable \in BOOLEAN,
    outcome \in {"holds", "fails", "raises"} }

RunCheck(k) ==
  /\ \E status \in Yields(k) :
       results' = [results EXCEPT ![k] =
         [status |-> status, candidate |-> candidate, config |-> config]]
  /\ UNCHANGED <<candidate, config, gathered, integration>>

\* A reference does not say what it was recorded for; the model remembers.
RecordEvidence(e) ==
  /\ evidence' = evidence \union {[claim |-> e.claim, kind |-> e.kind, candidate |-> candidate]}
  /\ UNCHANGED <<candidate, config, results, waivers, now, review, manifest, integration>>

GrantWaiver(w) ==
  /\ waivers' = waivers \union {w}
  /\ UNCHANGED <<candidate, config, results, evidence, now, review, manifest, integration>>

Tick ==
  /\ now < MaxTime
  /\ now' = now + 1
  /\ UNCHANGED <<candidate, config, results, evidence, waivers, review, manifest, integration>>

\* A review of this candidate: it passes every criterion, or none, and its
\* context (whosever it is, the gate does not ask) may be missing.
ReviewForms == {<<"given", Criteria>>, <<"given", {}>>, <<None, Criteria>>}
Review(context, passed) ==
  /\ review' = [form |-> "mapping", overall |-> IF passed = Criteria THEN "PASS" ELSE "FAIL",
                candidate |-> candidate, context |-> context, passed |-> passed]
  /\ UNCHANGED <<candidate, config, results, evidence, waivers, now, manifest, integration>>

\* The caller hands over the status alone: nothing tells of which candidate.
ReviewStatus(overall) ==
  /\ review' = [form |-> "status", overall |-> overall]
  /\ UNCHANGED <<candidate, config, results, evidence, waivers, now, manifest, integration>>

PersistManifest ==
  /\ manifest' = candidate
  /\ UNCHANGED <<candidate, config, results, evidence, waivers, now, review, integration>>

\* The integration lands the candidate, or a tree that resolves a conflict.
Integrate(tree) ==
  /\ landed = None /\ EvaluateReadyForUser
  /\ landed' = tree
  /\ UNCHANGED <<candidate, config, results, gathered, post>>

\* A post-integration check: the caller reuses a result or runs the check on the
\* landed tree.  That a reused result is current is the caller's to see to
\* (Blueprint 10.15.7): post_integration_reuse_allowed does not look at it.
VerifyLanded(k) ==
  /\ landed # None
  /\ \/ /\ PostIntegrationReuseAllowed(k)
        /\ results[k] # NoResult /\ ResultIsCurrent(k)
        /\ post' = [post EXCEPT ![k] = [status |-> results[k].status, tree |-> results[k].candidate]]
     \/ \E status \in Yields(k) :
          post' = [post EXCEPT ![k] = [status |-> status, tree |-> landed]]
  /\ UNCHANGED <<candidate, config, results, gathered, landed>>

\* What the READY_FOR_USER gate reads is gathered before a tree has landed.
Gather ==
  /\ landed = None
  /\ \/ Tick \/ PersistManifest \/ ReviewStatus("PASS")
     \/ \E e \in EvidenceRefs : RecordEvidence(e)
     \/ \E w \in Waivers : GrantWaiver(w)
     \/ \E form \in ReviewForms : Review(form[1], form[2])

EvidenceNext ==
  \/ EditCandidate \/ Gather
  \/ \E value \in Configs : Configure(value)
  \/ \E k \in Checks : RunCheck(k) \/ VerifyLanded(k)
  \/ \E tree \in {candidate, MaxCandidate + 1} : Integrate(tree)

EvidenceSpec == EvidenceInit /\ [][EvidenceNext]_evidenceVars

-----------------------------------------------------------------------------
(* Properties.                                                              *)

\* What evidence says of a claim, from the records alone: a result speaks for
\* the candidate and configuration it was made with and for no other, to a claim
\* that asks for check results; a reference of a kind the claim asks for speaks
\* for the candidate it was recorded for.
Speaks(k, claim, status) ==
  /\ claim \in CheckSpec[k].claims /\ "CHECK_RESULT" \in RequiredKinds[claim]
  /\ results[k] # NoResult /\ results[k].status = status
  /\ results[k].candidate = candidate
  /\ "CONFIG_DIGEST" \in CheckSpec[k].dependencies => results[k].config = config
Referring(claim) == { e \in evidence : e.claim = claim /\ e.kind \in RequiredKinds[claim] }
Proven(claim) ==
  \/ \E k \in Checks : Speaks(k, claim, "PASS")
  \/ \E e \in Referring(claim) : e.candidate = candidate
Refuted(claim) == \E k \in Checks : Speaks(k, claim, "FAIL")
Excused(claim) == \E w \in waivers :
  /\ claim \in {w.scope} \union (IF w.scope \in Criteria THEN Requirement[w.scope].claims ELSE {})
  /\ w.expires # None => now < w.expires
  /\ w.bound # None => w.bound = candidate
  /\ w.issuer \in {"USER", "TRUSTED_CI"}

\* A reference recorded for an older candidate: evaluate_claim (147-149) still
\* takes it, where Blueprint 9.15.5 and 9.15.7 ask for current evidence.
OutdatedlyProven(claim) == \E e \in Referring(claim) : e.candidate # candidate

\* INV-VERIFY-002 as far as the code goes: whatever was edited, configured, rerun
\* or waived before, a criterion counts towards READY_FOR_USER only if none of its
\* claims is refuted for this candidate unless excused, and enough of them are
\* proven for this candidate or excused; except that a reference recorded for an
\* older candidate stands for a proof.
SatisfiedIsEvidenced ==
  \A k \in Criteria : EvaluateCriterion(k) \in {"SATISFIED", "WAIVED"} =>
    LET req == Requirement[k]
        Shown(c) == Proven(c) \/ OutdatedlyProven(c) IN
    /\ \A c \in req.claims : Refuted(c) => Excused(c)
    /\ CASE req.mode = "ALL" -> \A c \in req.claims : Shown(c) \/ Excused(c)
         [] req.mode = "ANY" -> \/ \E c \in req.claims : Shown(c)
                               \/ (req.allow_waiver /\ \A c \in req.claims : Excused(c))
         [] req.mode = "THRESHOLD" ->
              Cardinality({ c \in req.claims : Shown(c) \/ (req.allow_waiver /\ Excused(c)) })
                >= req.threshold

\* An edit takes evidence away and adds none: a criterion that did not count
\* counts after it only if a waiver excuses one of its claims then, or if it has
\* references recorded before, and the edit ends a refutation or a waiver.  That
\* second case is evaluate_claim's disregard of a reference's age: a FAIL of the
\* last candidate goes stale, an old review of it does not.
EditOpensNothing ==
  [][ candidate' # candidate =>
      \A k \in Criteria :
        EvaluateCriterion(k)' \in {"SATISFIED", "WAIVED"} =>
          \/ EvaluateCriterion(k) \in {"SATISFIED", "WAIVED"}
          \/ \E c \in Requirement[k].claims : Excused(c)'
          \/ /\ \E c \in Requirement[k].claims : Referring(c) # {}
             /\ \E c \in Requirement[k].claims : Refuted(c) \/ Excused(c)
    ]_evidenceVars

\* What is accepted was verified where it landed: every post-integration result
\* is about the landed tree, reused ones included, if the caller reuses current
\* results only (Blueprint 10.15.8).
AcceptedWhereLanded ==
  EvaluateAccepted(TRUE, "COMPLETED") => \A k \in Checks : post[k].tree = landed
=============================================================================
