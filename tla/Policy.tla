------------------------------- MODULE Policy -------------------------------
(***************************************************************************)
(* The decision algebra of _policy.py: whether an effect on a resource is  *)
(* allowed, needs an approval or is denied, under the rules in force and   *)
(* the approval at hand.  evaluate itself is a pure operator; the rules    *)
(* and the approval around it change as layers of policy are loaded and    *)
(* dropped and an approval is granted, spent and expires.                  *)
(***************************************************************************)
EXTENDS Integers, FiniteSets
LOCAL INSTANCE SequencesExt

CONSTANTS Rules,     \* the rules some layer of policy may hold
          Requests,  \* the requests that are evaluated
          Grants,    \* the approvals as they are granted
          Effects, Kinds,   \* the registered effects and resource kinds
          PrefixKinds,      \* the kinds a PREFIX pattern may speak of
          Labels,           \* the registered taint labels
          Classes,   \* label -> rank, of the registered data classifications
          MaxRules,  \* bound: rules in force at once
          None

\* What the user may answer an approval request.
Dispositions == {"ALLOW_ONCE", "ALLOW_RUN", "DENY"}

ASSUMPTION PolicyAssumption ==
  /\ MaxRules \in Nat
  /\ Classes \in [DOMAIN Classes -> Nat]
  /\ None \notin DOMAIN Classes
  /\ None \notin Grants
  /\ \A approval \in Grants :
       /\ approval.disposition \in Dispositions
       /\ approval = [disposition |-> approval.disposition, binding |-> approval.binding,
                      consumed |-> FALSE, expired |-> FALSE]

VARIABLES rules,  \* the rules in force
          grant   \* the approval at hand, or None

vars == <<rules, grant>>

Decisions == {"ALLOW", "APPROVAL_REQUIRED", "DENY"}

\* The trust classes a rule may come from, lowest first; every other class is
\* untrusted or unknown.
AuthorityRank == [PROJECT_POLICY |-> 1, USER_TRUSTED |-> 2, SYSTEM_TRUSTED |-> 3]

Specificity == [EXACT |-> 2, PREFIX |-> 1, GLOB |-> 0]

\* A pattern stands for the keys it covers; a mode its kind does not have, or
\* that is not one, raises and is taken for a mismatch.
MatchesResource(rule, request) ==
  /\ rule.kind = request.kind
  /\ rule.match \in DOMAIN Specificity
  /\ rule.match = "PREFIX" => rule.kind \in PrefixKinds
  /\ request.key \in rule.keys

MatchingRules(request, inForce) ==
  { rule \in inForce :
      /\ rule.authority \in DOMAIN AuthorityRank
      /\ rule.effect \in Effects /\ rule.effect = request.effect
      /\ rule.decision \in Decisions
      /\ MatchesResource(rule, request) }

Denies(matched) == { rule \in matched : rule.decision = "DENY" }
Allows(matched) == matched \ Denies(matched)

\* Mutant: every deny must have the authority, where one is enough.
DenyRulesTogether(matched) ==
  /\ Denies(matched) # {}
  /\ \A deny \in Denies(matched), allow \in Allows(matched) :
       AuthorityRank[deny.authority] >= AuthorityRank[allow.authority]

\* Some deny is of an authority no allow exceeds.
DenyRules(matched) ==
  \E deny \in Denies(matched) : \A allow \in Allows(matched) :
    AuthorityRank[deny.authority] >= AuthorityRank[allow.authority]

Narrowest(matched) ==
  { rule \in matched : \A other \in matched :
      Specificity[rule.match] >= Specificity[other.match] }

\* Mutant: of two rules equally narrow the more permissive one governs.
CombineTowardAllow(matched) ==
  LET said == { rule.decision : rule \in Narrowest(matched) } IN
  IF matched = {} \/ DenyRules(matched) \/ said = {"DENY"} THEN "DENY"
  ELSE IF "ALLOW" \in said THEN "ALLOW" ELSE "APPROVAL_REQUIRED"

\* An authoritative deny decides; otherwise the narrowest rules do, the most
\* severe of them first.  No rule at all is the default decision.
Combine(matched) ==
  LET said == { rule.decision : rule \in Narrowest(matched) } IN
  IF matched = {} \/ DenyRules(matched) \/ "DENY" \in said THEN "DENY"
  ELSE IF "APPROVAL_REQUIRED" \in said THEN "APPROVAL_REQUIRED" ELSE "ALLOW"

-----------------------------------------------------------------------------
(* Approvals.  A binding has the sequences effect_set and                   *)
(* normalized_resources, `scope' for the six fields compared by equality,   *)
(* and `extra' for whatever else a caller puts in.                          *)

\* Equal when sorted.
SameElements(s, t) ==
  \A x \in ToSet(s) \union ToSet(t) :
    Cardinality({ i \in DOMAIN s : s[i] = x }) = Cardinality({ i \in DOMAIN t : t[i] = x })

RequiresNewApproval(previous, proposed) ==
  \/ ToSet(previous.effect_set) # ToSet(proposed.effect_set)
  \/ ~SameElements(previous.normalized_resources, proposed.normalized_resources)
  \/ previous.scope # proposed.scope

\* Mutant: an approval that is neither spent nor expired satisfies anything.
ApprovalSatisfiesAny(approval, binding) ==
  approval.disposition # "DENY" /\ ~approval.consumed /\ ~approval.expired

\* The whole binding is compared, field by field and in order.
ApprovalSatisfies(approval, binding) ==
  /\ approval.disposition # "DENY"
  /\ ~approval.consumed /\ ~approval.expired
  /\ binding # None /\ approval.binding = binding

-----------------------------------------------------------------------------
\* Data above its ceiling, of an unregistered classification or taint, and
\* effects or resources nobody registered.
Inadmissible(request) ==
  \/ request.effect \notin Effects
  \/ request.kind \notin Kinds
  \/ ~(request.taint \subseteq Labels)
  \/ /\ request.classification # None /\ request.ceiling # None
     /\ \/ ~({request.classification, request.ceiling} \subseteq DOMAIN Classes)
        \/ Classes[request.classification] > Classes[request.ceiling]

Evaluate(request, inForce, approval) ==
  LET decision == Combine(MatchingRules(request, inForce)) IN
  CASE Inadmissible(request) \/ decision = "DENY" -> "DENY"
    [] ~Inadmissible(request) /\ decision # "DENY" /\ ~request.enforceable -> "BLOCKED_CAPABILITY"
    [] OTHER -> IF \/ decision = "ALLOW"
                   \/ approval # None /\ ApprovalSatisfies(approval, request.binding)
                THEN "ALLOW" ELSE "APPROVAL_REQUIRED"

Answer(request) == Evaluate(request, rules, grant)

-----------------------------------------------------------------------------
Init == rules = {} /\ grant = None

\* A layer of policy is loaded or dropped, rule by rule.
LoadRule(rule) ==
  /\ rule \notin rules /\ Cardinality(rules) < MaxRules
  /\ rules' = rules \union {rule}
  /\ UNCHANGED grant

DropRule(rule) ==
  /\ rule \in rules
  /\ rules' = rules \ {rule}
  /\ UNCHANGED grant

\* The user answers an approval request; the broker spends or expires it.
Grant(approval) ==
  /\ grant' = approval
  /\ UNCHANGED rules

\* Mutant: any approval is spent by its use.
ConsumeAny ==
  /\ grant # None /\ ~grant.consumed
  /\ grant' = [grant EXCEPT !.consumed = TRUE]
  /\ UNCHANGED rules

Consume ==
  /\ grant # None /\ grant.disposition = "ALLOW_ONCE" /\ ~grant.consumed
  /\ grant' = [grant EXCEPT !.consumed = TRUE]
  /\ UNCHANGED rules

Expire ==
  /\ grant # None /\ ~grant.expired
  /\ grant' = [grant EXCEPT !.expired = TRUE]
  /\ UNCHANGED rules

Next ==
  \/ \E rule \in Rules : LoadRule(rule) \/ DropRule(rule)
  \/ \E approval \in Grants : Grant(approval)
  \/ Consume
  \/ Expire

Spec == Init /\ [][Next]_vars

-----------------------------------------------------------------------------
(* Properties. *)

\* Only a use-once approval is ever spent, and every request has an answer.
TypeOK ==
  /\ rules \subseteq Rules /\ Cardinality(rules) <= MaxRules
  /\ grant # None =>
       /\ \E given \in Grants : /\ grant.disposition = given.disposition
                                /\ grant.binding = given.binding
       /\ grant.consumed => grant.disposition = "ALLOW_ONCE"
  /\ \A request \in Requests : Answer(request) \in Decisions \union {"BLOCKED_CAPABILITY"}

\* The rules a layer of policy that is trusted holds for a request.
TrustedFor(request) ==
  { rule \in rules : /\ rule.authority \in DOMAIN AuthorityRank
                     /\ rule.effect = request.effect /\ rule.kind = request.kind
                     /\ request.key \in rule.keys }

\* Whatever is not denied is opened by trusted rules, and over each trusted
\* deny there is one of a higher authority and one that is narrower (combined
\* from lists of rules in _combine; nothing else opens).
OpenedAboveEveryDeny ==
  \A request \in Requests : Answer(request) # "DENY" =>
    LET opening == { rule \in TrustedFor(request) : rule.decision \in {"ALLOW", "APPROVAL_REQUIRED"} } IN
    /\ opening # {}
    /\ \A deny \in MatchingRules(request, rules) : deny.decision = "DENY" =>
         /\ \E rule \in opening : AuthorityRank[rule.authority] > AuthorityRank[deny.authority]
         /\ \E rule \in opening : Specificity[rule.match] > Specificity[deny.match]

\* An approval turns an answer to ALLOW only for what it was given for: while
\* it is neither refused, spent nor expired, and for a request that says what
\* it is about and for which requires_new_approval would not ask for another.
ApprovalIsForThis ==
  \A request \in Requests :
    Answer(request) = "ALLOW" /\ Evaluate(request, rules, None) # "ALLOW" =>
      /\ Evaluate(request, rules, None) = "APPROVAL_REQUIRED"
      /\ grant.disposition \in {"ALLOW_ONCE", "ALLOW_RUN"}
      /\ ~grant.consumed /\ ~grant.expired
      /\ request.binding # None
      /\ ~RequiresNewApproval(grant.binding, request.binding)

\* From the most permissive answer to the most restrictive one.
Openness == [ALLOW |-> 3, APPROVAL_REQUIRED |-> 2, BLOCKED_CAPABILITY |-> 1, DENY |-> 0]

\* A deny that is added never makes an answer more permissive, whoever adds
\* it and however the rules before it combine.
DenyOnlyNarrows ==
  [][ (/\ rules \subseteq rules' /\ UNCHANGED grant
       /\ \A rule \in rules' \ rules : rule.decision = "DENY")
      => \A request \in Requests : Openness[Answer(request)'] <= Openness[Answer(request)] ]_vars

\* A rule does not open what a deny of a higher authority than its own is in
\* force for (9.9.1, and the case the tests have for two rules).
LowerLayerNeverOpens ==
  [][ \A request \in Requests, rule \in rules' \ rules :
        (/\ rules \subseteq rules' /\ UNCHANGED grant
         /\ Answer(request) = "DENY" /\ Answer(request)' # "DENY")
        => ~ \E deny \in MatchingRules(request, rules) :
               /\ deny.decision = "DENY" /\ rule.authority \in DOMAIN AuthorityRank
               /\ AuthorityRank[deny.authority] > AuthorityRank[rule.authority] ]_vars
=============================================================================
