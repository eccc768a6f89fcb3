---------------------------- MODULE PolicyProofs ----------------------------
(***************************************************************************)
(* What the decision algebra guarantees for every set of rules, however    *)
(* large, every request and every approval.                                *)
(***************************************************************************)
EXTENDS Policy, FiniteSetTheorems, TLAPS

(* What is known of a rule that matches: its fields are among those the     *)
(* tables rank.                                                             *)
LEMMA Matching ==
  ASSUME NEW request, NEW inForce, NEW rule \in MatchingRules(request, inForce)
  PROVE  /\ rule \in inForce
         /\ rule.authority \in DOMAIN AuthorityRank
         /\ rule.match \in DOMAIN Specificity
         /\ rule.decision \in Decisions
         /\ AuthorityRank[rule.authority] \in 1..3
         /\ Specificity[rule.match] \in 0..2
  BY DEF MatchingRules, MatchesResource, AuthorityRank, Specificity, Decisions

(* A deny that is not among the narrowest rules has a narrower rule among   *)
(* them.                                                                    *)
LEMMA NarrowestAbove ==
  ASSUME NEW request, NEW inForce,
         NEW rule \in MatchingRules(request, inForce)
  PROVE  \E top \in Narrowest(MatchingRules(request, inForce)) :
           Specificity[top.match] >= Specificity[rule.match]
  <1> DEFINE M == MatchingRules(request, inForce)
  <1> DEFINE spec(r) == Specificity[r.match]
  <1>1. \A r \in M : spec(r) \in 0..2
    BY Matching
  <1> HIDE DEF M, spec
  <1>2. rule \in M
    BY DEF M
  <1>3. CASE \E top \in M : spec(top) = 2
    <2>1. PICK top \in M : spec(top) = 2
      BY <1>3
    <2>2. \A r \in M : spec(top) >= spec(r)
      BY <1>1, <2>1
    <2>3. QED
      BY <1>2, <2>2 DEF Narrowest, M, spec
  <1>4. CASE (\A r \in M : spec(r) # 2) /\ \E top \in M : spec(top) = 1
    <2>1. PICK top \in M : spec(top) = 1
      BY <1>4
    <2>2. \A r \in M : spec(top) >= spec(r)
      BY <1>1, <1>4, <2>1
    <2>3. QED
      BY <1>2, <2>2 DEF Narrowest, M, spec
  <1>5. CASE \A r \in M : spec(r) = 0
    <2>1. \A r \in M : spec(rule) >= spec(r)
      BY <1>1, <1>2, <1>5
    <2>2. spec(rule) >= spec(rule)
      BY <1>2, <2>1
    <2>3. QED
      BY <1>2, <2>1, <2>2 DEF Narrowest, M, spec
  <1>6. QED
    BY <1>1, <1>3, <1>4, <1>5

(* Denies that are added leave a combination denied if it was, and never    *)
(* turn a requirement of approval into an allowance.                        *)
LEMMA CombineNarrows ==
  ASSUME NEW request, NEW before, NEW after,
         before \subseteq after,
         \A rule \in after \ before : rule.decision = "DENY"
  PROVE  LET C(inForce) == Combine(MatchingRules(request, inForce)) IN
         /\ C(before) \in Decisions /\ C(after) \in Decisions
         /\ C(before) = "DENY" => C(after) = "DENY"
         /\ C(before) = "APPROVAL_REQUIRED" => C(after) # "ALLOW"
  <1> DEFINE M == MatchingRules(request, before)
             N == MatchingRules(request, after)
  <1>1. M \subseteq N /\ \A rule \in N \ M : rule.decision = "DENY"
    BY DEF MatchingRules
  <1>2. Allows(N) = Allows(M) /\ Denies(M) \subseteq Denies(N)
    BY <1>1 DEF Allows, Denies
  <1>3. DenyRules(M) => DenyRules(N)
    BY <1>2 DEF DenyRules
  <1>4. \A r \in N : Specificity[r.match] \in 0..2 /\ r.decision \in Decisions
    BY Matching
  <1>5. \A r \in M : r \in Narrowest(M) =>
          r \in Narrowest(N) \/ \E d \in Narrowest(N) : d.decision = "DENY"
    <2>1. SUFFICES ASSUME NEW r \in M, r \in Narrowest(M), r \notin Narrowest(N)
                   PROVE  \E d \in Narrowest(N) : d.decision = "DENY"
      OBVIOUS
    <2>2. PICK other \in N : ~(Specificity[r.match] >= Specificity[other.match])
      BY <1>1, <2>1 DEF Narrowest
    <2>3. PICK top \in Narrowest(N) : Specificity[top.match] >= Specificity[other.match]
      BY NarrowestAbove
    <2>4. top \in N
      BY DEF Narrowest
    <2>5. top \notin M
      <3>1. SUFFICES ASSUME top \in M PROVE FALSE
        OBVIOUS
      <3>2. Specificity[r.match] >= Specificity[top.match]
        BY <2>1, <3>1 DEF Narrowest
      <3>3. QED
        BY <1>1, <1>4, <2>1, <2>2, <2>3, <2>4, <3>2
    <2>6. QED
      BY <1>1, <2>4, <2>5
  <1>6. M = {} => (N = {} \/ \E d \in Narrowest(N) : d.decision = "DENY")
    <2>1. SUFFICES ASSUME M = {}, NEW r \in N
                   PROVE  \E d \in Narrowest(N) : d.decision = "DENY"
      OBVIOUS
    <2>2. PICK top \in Narrowest(N) : TRUE
      BY NarrowestAbove
    <2>3. QED
      BY <1>1, <2>1, <2>2 DEF Narrowest
  <1> HIDE DEF M, N
  <1>7. Combine(M) \in Decisions /\ Combine(N) \in Decisions
    BY DEF Combine, Decisions
  <1>8. Combine(M) = "DENY" => Combine(N) = "DENY"
    <2>1. CASE M = {}
      BY <1>6, <2>1 DEF Combine
    <2>2. CASE DenyRules(M)
      BY <1>3, <2>2 DEF Combine
    <2>3. CASE \E d \in Narrowest(M) : d.decision = "DENY"
      BY <1>5, <2>3 DEF Combine, Narrowest
    <2>4. QED
      BY <2>1, <2>2, <2>3 DEF Combine
  <1>9. Combine(M) = "APPROVAL_REQUIRED" => Combine(N) # "ALLOW"
    <2>1. SUFFICES ASSUME Combine(M) = "APPROVAL_REQUIRED"
                   PROVE  Combine(N) # "ALLOW"
      OBVIOUS
    <2>2. PICK r \in Narrowest(M) : r.decision = "APPROVAL_REQUIRED"
      BY <2>1 DEF Combine
    <2>3. \/ r \in Narrowest(N)
          \/ \E d \in Narrowest(N) : d.decision = "DENY"
      BY <1>5 DEF Narrowest
    <2>4. QED
      BY <2>2, <2>3 DEF Combine
  <1>10. QED
    BY <1>7, <1>8, <1>9 DEF M, N

(* A deny that is added never makes an answer more permissive, for any      *)
(* rules in force and whoever adds it.                                      *)
THEOREM DenyNarrows == Spec => DenyOnlyNarrows
  <1>1. ASSUME rules \subseteq rules', UNCHANGED grant,
               \A rule \in rules' \ rules : rule.decision = "DENY",
               NEW request \in Requests
        PROVE  Openness[Answer(request)'] <= Openness[Answer(request)]
    <2> DEFINE before == Combine(MatchingRules(request, rules))
               after  == Combine(MatchingRules(request, rules'))
    <2>1. /\ before \in Decisions /\ after \in Decisions
          /\ before = "DENY" => after = "DENY"
          /\ before = "APPROVAL_REQUIRED" => after # "ALLOW"
      BY <1>1, CombineNarrows
    <2> DEFINE said(d) ==
          CASE Inadmissible(request) \/ d = "DENY" -> "DENY"
            [] ~Inadmissible(request) /\ d # "DENY" /\ ~request.enforceable -> "BLOCKED_CAPABILITY"
            [] OTHER -> IF \/ d = "ALLOW"
                           \/ grant # None /\ ApprovalSatisfies(grant, request.binding)
                        THEN "ALLOW" ELSE "APPROVAL_REQUIRED"
    <2>2. Answer(request) = said(before) /\ Answer(request)' = said(after)
      BY <1>1 DEF Answer, Evaluate, Inadmissible, ApprovalSatisfies
    <2> HIDE DEF before, after
    <2>3. Openness[said(after)] <= Openness[said(before)]
      BY <2>1 DEF Openness, Decisions
    <2>4. QED
      BY <2>2, <2>3
  <1>2. (/\ rules \subseteq rules' /\ UNCHANGED grant
         /\ \A rule \in rules' \ rules : rule.decision = "DENY")
        => \A request \in Requests : Openness[Answer(request)'] <= Openness[Answer(request)]
    BY <1>1
  <1>3. QED
    BY <1>2, PTL DEF Spec, DenyOnlyNarrows

(* Nothing is opened but by trusted rules, and over every deny that matches *)
(* stand an opening rule of a higher authority and a narrower one.          *)
THEOREM OpenedAbove == Spec => []OpenedAboveEveryDeny
  <1>1. ASSUME NEW request \in Requests, Answer(request) # "DENY"
        PROVE  LET opening == { rule \in TrustedFor(request) :
                                  rule.decision \in {"ALLOW", "APPROVAL_REQUIRED"} } IN
               /\ opening # {}
               /\ \A deny \in MatchingRules(request, rules) : deny.decision = "DENY" =>
                    /\ \E rule \in opening :
                         AuthorityRank[rule.authority] > AuthorityRank[deny.authority]
                    /\ \E rule \in opening : Specificity[rule.match] > Specificity[deny.match]
    <2> DEFINE M == MatchingRules(request, rules)
               opening == { rule \in TrustedFor(request) :
                              rule.decision \in {"ALLOW", "APPROVAL_REQUIRED"} }
    <2>1. /\ M # {} /\ ~DenyRules(M)
          /\ \A rule \in Narrowest(M) : rule.decision # "DENY"
      BY <1>1 DEF Answer, Evaluate, Combine
    <2>2. \A rule \in M : rule.decision # "DENY" => rule \in opening
      BY DEF MatchingRules, MatchesResource, TrustedFor, Decisions
    <2>3. \A rule \in M : /\ AuthorityRank[rule.authority] \in 1..3
                          /\ Specificity[rule.match] \in 0..2
      BY Matching
    <2>4. \A rule \in M : \E top \in M :
            /\ top.decision # "DENY" /\ top \in Narrowest(M)
            /\ Specificity[top.match] >= Specificity[rule.match]
      BY <2>1, NarrowestAbove DEF Narrowest
    <2>5. opening # {}
      BY <2>1, <2>2, <2>4
    <2>6. ASSUME NEW deny \in M, deny.decision = "DENY"
          PROVE  \E rule \in opening :
                   AuthorityRank[rule.authority] > AuthorityRank[deny.authority]
      <3>1. PICK rule \in Allows(M) :
              ~(AuthorityRank[deny.authority] >= AuthorityRank[rule.authority])
        BY <2>1, <2>6 DEF DenyRules, Denies
      <3>2. rule \in M /\ rule.decision # "DENY"
        BY DEF Allows, Denies
      <3>3. QED
        BY <2>2, <2>3, <2>6, <3>1, <3>2
    <2>7. ASSUME NEW deny \in M, deny.decision = "DENY"
          PROVE  \E rule \in opening : Specificity[rule.match] > Specificity[deny.match]
      <3>1. deny \notin Narrowest(M)
        BY <2>1, <2>7
      <3>2. PICK other \in M : ~(Specificity[deny.match] >= Specificity[other.match])
        BY <2>7, <3>1 DEF Narrowest
      <3>3. PICK top \in M : /\ top.decision # "DENY"
                             /\ Specificity[top.match] >= Specificity[other.match]
        BY <2>4
      <3>4. QED
        BY <2>2, <2>3, <2>7, <3>2, <3>3
    <2>8. QED
      BY <2>5, <2>6, <2>7
  <1>2. OpenedAboveEveryDeny
    BY <1>1 DEF OpenedAboveEveryDeny
  <1>3. QED
    BY <1>2, PTL

(* The rules in force are finitely many, and an approval is one that was    *)
(* granted, but for being spent or expired.                                 *)
GrantInv ==
  grant # None =>
    /\ \E given \in Grants :
         grant = [disposition |-> given.disposition, binding |-> given.binding,
                  consumed |-> grant.consumed, expired |-> grant.expired]
    /\ grant.consumed => grant.disposition = "ALLOW_ONCE"
RulesInv == rules \subseteq Rules /\ IsFiniteSet(rules) /\ Cardinality(rules) <= MaxRules

(* A grant with its marks replaced. *)
Marked(disposition, binding, consumed, expired) ==
  [disposition |-> disposition, binding |-> binding, consumed |-> consumed, expired |-> expired]

LEMMA Fields ==
  ASSUME NEW d, NEW b, NEW c, NEW e, NEW r, r = Marked(d, b, c, e)
  PROVE  DOMAIN r = {"disposition", "binding", "consumed", "expired"}
  BY DEF Marked

LEMMA RulesStep == RulesInv /\ [Next]_vars => RulesInv'
  <1> SUFFICES ASSUME RulesInv, [Next]_vars PROVE RulesInv'
    OBVIOUS
  <1>1. CASE UNCHANGED rules
    BY <1>1 DEF RulesInv
  <1>2. ASSUME NEW rule \in Rules, LoadRule(rule) PROVE RulesInv'
    <2>1. IsFiniteSet(rules') /\ Cardinality(rules') = Cardinality(rules) + 1
      BY <1>2, FS_AddElement DEF LoadRule, RulesInv
    <2>2. Cardinality(rules) \in Nat
      BY FS_CardinalityType DEF RulesInv
    <2>3. QED
      BY <1>2, <2>1, <2>2, PolicyAssumption DEF LoadRule, RulesInv
  <1>3. ASSUME NEW rule \in Rules, DropRule(rule) PROVE RulesInv'
    <2>1. IsFiniteSet(rules') /\ Cardinality(rules') = Cardinality(rules) - 1
      BY <1>3, FS_RemoveElement DEF DropRule, RulesInv
    <2>2. Cardinality(rules) \in Nat
      BY FS_CardinalityType DEF RulesInv
    <2>3. QED
      BY <1>3, <2>1, <2>2, PolicyAssumption DEF DropRule, RulesInv
  <1>4. QED
    BY <1>1, <1>2, <1>3 DEF Next, vars, Grant, Consume, Expire

LEMMA GrantStep == GrantInv /\ [Next]_vars => GrantInv'
  <1> SUFFICES ASSUME GrantInv, [Next]_vars PROVE GrantInv'
    OBVIOUS
  <1>1. CASE UNCHANGED grant
    BY <1>1 DEF GrantInv
  <1>2. ASSUME NEW approval \in Grants, Grant(approval) PROVE GrantInv'
    BY <1>2, PolicyAssumption DEF Grant, GrantInv
  <1>3. CASE Consume
    <2>1. PICK given \in Grants :
            grant = [disposition |-> given.disposition, binding |-> given.binding,
                     consumed |-> grant.consumed, expired |-> grant.expired]
      BY <1>3 DEF Consume, GrantInv
    <2>2. grant' = [disposition |-> given.disposition, binding |-> given.binding,
                    consumed |-> TRUE, expired |-> grant.expired]
      <3> DEFINE d == given.disposition  b == given.binding
                 c == grant.consumed     e == grant.expired
      <3>1. grant = Marked(d, b, c, e)
        BY <2>1 DEF Marked
      <3>2. grant' = [grant EXCEPT !.consumed = TRUE]
        BY <1>3 DEF Consume
      <3>3. grant' = Marked(d, b, TRUE, e)
        <4> HIDE DEF d, b, c, e
        <4>1. DOMAIN grant = {"disposition", "binding", "consumed", "expired"}
          BY <3>1, Fields
        <4>2. QED
          BY <3>1, <3>2, <4>1 DEF Marked
      <3>4. QED
        BY <3>3 DEF Marked
    <2>3. grant.disposition = "ALLOW_ONCE"
      BY <1>3 DEF Consume
    <2>4. grant'.disposition = "ALLOW_ONCE" /\ grant'.consumed = TRUE
          /\ grant'.expired = grant.expired
      BY <2>1, <2>2, <2>3
    <2>5. QED
      BY <2>2, <2>4 DEF GrantInv
  <1>4. CASE Expire
    <2>1. PICK given \in Grants :
            grant = [disposition |-> given.disposition, binding |-> given.binding,
                     consumed |-> grant.consumed, expired |-> grant.expired]
      BY <1>4 DEF Expire, GrantInv
    <2>2. grant' = [disposition |-> given.disposition, binding |-> given.binding,
                    consumed |-> grant.consumed, expired |-> TRUE]
      <3> DEFINE d == given.disposition  b == given.binding
                 c == grant.consumed     e == grant.expired
      <3>1. grant = Marked(d, b, c, e)
        BY <2>1 DEF Marked
      <3>2. grant' = [grant EXCEPT !.expired = TRUE]
        BY <1>4 DEF Expire
      <3>3. grant' = Marked(d, b, c, TRUE)
        <4> HIDE DEF d, b, c, e
        <4>1. DOMAIN grant = {"disposition", "binding", "consumed", "expired"}
          BY <3>1, Fields
        <4>2. QED
          BY <3>1, <3>2, <4>1 DEF Marked
      <3>4. QED
        BY <3>3 DEF Marked
    <2>3. grant'.disposition = grant.disposition /\ grant'.consumed = grant.consumed
          /\ grant'.expired = TRUE
      BY <2>1, <2>2
    <2>4. grant.consumed => grant.disposition = "ALLOW_ONCE"
      BY <1>4 DEF Expire, GrantInv
    <2>5. QED
      BY <2>2, <2>3, <2>4 DEF GrantInv
  <1>5. QED
    BY <1>1, <1>2, <1>3, <1>4 DEF Next, vars, LoadRule, DropRule

(* Both hold always. *)
LEMMA Held == Spec => [](RulesInv /\ GrantInv)
  <1>1. Init => RulesInv /\ GrantInv
    BY FS_EmptySet, PolicyAssumption DEF Init, RulesInv, GrantInv
  <1>2. QED
    BY <1>1, RulesStep, GrantStep, PTL DEF Spec

(* evaluate answers with one of its four decisions, and what it judges by   *)
(* are rules that were loaded and an approval that was granted.             *)
THEOREM TypeCorrect == Spec => []TypeOK
  <1>1. ASSUME RulesInv, GrantInv PROVE TypeOK
    <2>1. ASSUME grant # None
          PROVE  \E given \in Grants : /\ grant.disposition = given.disposition
                                      /\ grant.binding = given.binding
      <3>1. PICK given \in Grants :
              grant = [disposition |-> given.disposition, binding |-> given.binding,
                       consumed |-> grant.consumed, expired |-> grant.expired]
        BY <1>1, <2>1 DEF GrantInv
      <3>2. QED
        BY <3>1
    <2>2. \A request \in Requests : Answer(request) \in Decisions \union {"BLOCKED_CAPABILITY"}
      BY DEF Answer, Evaluate, Decisions
    <2>3. QED
      BY <1>1, <2>1, <2>2 DEF TypeOK, RulesInv, GrantInv
  <1>2. QED
    BY <1>1, Held, PTL

(* An approval opens nothing but the very request it was given for, of a    *)
(* decision that asked for one.                                             *)
THEOREM ApprovalBinds == Spec => []ApprovalIsForThis
  <1>1. ASSUME GrantInv,
               NEW request \in Requests,
               Answer(request) = "ALLOW", Evaluate(request, rules, None) # "ALLOW"
        PROVE  /\ Evaluate(request, rules, None) = "APPROVAL_REQUIRED"
               /\ grant.disposition \in {"ALLOW_ONCE", "ALLOW_RUN"}
               /\ ~grant.consumed /\ ~grant.expired
               /\ request.binding # None
               /\ ~RequiresNewApproval(grant.binding, request.binding)
    <2>1. /\ ~Inadmissible(request)
          /\ Combine(MatchingRules(request, rules)) \notin {"DENY", "ALLOW"}
          /\ request.enforceable
          /\ grant # None /\ ApprovalSatisfies(grant, request.binding)
      BY <1>1 DEF Answer, Evaluate
    <2>2. Evaluate(request, rules, None) = "APPROVAL_REQUIRED"
      BY <1>1, <2>1 DEF Evaluate
    <2>3. grant.disposition \in Dispositions \ {"DENY"}
      <3>1. PICK given \in Grants :
              grant = [disposition |-> given.disposition, binding |-> given.binding,
                       consumed |-> grant.consumed, expired |-> grant.expired]
        BY <1>1, <2>1 DEF GrantInv
      <3>2. grant.disposition = given.disposition
        BY <3>1
      <3>3. QED
        BY <2>1, <3>2, PolicyAssumption DEF ApprovalSatisfies
    <2>4. ~RequiresNewApproval(grant.binding, request.binding)
      BY <2>1 DEF ApprovalSatisfies, RequiresNewApproval, SameElements
    <2>5. QED
      BY <2>1, <2>2, <2>3, <2>4 DEF ApprovalSatisfies, Dispositions
  <1>2. GrantInv => ApprovalIsForThis
    BY <1>1 DEF ApprovalIsForThis
  <1>3. QED
    BY <1>2, Held, PTL
=============================================================================
