------------------------------ MODULE MCPolicy ------------------------------
(* A small instance of Policy: two paths, the rules the layers may hold for *)
(* them and the requests that tell the algebra's conditions apart.          *)
EXTENDS Policy, TLC

Path == "repo_path"
Paths == {"file", "other"}

\* An EXACT rule is about one path, the others are about both.
RuleOf(authority, match, decision) ==
  [authority |-> authority, effect |-> "READ", kind |-> Path, match |-> match,
   keys |-> IF match = "EXACT" THEN {"file"} ELSE Paths, decision |-> decision]

TrustedRules ==
  { RuleOf(a, m, d) : a \in DOMAIN AuthorityRank, m \in DOMAIN Specificity, d \in Decisions }
OddRules ==
  { RuleOf("MODEL_GENERATED", "EXACT", "ALLOW"), RuleOf("USER_TRUSTD", "EXACT", "ALLOW"),
    RuleOf("SYSTEM_TRUSTED", "EXACT", "allow"),
    [RuleOf("SYSTEM_TRUSTED", "EXACT", "ALLOW") EXCEPT !.effect = "NETWORK"],
    [RuleOf("SYSTEM_TRUSTED", "PREFIX", "ALLOW") EXCEPT !.kind = "process"] }

Binding(effects, scope, extra) ==
  [effect_set |-> effects, normalized_resources |-> <<"file">>, scope |-> scope, extra |-> extra]

Asked == Binding(<<"READ">>, "call", "-")
Request ==
  [effect |-> "READ", kind |-> Path, key |-> "file", enforceable |-> TRUE, taint |-> {},
   classification |-> None, ceiling |-> None, binding |-> Asked]

AllRequests ==
  { Request,
    [Request EXCEPT !.key = "other", !.binding = Binding(<<"READ">>, "later call", "-")],
    [Request EXCEPT !.binding = None],
    [Request EXCEPT !.enforceable = FALSE],
    [Request EXCEPT !.classification = "SECRET", !.ceiling = "PUBLIC"],
    [Request EXCEPT !.kind = "process"],
    [Request EXCEPT !.taint = {"typo"}] }

AllGrants ==
  [disposition : {"ALLOW_ONCE", "ALLOW_RUN", "DENY"}, consumed : {FALSE}, expired : {FALSE},
   binding : {Asked, Binding(<<"READ">>, "call", "note")}]

SomeClasses == [PUBLIC |-> 0, SECRET |-> 1]
AllRules == TrustedRules \union OddRules

\* Who holds the rules of the instance without approvals.
PlainRules == { rule \in TrustedRules : rule.decision # "APPROVAL_REQUIRED" }
=============================================================================
