SPECIFICATION EvidenceSpec
CONSTANTS
  c1 = c1
  c2 = c2
  k1 = k1
  k2 = k2
  q1 = q1
  q2 = q2
  q3 = q3
  Claims = {c1, c2}
  RequiredKinds <- Kinds
  Checks = {k1, k2}
  CheckSpec <- Specs
  Criteria = {q1, q2, q3}
  Requirement <- EveryMode
  EvidenceRefs <- Reviews
  Waivers <- UserWaiver
  Configs = {old, new}
  None = None
  MaxCandidate = 1
  MaxTime = 1
INVARIANTS SatisfiedIsEvidenced AcceptedWhereLanded
PROPERTY EditOpensNothing
CHECK_DEADLOCK FALSE
