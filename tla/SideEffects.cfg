SPECIFICATION Spec
CONSTANTS
  Workers = {w1, w2}
  t1 = t1
  t2 = t2
  a = a
  f = f
  Txns = {t1, t2}
  Approvals = {a, f}
  NoApproval = NoApproval
  Asks <- OneApproval
  Foreign = {f}
  Exclusive = TRUE
  MaxAttempts = 2
SYMMETRY WorkerSymmetry
INVARIANTS TypeOK ApprovalSpentOnce EffectsApproved ObservedIsThere
PROPERTIES ImplementsOnce
CHECK_DEADLOCK FALSE
