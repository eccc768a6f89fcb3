SPECIFICATION Spec
CONSTANTS
  Requesters = {a, b}
  Criteria = {k}
  UsedCommands <- UsedTransitions
  UsedStatuses = {"SATISFIED", "INCONCLUSIVE"}
  MaxVersion = 13
  MaxCandidate = 1
SYMMETRY Symmetry
INVARIANTS TypeOK ReviewedUnlessReconciled DriftReconciled AcceptedIsIntegrated
PROPERTIES TerminalAbsorbing
CHECK_DEADLOCK FALSE
