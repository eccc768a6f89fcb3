SPECIFICATION Spec
CONSTANTS
  Rules <- AllRules
  Requests <- AllRequests
  Grants <- AllGrants
  Effects = {"READ", "NETWORK"}
  Kinds = {"repo_path", "process"}
  PrefixKinds = {"repo_path"}
  Labels = {"SECRET_DERIVED"}
  Classes <- SomeClasses
  MaxRules = 3
  None = None
INVARIANTS TypeOK OpenedAboveEveryDeny ApprovalIsForThis
PROPERTIES DenyOnlyNarrows
