SPECIFICATION Spec
CONSTANTS
  Rules <- PlainRules
  Requests <- AllRequests
  Grants = {}
  Effects = {"READ", "NETWORK"}
  Kinds = {"repo_path", "process"}
  PrefixKinds = {"repo_path"}
  Labels = {"SECRET_DERIVED"}
  Classes <- SomeClasses
  MaxRules = 3
  None = None
PROPERTIES LowerLayerNeverOpens
