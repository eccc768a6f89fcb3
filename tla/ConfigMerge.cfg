SPECIFICATION Spec
CONSTANTS
  Inputs <- AllInputs
  Defaults <- SomeDefaults
  Schema <- SomeSchema
  StrictBools <- Booleans
  Denials <- DenyWins
  Allowlists <- Lists
  Ceilings <- Ceiling
  Ranks = {0, 1, 2}
  EnvPath <- SomeEnvPath
  Adapter <- SomeAdapter
  None = None
  Garbled = Garbled
INVARIANTS NeverWider EffectiveIsIntersection OrdinaryIsLast
CHECK_DEADLOCK FALSE
