CONSTANTS
  file = file
  None = None
  Files = {file}
  Scenarios <- ScenariosDef
  Usages <- UsagesDef
  Price <- PriceDef
  HookTokens = {0, 1, 2}
  ResponseBudget = 1
  Repetitions = 1
SPECIFICATION Spec
INVARIANTS TypeOK SuccessIsEarned ReleaseIsEarned
PROPERTIES RunEnds
CHECK_DEADLOCK FALSE
