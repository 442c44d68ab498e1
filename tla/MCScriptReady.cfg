SPECIFICATION ScriptSpec
CHECK_DEADLOCK FALSE
CONSTANTS
  NumLuns = 2
  Twin <- AllTwin
  UsesXbl = TRUE
  ShortWrites = FALSE
  MaxFaults = 2
INVARIANTS
  ReadyForUpdate
