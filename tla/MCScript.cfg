SPECIFICATION ScriptSpec
CHECK_DEADLOCK FALSE
CONSTANTS
  NumLuns = 3
  Twin <- AllTwin
  UsesXbl = TRUE
  ShortWrites = FALSE
  MaxFaults = 3
PROPERTIES
  BackupIsForGood
  UpdateCompletes
