SPECIFICATION Spec
CONSTANTS
  Versions = {"v1", "v2"}
  Configs = {"c1"}
  Mbn = "mbn"
  max_times = 1
  MaxEvents = 2
INVARIANTS
  TypeOK
  ConfigWhole
  DeathNoticed
PROPERTIES
  ScriptsEnd
