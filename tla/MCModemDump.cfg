SPECIFICATION Spec
CONSTANTS
  MaxQueue = 1
  Kills = TRUE
INVARIANTS TypeOK OnlyThisDump
PROPERTIES CallReturns LoggerBack
