SPECIFICATION Spec
CONSTANTS
  kTransitionTime = 15
  kFullSoc = 100
  MinSoc = 92
  Gaps <- MCGaps
INVARIANTS TypeOK CycleHidden NotBelowGauge
PROPERTIES NeverRises NoCliff Converges
