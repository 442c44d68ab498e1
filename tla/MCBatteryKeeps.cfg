SPECIFICATION Spec
CONSTANTS
  kTransitionTime = 15
  kFullSoc = 100
  MinSoc = 92
  Gaps <- MCGaps
INVARIANTS KeepsFull
