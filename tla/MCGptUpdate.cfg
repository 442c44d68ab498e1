SPECIFICATION Spec
CONSTANTS
  NumLuns = 3
  Twin <- OuterTwins
  UsesXbl = TRUE
  ShortWrites = FALSE
INVARIANTS
  TypeOK
  Bootable
  ReleasedNotRunning
PROPERTIES
  UnfitUntouched
  ImplementsFailsafe
