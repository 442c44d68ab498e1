SPECIFICATION Spec
CONSTANTS
  Handles <- TwoHandles
  MaxEdits = 3
INVARIANTS
  TypeOK
  CommitPersists
  SomeTableWhole
