SPECIFICATION Spec
CONSTANTS
  Literals = {"a", "b"}
  MaxPattern = 4
  MaxPath = 4
INVARIANTS
  TypeOK
  Correct
  StepsBounded
