\* the README's claim for skip_class!
CONSTANTS
  Unit = 16
  Override = 0
  Lengths <- Boundaries
  Needles = {2}
  SomeBuilds <- TierBuilds
  Backends = {}
  Inputs <- BlankInputs
  None = None
SPECIFICATION Spec
INVARIANTS CustomAsBuiltIn
