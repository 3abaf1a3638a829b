\* every build on every processor, the real 16-byte unit, the boundary lengths
CONSTANTS
  Unit = 16
  Override = 0
  Lengths <- Boundaries
  Needles = {0, 1, 2}
  SomeBuilds <- AllBuilds
  Backends = {}
  Inputs <- BlankInputs
  None = None
SPECIFICATION Spec
INVARIANTS FeatureSafe GuardsAreDefensive DispatchOrder
