\* the registers at their real width of 16, 32 and 64 bytes
CONSTANTS
  Unit = 16
  Override = 0
  Lengths <- LongBoundaries
  Needles = {2}
  SomeBuilds <- TierBuilds
  Backends = {}
  Inputs <- SparseInputs
  None = None
SPECIFICATION Spec
INVARIANTS CallCorrect LoadsInBounds
