\* the comment on SCALAR_THRESHOLD
CONSTANTS
  Unit = 16
  Override = 0
  Lengths = {16, 24, 31}
  Needles = {2}
  SomeBuilds <- TierBuilds
  Backends = {}
  Inputs <- SparseInputs
  None = None
SPECIFICATION Spec
INVARIANTS ThresholdShared
