\* CLASS_PROBE_OVERRIDE of 2 units: clamped by the 1-unit registers, a full chunk of
\* AVX2, part of a chunk of AVX-512
CONSTANTS
  Unit = 2
  Override = 4
  Lengths = {0,1,2,3,4,5,7,8,9,11,12,15,16,17,20,21,24,25,26}
  Needles = {2}
  SomeBuilds <- TierBuilds
  Backends = {}
  Inputs <- SparseInputs
  None = None
SPECIFICATION Spec
INVARIANTS CallCorrect ProbeInBounds
