\* every tier with registers of 2, 4 and 8 bytes, every length up to 26
CONSTANTS
  Unit = 2
  Override = 0
  Lengths = {0,1,2,3,4,5,6,7,8,9,10,11,12,13,14,15,16,17,18,19,20,21,22,23,24,25,26}
  Needles = {0, 1, 2}
  SomeBuilds <- TierBuilds
  Backends = {}
  Inputs <- SparseInputs
  None = None
SPECIFICATION FairSpec
INVARIANTS TypeOK CallCorrect
PROPERTIES Terminates CallScan CallTally
