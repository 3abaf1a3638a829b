\* NEON's shape, scaled down: several mask bits per lane that fill the word, and
\* a probe narrower than a chunk after which the loop restarts at zero
CONSTANTS
  Backends <- OnlyNibble
  MaxLen = 12
  Inputs <- AllInputs
  None = None
SPECIFICATION FairPrefixSpec
INVARIANTS PrefixTypeOK ReturnsFirstStop LoadsInBounds ShiftFits NoDuplicateWork StopsEarly
PROPERTIES Terminates ScanSpec
