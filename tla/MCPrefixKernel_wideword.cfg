\* SIMD128's shape, scaled down: one mask bit per lane in a word twice as wide,
\* whose upper half must be masked off, and a probe of a whole chunk that is
\* credited to the loop
CONSTANTS
  Backends <- OnlyWideWord
  MaxLen = 12
  Inputs <- AllInputs
  None = None
SPECIFICATION PrefixSpec
INVARIANTS ReturnsFirstStop NoDuplicateWork
