\* NEON's shape, scaled down: two mask bits per lane, a word the lanes fill
CONSTANTS
  Backends <- OnlyNibble
  MaxLen = 12
  Inputs <- AllInputs
  None = None
SPECIFICATION FoldSpec
INVARIANTS FoldTypeOK CountsEachMatchOnce ReturnsLastMatch CoversOnce LoadsInBounds
PROPERTY TallySpec
