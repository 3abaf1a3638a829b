\* every arrangement of needles and non-ASCII bytes in inputs of up to 6 bytes
CONSTANTS
  MaxLen = 6
  Inputs <- AllInputs
  None = None
SPECIFICATION Spec
INVARIANTS TypeOK TailFindExact PrefixLenExact
PROPERTIES Progresses
