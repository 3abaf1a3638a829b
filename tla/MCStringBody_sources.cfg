\* every source of up to 6 bytes: two runs with a byte between them and a quote
CONSTANTS
  MaxLen = 6
  Inputs <- AllSources
  None = None
SPECIFICATION FairSpec
INVARIANTS TypeOK BodyExact
PROPERTIES RoundsMove Terminates BodySpec
