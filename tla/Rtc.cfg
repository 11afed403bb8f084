SPECIFICATION FairSpec
CONSTANTS
  NUM_TERMS = 2
  max_freq = 4
INVARIANTS
  TypeOK
  ReadWaits
  ReadBounded
PROPERTIES
  ReadReturns
