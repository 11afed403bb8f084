SPECIFICATION Spec
CONSTANTS
  NUM_TERMS = 2
  MAX_PCB = 3
  NUM_FDS = 4
  Lengths = {1}
  Directory = 1
  Sizes = {1}
  MaxUsed = 2
INVARIANTS
  TypeOK
  IndexesAgree
PROPERTIES
  OwnTableOnly
  ClosedStaysPut
