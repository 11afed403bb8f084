SPECIFICATION FairSpec
CONSTANTS
  NUM_TERMS = 2
  BUFSIZE = 3
  TAB_LENGTH = 2
  Keys = {"a"}
  SPACE = "a"
  ReadSizes = {1, 3}
  PlainFKeys = FALSE
  Hurry = FALSE
  BackgroundHalts = FALSE
  FullLines = FALSE
INVARIANTS
  TypeOK
  EditConsistent
  ReadEndsLine
PROPERTIES
  ImplementsLines
  EnteredLineIsRead
