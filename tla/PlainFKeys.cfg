\* As Terminals.cfg, but the user may press a function key without Alt.
SPECIFICATION Spec
CONSTANTS
  NUM_TERMS = 2
  BUFSIZE = 3
  TAB_LENGTH = 2
  Keys = {"a"}
  SPACE = "a"
  ReadSizes = {1, 3}
  PlainFKeys = TRUE
  Hurry = FALSE
  BackgroundHalts = FALSE
  FullLines = FALSE
PROPERTY
  FKeysKeepLines
