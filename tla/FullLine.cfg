\* As Terminals.cfg, but the user may press Space or Enter on a full line.
SPECIFICATION Spec
CONSTANTS
  NUM_TERMS = 2
  BUFSIZE = 3
  TAB_LENGTH = 2
  Keys = {"a"}
  SPACE = "a"
  ReadSizes = {1, 3}
  PlainFKeys = FALSE
  Hurry = FALSE
  BackgroundHalts = FALSE
  FullLines = TRUE
INVARIANT
  NoOverrun
