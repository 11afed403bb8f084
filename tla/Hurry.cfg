\* As Terminals.cfg, but the user may press Enter or Alt+Fn before the entered
\* line was read.
SPECIFICATION Spec
CONSTANTS
  NUM_TERMS = 2
  BUFSIZE = 3
  TAB_LENGTH = 2
  Keys = {"a"}
  SPACE = "a"
  ReadSizes = {1, 3}
  PlainFKeys = FALSE
  Hurry = TRUE
  BackgroundHalts = FALSE
  FullLines = FALSE
INVARIANT
  ReadEndsLine
