\* As Terminals.cfg, but a program of a hidden terminal may end between Enter and
\* the read.
SPECIFICATION Spec
CONSTANTS
  NUM_TERMS = 2
  BUFSIZE = 3
  TAB_LENGTH = 2
  Keys = {"a"}
  SPACE = "a"
  ReadSizes = {1, 3}
  PlainFKeys = FALSE
  Hurry = FALSE
  BackgroundHalts = TRUE
  FullLines = FALSE
INVARIANT
  ReadEndsLine
