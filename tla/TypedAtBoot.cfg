CONSTANTS
    NUM_ROWS = 2
    NUM_COLS = 3
    Chars = {"a"}
    BLANK = "blank"
    NEWLINE = "newline"
    BACKSPACE = "backspace"
    NUM_TERMS = 2
    Keys = {"a"}
    LineMax = 4
    MaxPrompt = 1
    DrawCells = {1}
    MaxOutput = 4
    Habits = {"TypesAtBoot"}
SPECIFICATION Spec
INVARIANT OwnScreenMapped
