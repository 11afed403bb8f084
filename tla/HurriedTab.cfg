CONSTANTS
    NUM_TERMS = 2
    BUFSIZE = 4
    TAB_LENGTH = 2
    Chars = {"a"}
    SPACE = "space"
    MaxKeys = 3
    MaxWaiting = 2
    Habits = {"HurriesAfterTab"}
SPECIFICATION Spec
INVARIANTS
    LineAsTyped
