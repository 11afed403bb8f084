CONSTANTS
    FILENAME_LEN = 2
    blockSize = 2
    Word = 64
    Entries <- MCEntries
    Inodes <- MCInodes
    Blocks <- MCBlocks
    Terminals = {1, 2}
    Commands <- MCCommandsOf
    ImageSize = 20
    ArgsSize = 3
    ReadSizes = {1, 3, 4}
    CAT <- MCCAT
    LS <- MCLS
    DOT <- MCDOT
    ELF <- MCELF
    SP = "space"
    Habits = {"TwoSpaces"}
SPECIFICATION Spec
INVARIANT PrintsWhatWasTyped
