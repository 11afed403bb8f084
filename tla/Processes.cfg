\* Three terminals, six control blocks, as in the kernel.  A program is executed
\* only from the visible terminal, once the three base shells run.
CONSTANTS
    NUM_TERMS = 3
    MAX_PCB = 6
    BackgroundExec = FALSE
    EarlyExec = FALSE
SPECIFICATION FairSpec
INVARIANTS
    TypeOK
    CurrentPidRuns
    OwnMemory
    ResumePointsValid
    ParentTableAgrees
    OneResumer
    SessionsPartition
    IInv
PROPERTIES
    ImplementsSessions
    EveryTerminalRuns
