\* As Processes.cfg, but a program may be executed by a process whose terminal is
\* not the visible one: Enter, then Alt+Fn before the shell's turn comes.
CONSTANTS
    NUM_TERMS = 3
    MAX_PCB = 6
    BackgroundExec = TRUE
    EarlyExec = FALSE
SPECIFICATION Spec
INVARIANT CurrentPidRuns
