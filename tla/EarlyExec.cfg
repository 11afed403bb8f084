\* As Processes.cfg, but a program may be executed before the three base shells
\* run: a line typed while the kernel boots is read by the first of them at once.
CONSTANTS
    NUM_TERMS = 3
    MAX_PCB = 6
    BackgroundExec = FALSE
    EarlyExec = TRUE
SPECIFICATION Spec
INVARIANT OnlyBaseShellsRestart
