\* As Processes.cfg: what execute returns with every control block in use.
CONSTANTS
    NUM_TERMS = 3
    MAX_PCB = 6
    BackgroundExec = FALSE
    EarlyExec = FALSE
SPECIFICATION Spec
INVARIANT FailureIsReported
