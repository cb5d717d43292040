SPECIFICATION FairSpec
CONSTANTS
    Jobs = {j1, j2}
    Workers = {w1, w2}
    MaxAttempts = 2
    Lease = 1
    MaxFaults = 1
    Timely = TRUE
    NULL = NULL
INVARIANTS OneWorkerPerJob RunnableHasContent AttemptsBounded
PROPERTIES TerminalIsFinal ImplementsContract JobsFinish
