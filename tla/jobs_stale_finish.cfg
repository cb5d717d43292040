SPECIFICATION Spec
CONSTANTS
    Jobs = {j1}
    Workers = {w1, w2}
    MaxAttempts = 2
    Lease = 1
    MaxFaults = 1
    Timely = FALSE
    NULL = NULL
INVARIANTS RunnableHasContent
