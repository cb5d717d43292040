SPECIFICATION FairSpec
CONSTANTS
    Jobs = {j1}
    Workers = {w1, w2}
    MaxAttempts = 2
    Lease = 3
    MaxFaults = 2
    Timely = FALSE
    NULL = NULL
INVARIANTS ClaimsAreDistinct
PROPERTIES ClaimTakesRunnable JobsFinish
