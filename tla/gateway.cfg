SPECIFICATION FairSpec
CONSTANTS
    Requests = {r1, r2}
    primary = primary
    fallback = fallback
    Names = {primary, fallback}
    Chain <- TwoProviders
    FailureThreshold = 2
    ResetAfter = 2
    MaxAttempts = 2
    Deadline = 2
    Delays = {0, 1}
    NULL = NULL
INVARIANTS TypeOK ClosedBelowThreshold TrialHasRequest RetryBeforeDeadline
PROPERTIES RequestsAnswered BreakerCloses
