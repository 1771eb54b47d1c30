SPECIFICATION FairSpec
CONSTANTS
    NRows = 2
    Workers = {w1}
    Operators = {}
    Lease = 2
    MaxAttempts = 2
    MaxRetries = 1
    MaxCrashes = 1
    AttemptBound = 6
INVARIANTS
    RetryBudget
PROPERTIES
    EventuallySettled
CHECK_DEADLOCK FALSE
