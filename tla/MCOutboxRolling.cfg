SPECIFICATION Spec
CONSTANTS
    NRows = 1
    w1 = w1
    w2 = w2
    o1 = o1
    o2 = o2
    Workers <- MCWorkers
    Operators <- MCOperators
    Lease = 2
    MaxAttempts = 2
    MaxRetries = 1
    MaxCrashes = 1
    AttemptBound = 4
SYMMETRY Symmetric
INVARIANTS
    ClaimsDistinct
    LiveSentWasAccepted
    ManualNeverAutomatic
    RevealedAtMostOnce
PROPERTIES
    ImplementsLifecycle
CHECK_DEADLOCK FALSE
