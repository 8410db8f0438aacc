CONSTANTS
    Interval = 5
    Floor = 3
    Buffer = 2
    Retry = 1
    MaxStreak = 2
    Advance = 1
    Jitter = 1
    Backoff <- MCBackoff
    None = None
    MaxTime = 24
    MaxCrashes = 1
SPECIFICATION Spec
INVARIANTS
    TypeOK
    FastPollsBounded
PROPERTY
    DropRefillsTheBudget
CHECK_DEADLOCK FALSE
