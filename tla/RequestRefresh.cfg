CONSTANTS
    read = read
    poll = poll
    lock = lock
    status = status
    Nobody = Nobody
    Requests = {read, poll}
    Urls = {status}
    MaxRetries = 1
    MaxRefreshes = 2
    Lockout429 = 1
    Lockout430 = 2
    RetryAfterHolds = {1}
    Proactive = TRUE
    Ola = TRUE
    FallbackSets = 1
    MaxExpiries = 2
    MaxMintFailures = 1
    UrlOf <- MCUrlOf
SPECIFICATION Spec
INVARIANTS
    SendsBounded
    TypeOK
    NoNeedlessMint
    MinterWaits
PROPERTIES
    CallsWindDown
CHECK_DEADLOCK FALSE
