CONSTANTS
    read = read
    poll = poll
    lock = lock
    status = status
    Nobody = Nobody
    Requests = {read, lock}
    Urls = {status}
    MaxRetries = 2
    MaxRefreshes = 2
    Lockout429 = 1
    Lockout430 = 2
    RetryAfterHolds = {1}
    Proactive = FALSE
    Ola = FALSE
    FallbackSets = 0
    MaxExpiries = 1
    MaxMintFailures = 1
    UrlOf <- MCUrlOf
SPECIFICATION FairSpec
INVARIANTS
    SendsBounded
PROPERTIES
    EveryCallEnds
    NoSendWhileLockedOut
CHECK_DEADLOCK FALSE
