SPECIFICATION LiveSpec
CONSTANTS
    Leads = {1, 2}
    Workers = {w1}
    EmailLess = {}
    KnownEmails = {2}
    Lease = 1
    RetryDelay <- MCRetryDelay
    ReconInitialDelay = 1
    NotFoundDelay <- MCNotFoundDelay
    ErrorDelay <- MCErrorDelay
    Statuses <- MCStatuses
    Headers <- MCNoHeaders
    MaxClock = 2
    MaxCrashes = 1
    MaxClears = 0
INVARIANTS NoResultLost PauseStopsDelivery SingleFlight
PROPERTY EveryLeadSettles
CHECK_DEADLOCK FALSE
