SPECIFICATION Spec
CONSTANTS
    Leads = {1}
    Workers = {w1}
    EmailLess = {}
    KnownEmails = {}
    Lease = 1
    RetryDelay <- MCRetryDelay
    ReconInitialDelay = 1
    NotFoundDelay <- MCNotFoundDelay
    ErrorDelay <- MCErrorDelay
    Statuses <- MCRetryStatuses
    Headers <- MCHeaders
    MaxClock = 4
    MaxCrashes = 1
    MaxClears = 1
PROPERTY RetryAfterRespected
CHECK_DEADLOCK FALSE
