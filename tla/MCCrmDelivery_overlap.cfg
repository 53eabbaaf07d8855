SPECIFICATION Spec
CONSTANTS
    Leads = {1}
    Workers = {w1, w2}
    EmailLess = {}
    KnownEmails = {}
    Lease = 1
    RetryDelay <- MCRetryDelay
    ReconInitialDelay = 1
    NotFoundDelay <- MCNotFoundDelay
    ErrorDelay <- MCErrorDelay
    Statuses <- MCStatuses
    Headers <- MCHeaders
    MaxClock = 2
    MaxCrashes = 0
    MaxClears = 1
INVARIANTS TypeOK AtMostOneContact TruthfulOutcome RetryBudget ScheduleMatchesStatus
SYMMETRY Symmetry
PROPERTY KeepsPromise
CHECK_DEADLOCK FALSE
