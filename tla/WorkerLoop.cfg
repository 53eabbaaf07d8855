SPECIFICATION Spec
CONSTANTS
    Events = {e1, p1, p2}
    Poison = {p1, p2}
    Lease = 2
    Retry = 2
    MaxFaults = 1
INVARIANTS TypeOK
PROPERTIES ChecksApart EveryOperationRuns OthersGetTheirTurn
CHECK_DEADLOCK FALSE
