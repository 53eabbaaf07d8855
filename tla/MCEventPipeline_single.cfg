SPECIFICATION LiveSpec
CONSTANTS
    Events = {e1, e2}
    Requests = {r1}
    Workers = {w1}
    Payloads <- ConvertedOrRefused
    Lease = 1
    MaxClock = 5
    MaxCrashes = 1
INVARIANTS TypeOK ConvertedOnce
PROPERTY EveryEventFinishes
CHECK_DEADLOCK FALSE
