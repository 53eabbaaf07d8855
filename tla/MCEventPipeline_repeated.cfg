SPECIFICATION Spec
CONSTANTS
    Events = {e1}
    Requests = {r1}
    Workers = {w1}
    Payloads <- AnyPayload
    Lease = 1
    MaxClock = 3
    MaxCrashes = 0
INVARIANT ConvertedOnce
CHECK_DEADLOCK FALSE
