SPECIFICATION Spec
CONSTANTS
    Events = {e1}
    Requests = {r1, r2}
    Workers = {w1, w2}
    Payloads <- AnyPayload
    Lease = 1
    MaxClock = 2
    MaxCrashes = 0
SYMMETRY Symmetry
INVARIANTS AcceptedOnce OneLeadPerEvent
PROPERTY KeepsPromise
CHECK_DEADLOCK FALSE
