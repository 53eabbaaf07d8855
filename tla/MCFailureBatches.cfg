SPECIFICATION LiveSpec
CONSTANTS
    l1 = l1  e1 = e1  e2 = e2
    Items = {l1, e1, e2}
    StreamOf <- MCStreams
    Workers = {w1}
    Codes = {421, 550}
    Interval = 2
    Retry = 1
    MaxItems = 1
    MaxClock = 2
    MaxFaults = 1
INVARIANTS TypeOK ReportedTruly HandledByItsClause NotifiedWasMailed OldestFirst TriesApart
PROPERTIES KeepsPromise EveryFailureMailed
CHECK_DEADLOCK FALSE
