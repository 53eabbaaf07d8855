SPECIFICATION LiveSpec
CONSTANTS
    Workers = {w1, w2}
    Codes = {421, 550}
    Retry = 1
    MaxPauses = 2
    MaxFaults = 1
INVARIANTS TypeOK AlertBelongsToPause HeardIsRecorded
PROPERTY EveryPauseAlerted
CHECK_DEADLOCK FALSE
