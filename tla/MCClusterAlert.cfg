SPECIFICATION LiveSpec
CONSTANTS
    Leads = {l1, l2, l3}
    Workers = {w1}
    Codes = {421, 550}
    Window = 6
    Threshold = 2
    Retry = 3
    MaxClock = 9
    MaxFaults = 1
INVARIANTS TypeOK AlertedWasMailed EpisodeIntact NothingSwallowed CountedOnce
PROPERTIES EveryEpisodeAlerted ClusterInTime
CHECK_DEADLOCK FALSE
