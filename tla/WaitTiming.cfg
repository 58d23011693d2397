SPECIFICATION WaitSpec
CONSTANTS
    Targets = {1, 2}
    timeout_seconds = 4
    poll_interval_seconds = 2
    Latency = 2
    Jitter = 1
INVARIANTS
    NothingOverlooked
    EndsOnTime
PROPERTIES
    WaitEnds
CHECK_DEADLOCK FALSE
