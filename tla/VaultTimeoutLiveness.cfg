SPECIFICATION FairSpec
CONSTANTS
    Clients = {c}
    Nobody = Nobody
    Never = Never
    Timeouts = {2}
    MaxTime = 3
    MaxUnlocks = 1
    MaxLocks = 1
    MaxChanges = 0
    MaxRollbacks = 0
    MaxRestarts = 1
    MaxFaults = 0
    MaxDisturbances = 2
    MaxPause = 1
CHECK_DEADLOCK FALSE
PROPERTIES TimeoutLocks
