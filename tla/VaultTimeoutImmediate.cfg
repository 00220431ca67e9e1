SPECIFICATION Spec
CONSTANTS
    Clients = {c}
    Nobody = Nobody
    Never = Never
    Timeouts = {0}
    MaxTime = 3
    MaxUnlocks = 1
    MaxLocks = 0
    MaxChanges = 0
    MaxRollbacks = 0
    MaxRestarts = 0
    MaxFaults = 0
    MaxDisturbances = 0
    MaxPause = 9
CHECK_DEADLOCK FALSE
INVARIANTS NoCircularWait
