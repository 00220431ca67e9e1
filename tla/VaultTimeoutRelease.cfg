SPECIFICATION Spec
CONSTANTS
    Clients = {c}
    Nobody = Nobody
    Never = Never
    Timeouts = {2, Never}
    MaxTime = 3
    MaxUnlocks = 1
    MaxLocks = 1
    MaxChanges = 1
    MaxRollbacks = 1
    MaxRestarts = 1
    MaxFaults = 1
    MaxDisturbances = 2
    MaxPause = 9
CHECK_DEADLOCK FALSE
INVARIANTS TypeOK EffectiveTimeout
PROPERTIES ReleasesAreProved NeverBehindRelease
