SPECIFICATION FairSpec
CONSTANTS
    Accounts = {a, b}
    Tasks = {t1, t2}
    LaneIds = {l1, l2}
    NoAccount = NoAccount
    NoTask = NoTask
    NoLane = NoLane
    CallKinds = {"sync", "terminal"}
    MaxAccounts = 1
    MaxPending = 2
    MaxGeneration = 2
    MaxRestarts = 0
CHECK_DEADLOCK FALSE
INVARIANTS OneTurnPerAccount NoStuckAdmission
PROPERTIES TerminalBarrier EveryCallSettles
