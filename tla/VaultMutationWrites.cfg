SPECIFICATION Spec
CONSTANTS
    Accounts = {a}
    Tasks = {t1, t2, t3}
    LaneIds = {l1, l2}
    NoAccount = NoAccount
    NoTask = NoTask
    NoLane = NoLane
    CallKinds = {"mutation", "sync", "query"}
    MaxAccounts = 1
    MaxPending = 2
    MaxGeneration = 1
    MaxRestarts = 1
SYMMETRY Symmetry
CHECK_DEADLOCK FALSE
INVARIANTS IInv WriteAhead NoBlindWrite AnswersAreHonest
PROPERTIES MergedAfterWrites ImplementsWriteAhead
