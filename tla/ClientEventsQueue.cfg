SPECIFICATION FairSpec
CONSTANTS
    a1 = a1
    a2 = a2
    None = None
    First = a1
    Accounts = {a1, a2}
    MaxReceipts = 2
    MaxBatch = 2
    ServerBatch = 1
    MaxDisturbances = 2
INVARIANTS EventsAccountedFor
PROPERTIES ReaderAcceptsWriter AtLeastOnce
CHECK_DEADLOCK FALSE
