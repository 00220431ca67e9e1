SPECIFICATION Spec
CONSTANTS
    a1 = a1
    a2 = a2
    timed = timed
    asked = asked
    None = None
    First = a1
    Accounts = {a1, a2}
    Slots = {timed, asked}
    Timed = timed
    MaxMarkers = 1
    MaxVersion = 1
    MaxQueued = 1
    MaxDisturbances = 1
INVARIANTS TypeOK UnseenIsMarked CacheIsTheAccounts
PROPERTIES ForcedIsFresh CacheCatchesUp
