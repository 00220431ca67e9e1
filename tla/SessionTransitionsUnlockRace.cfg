SPECIFICATION Spec
CONSTANTS
    Accounts = {a, b}
    Servers = {s1}
    Clients = {c}
    NoAccount = NoAccount
    NoServer = NoServer
    Reasons = {"unlock", "switchAccount"}
    MaxTransitions = 2
    MaxRestarts = 0
SYMMETRY Symmetry
CHECK_DEADLOCK FALSE
INVARIANTS UnlockedNamesStorage
