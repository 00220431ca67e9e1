SPECIFICATION Spec
CONSTANTS
    Accounts = {a, b}
    Servers = {s1, s2}
    Clients = {c}
    NoAccount = NoAccount
    NoServer = NoServer
    Reasons = {"login", "lock", "switchAccount", "logout", "removeAccount", "serverChange", "keyRotation"}
    MaxTransitions = 2
    MaxRestarts = 1
SYMMETRY Symmetry
CHECK_DEADLOCK FALSE
INVARIANTS TypeOK AccountLeasesFenced GateNamesStorage RotatedNeverReused
PROPERTIES BlockedInstallsNothing
