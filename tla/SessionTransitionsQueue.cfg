SPECIFICATION FairSpec
CONSTANTS
    Accounts = {a, b}
    Servers = {s1}
    Clients = {c}
    NoAccount = NoAccount
    NoServer = NoServer
    Reasons = {"unlock", "lock", "logout", "login", "serverChange", "keyRotation"}
    MaxTransitions = 2
    MaxRestarts = 0
CHECK_DEADLOCK FALSE
INVARIANTS SessionLeasesFenced FenceFollowsQueue
PROPERTIES QueueDrains PartialNotActivated
