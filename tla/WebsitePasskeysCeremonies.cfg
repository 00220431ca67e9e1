SPECIFICATION Spec
CONSTANTS
    create = create
    use = use
    None = None
    Calls <- CreateThenUse
    Creates <- OnlyCreate
    MaxPorts = 2
    MaxTroubles = 1
CHECK_DEADLOCK FALSE
INVARIANTS ToldIsTrue
PROPERTIES SameSession
