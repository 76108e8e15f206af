CONSTANTS
    k1 = k1
    k2 = k2
    None = None
    Keys = {k1, k2}
    Needs <- Chain
    Captures = {"weak", "client", "handle"}
    MaxClients = 2
    MaxCalls = 3
SPECIFICATION FairSpec
CHECK_DEADLOCK FALSE
INVARIANTS
    SubscribersAreOwned
PROPERTIES
    WindsDown
