CONSTANTS
    k1 = k1
    k2 = k2
    None = None
    Keys = {k1, k2}
    Needs <- Chain
    Captures = {"nothing", "handle"}
    MaxClients = 1
    MaxCalls = 3
SPECIFICATION FairSpec
CHECK_DEADLOCK FALSE
PROPERTIES
    DroppingUnsubscribes
