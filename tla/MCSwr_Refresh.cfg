CONSTANTS
    None = None
    MaxInstant = 100
    Defaults <- Resting
    Keys <- OneKey
    KeyPrefixes = {}
    Mutators = {m1}
    OptionChoices <- RestingOrPolling
    FlagChoices <- DefaultFlags
    Results = {"value"}
    Policies = {}
    EventKinds = {"Focus"}
    Apis = {"subscribe", "mutate", "broadcast"}
    MaxHandles = 2
    MaxCalls = 2
    MaxTime = 3
    MaxLag = 0
SPECIFICATION Spec
CHECK_DEADLOCK FALSE
INVARIANTS
    RefreshKeepsTicking
    TicksDoNotMultiply
