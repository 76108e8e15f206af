CONSTANTS
    None = None
    MaxInstant = 100
    Defaults <- Timeless
    Keys <- TwoKeys
    KeyPrefixes <- UserPrefixes
    Mutators = {m1}
    OptionChoices <- OnlyTimeless
    FlagChoices <- DefaultFlags
    Results = {"value"}
    Policies = {}
    EventKinds = {"Online"}
    Apis = {"subscribe", "mutate", "invalidate", "broadcast"}
    MaxHandles = 2
    MaxCalls = 4
    MaxTime = 0
    MaxLag = 0
SPECIFICATION Spec
CHECK_DEADLOCK FALSE
INVARIANTS
    HandlesPinEntry
    ActiveInvalidationConverges
PROPERTIES
    LatestFlightWins
