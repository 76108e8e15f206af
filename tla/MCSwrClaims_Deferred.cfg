CONSTANTS
    None = None
    MaxInstant = 100
    Defaults <- Timeless
    Keys <- OneKey
    KeyPrefixes <- AllPrefix
    Mutators = {m1}
    OptionChoices <- OnlyTimeless
    FlagChoices <- RevalidateOrNot
    Results <- AllResults
    Policies = {}
    EventKinds = {}
    Apis = {"subscribe", "mutate", "invalidate"}
    MaxHandles = 1
    MaxCalls = 3
    MaxTime = 0
    MaxLag = 0
SPECIFICATION ClaimSpec
CHECK_DEADLOCK FALSE
INVARIANTS
    DeferredInvalidationConverges
