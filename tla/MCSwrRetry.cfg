CONSTANTS
    None = None
    MaxInstant = 30
    Interval = 1
    MaxRetries = 3
    MaxShift = 2
    MaxDuration = 1000
    Defaults <- Fleeting
    Keys <- OneKey
    KeyPrefixes <- AllPrefix
    Mutators = {m1}
    OptionChoices <- OnlyFleeting
    FlagChoices <- DefaultFlags
    Results <- AllResults
    Policies <- EnsureFreshOnly
    EventKinds = {}
    Apis = {"fetch", "subscribe", "set", "mutate", "invalidate"}
    MaxHandles = 1
    MaxCalls = 2
    MaxTime = 0
    MaxLag = 0
SPECIFICATION FairRetrySpec
CHECK_DEADLOCK FALSE
INVARIANTS
    RetryTypeOK
    RetriesAreBounded
PROPERTIES
    BackoffIsHonoured
    RetryDefersCollection
    FlightsEnd
