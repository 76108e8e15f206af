CONSTANTS
    None = None
    MaxInstant = 100
    Defaults <- Patient
    Keys <- OneKey
    KeyPrefixes = {}
    Mutators = {m1}
    OptionChoices <- BriefOrImmutable
    FlagChoices <- DefaultFlags
    Results = {"value", "error"}
    Policies = {"CacheOnly", "EnsureFresh"}
    EventKinds = {}
    Apis = {"fetch", "subscribe", "set", "mutate"}
    MaxHandles = 1
    MaxCalls = 3
    MaxTime = 2
    MaxLag = 1
SPECIFICATION FairDelaySpec
CHECK_DEADLOCK FALSE
INVARIANTS
    HandlesPinEntry
    MutationsPinEntry
    IdleEntriesExpire
    CountdownsAreOnTime
PROPERTIES
    EntriesLastTheirTime
    LatestFlightWins
    IdleEntriesLeave
