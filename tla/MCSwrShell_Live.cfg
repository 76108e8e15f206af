CONSTANTS
    None = None
    MaxInstant = 100
    Defaults <- Ticking
    Keys <- OneKey
    KeyPrefixes <- AllPrefix
    Mutators = {m1}
    Readers = {}
    OptionChoices <- OnlyTicking
    FlagChoices <- QuietFlags
    Results <- AllResults
    Policies = {}
    EventKinds = {"Focus"}
    Apis = {"subscribe", "mutate", "broadcast"}
    MaxHandles = 1
    MaxCalls = 2
    MaxTime = 1
    MaxLag = 0
SPECIFICATION FairShellSpec
CHECK_DEADLOCK FALSE
PROPERTIES
    WatchersCatchUp
INVARIANTS
    WatchersShowLatest
