CONSTANTS
    None = None
    MaxInstant = 1
    Defaults <- Fleeting
    Keys <- OneKey
    KeyPrefixes <- AllPrefix
    Mutators = {m1}
    Readers = {r1}
    OptionChoices = {}
    FlagChoices <- DefaultFlags
    Results <- AllResults
    Policies <- EnsureFreshOnly
    EventKinds = {}
    Apis = {"set", "mutate", "invalidate", "revalidate"}
    MaxHandles = 0
    MaxCalls = 2
    MaxTime = 0
    MaxLag = 0
SPECIFICATION ShellSpec
CHECK_DEADLOCK FALSE
INVARIANTS
    ShellTypeOK
    ChannelsConverge
    SleepersAreOwedAnAnswer
    ReadersGetNews
