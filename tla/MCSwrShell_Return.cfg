CONSTANTS
    None = None
    MaxInstant = 1
    Defaults <- Fleeting
    Keys <- OneKey
    KeyPrefixes <- AllPrefix
    Mutators = {m1}
    Readers = {r1}
    OptionChoices = {}
    FlagChoices <- DefaultFlags
    Results = {"error"}
    Policies <- EnsureFreshOnly
    EventKinds = {}
    Apis = {"mutate", "invalidate"}
    MaxHandles = 0
    MaxCalls = 2
    MaxTime = 0
    MaxLag = 0
SPECIFICATION FairShellSpec
CHECK_DEADLOCK FALSE
PROPERTIES
    ReadersReturn
