CONSTANTS
    None = None
    MaxInstant = 1
    Defaults <- Timeless
    Keys <- OneKey
    KeyPrefixes <- AllPrefix
    Mutators = {m1, m2}
    OptionChoices <- OnlyTimeless
    FlagChoices <- SomeFlags
    Results <- AllResults
    Policies <- EnsureFreshOnly
    EventKinds = {"Focus"}
    Apis <- AllApis
    MaxHandles = 1
    MaxCalls = 4
    MaxTime = 0
    MaxLag = 0
SPECIFICATION Spec
SYMMETRY MutatorSymmetry
CHECK_DEADLOCK FALSE
INVARIANTS
    TypeOK
    FlightIsLatest
    DataHasItsSeq
    WaitersFindTheirResult
    MutationsPinEntry
    SlotIsOwned
    ActiveInvalidationConverges
PROPERTIES
    Published
    LatestFlightWins
