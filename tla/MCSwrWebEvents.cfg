CONSTANTS
    None = None
    Clients = {c1, c2}
    MaxSources = 4
    MaxEvents = 3
SPECIFICATION Spec
SYMMETRY ClientSymmetry
CHECK_DEADLOCK FALSE
INVARIANTS
    ListenersFollowSources
    EveryoneHearsOnce
