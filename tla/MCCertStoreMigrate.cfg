CONSTANTS
    Nothing = Nothing
    Empty = Empty
    Mixed = Mixed
    Error = Error
    Idle = Idle
    k1 = k1
    k2 = k2
    s1 = s1
    s2 = s2
    l1 = l1
    Keys <- OneKey
    Savers <- OneSaver
    Loaders <- NoLoader
    MaxVersions = 1
    MaxFaults = 0
SPECIFICATION Spec
INVARIANT MigratesEverything
CHECK_DEADLOCK FALSE
