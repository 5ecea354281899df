CONSTANTS
    Nothing = Nothing
    Empty = Empty
    Mixed = Mixed
    Error = Error
    Idle = Idle
    k1 = k1
    k2 = k2
    s1 = s1
    s2 = s2
    l1 = l1
    Keys <- TwoKeys
    Savers <- TwoSavers
    Loaders <- OneLoader
    MaxVersions = 3
    MaxFaults = 1
SPECIFICATION Spec
INVARIANTS LoadTellsTruth AtomicPassIsComplete
CHECK_DEADLOCK FALSE
