CONSTANTS
    p1 = p1
    p2 = p2
    p3 = p3
    p4 = p4
    Requests <- TwoMore
    Getters <- Two
    MinSize = 2
    MaxSize = 3
    MaxNonces = 5
    MaxFaults = 2
    a1 = a1
    a2 = a2
    Askers <- TwoAskers
    Ttl = 1
    MaxTime = 2
    MaxVersions = 2
    NoEntry = NoEntry
SPECIFICATION ProtocolSpec
INVARIANTS UsedOnce PoolBounded RefillPending NeverBack StaleBounded
PROPERTY GetReturns
CHECK_DEADLOCK FALSE
