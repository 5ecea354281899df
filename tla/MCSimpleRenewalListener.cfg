CONSTANTS
    p1 = p1
    p2 = p2
    d1 = d1
    d2 = d2
    a1 = a1
    a2 = a2
    None = None
    Torn = Torn
    Calls <- TwoProcesses
    Addrs <- TwoAddrs
    AddrOf <- OwnAddr
    List <- TwoSets
    Lifetime = 3
    RenewBefore = 2
    MaxFaults = 0
    MaxCrashes = 0
SPECIFICATION Spec
INVARIANT ExpiresOnlyByFailure
CHECK_DEADLOCK FALSE
