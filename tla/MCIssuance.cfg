CONSTANTS
    r1 = r1
    r2 = r2
    home = home
    Runs <- TwoRuns
    Authzs <- TwoAuthzs
    Addrs <- Home
    AddrOf <- TwoAddr
    Providers <- AllProviders
    MaxPolls = 2
    Reuse = TRUE
    TimelyCA = FALSE
    MaxFaults = 1
SPECIFICATION FairIssuance
INVARIANTS OkIsIssued ServedWhileChecked CleanupIsComplete
PROPERTIES AnsweredWhenServed EveryRunEnds ImplementsCall
CHECK_DEADLOCK FALSE
