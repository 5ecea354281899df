CONSTANTS
    t1 = t1
    t2 = t2
    n1 = n1
    a80 = a80
    Orders <- TwoOrders
    Renewals <- OneRenewal
    Workloads <- Pairs
    r1 = r1
    r2 = r2
    r3 = r3
    r4 = r4
    Runs <- FourRuns
    Try <- TwoTries
    Authzs <- OneAuthz
    Addrs <- Address
    AddrOf <- OneAddr
    Providers <- MockOnly
    MaxPolls = 1
    Reuse = FALSE
    TimelyCA = FALSE
    MaxFaults = 1
    MaxRetries = 1
    MaxDeaths = 1
SPECIFICATION FairApi
INVARIANT StatusIsTrue
PROPERTIES EndsOnce FoundUntilRestart ClientsLearn
CHECK_DEADLOCK FALSE
