CONSTANTS
    scan = scan
    sender = sender
    j1 = j1
    j2 = j2
    u1 = u1
    NoTask = NoTask
    Jobs <- MCJobs
    Callers <- OneScan
    CallerOf <- OneScanOf
    PriorityOf <- MCPriorityOf
    Concurrency = 1
    ChanCap = 1
    MaxRetries = 1
SPECIFICATION FairSpec
PROPERTY EveryJobEnds
CHECK_DEADLOCK FALSE
