CONSTANTS
    scan = scan
    sender = sender
    j1 = j1
    j2 = j2
    u1 = u1
    NoTask = NoTask
    Jobs <- MCJobs
    Callers <- MCCallers
    CallerOf <- MCCallerOf
    PriorityOf <- MCPriorityOf
    Concurrency = 2
    ChanCap = 1
    MaxRetries = 1
SPECIFICATION FairSpec
INVARIANTS PermitsConserved PopNeverEmpty OneCarrier HooksBalanced
PROPERTIES ImplementsPool NobodyIsStuck ForgottenOnlyAsleep
CHECK_DEADLOCK FALSE
