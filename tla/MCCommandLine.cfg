CONSTANTS
    c1 = c1
    c2 = c2
    c3 = c3
    c4 = c4
    p1 = p1
    p2 = p2
    Commands <- FourCommands
    Paths <- TwoPaths
    MaxFaults = 2
    Placeholder = Placeholder
    Nothing = Nothing
    Empty = Empty
    s1 = s1
    s2 = s2
    Savers <- TwoSavers
    Crews <- TwoCrews
    MaxBundles = 2
    MaxFailures = 1
    Life = 4
    Day = 2
    RenewDays = 1
    Window = 3
    Interval = 1
    Domains = 2
SPECIFICATION CommandLineSpec
INVARIANTS SavedKeyIsCurrent LossesHaveCauses PairMatches BackupIsThePair DueIsCounted
PROPERTY RenewAgreesWithDaemon
CHECK_DEADLOCK FALSE
