CONSTANTS
    c1 = c1
    c2 = c2
    k1 = k1
    k2 = k2
    k3 = k3
    k4 = k4
    Callers <- TwoCallers
    Demand <- OneAndThree
    MaxTokens = 5
    Rate = 2
    MaxElapsed = 3
    MaxWindow = 6
    Tasks <- FourTasks
    MaxConcurrent = 2
    Threads = 2
SPECIFICATION LimitsSpec
INVARIANTS WindowBounded OvershootBounded
