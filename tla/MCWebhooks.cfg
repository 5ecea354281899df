CONSTANTS
    s1 = s1
    s2 = s2
    e1 = e1
    e2 = e2
    e3 = e3
    w1 = w1
    w2 = w2
    w3 = w3
    Senders <- TwoSenders
    Script <- Scripts
    Hooks <- ThreeHooks
    Handles <- Configured
    Retries <- MaxRetries
SPECIFICATION FairSpec
INVARIANTS OkMeansDelivered CopiesBounded DeliveredInOrder
PROPERTY EveryWebhookTried
CHECK_DEADLOCK FALSE
