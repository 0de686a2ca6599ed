SPECIFICATION FairSpec
CONSTANTS
    a = a
    b = b
    r1 = r1
    r2 = r2
    None = None
    Message = {a, b}
    Worker = {w1}
    Items <- TwoRequests
    Projections <- LoneProjections
    Rules <- MCRules
    DefaultTarget = "human"
    ConsumerOf <- MCConsumerOf
    MaxAttempts = 2
    MaxDeliveries = 3
    MaxProjections = 2
CHECK_DEADLOCK FALSE
INVARIANT TraceExplainsDecision
PROPERTY Resolves
