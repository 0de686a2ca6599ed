SPECIFICATION Spec
CONSTANTS
    a = a
    b = b
    r1 = r1
    r2 = r2
    None = None
    Message = {a, b}
    Worker = {w1, w2}
    Items <- TwoRequests
    Projections <- MCProjections
    Rules <- MCRules
    DefaultTarget = "human"
    ConsumerOf <- MCConsumerOf
    MaxAttempts = 2
    MaxDeliveries = 2
    MaxProjections = 2
CHECK_DEADLOCK FALSE
INVARIANTS DecidedIsDelivered DeliveredWasDecided JobsWithinDeliveries
