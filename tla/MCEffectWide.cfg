SPECIFICATION Spec
CONSTANTS
    w1 = w1
    w2 = w2
    i1 = i1
    i2 = i2
    Owners <- MCOwners
    Intents <- MCIntents
    Plans <- WidePlans
    Bind <- First
    Queryable <- First
    Fragile <- Second
    Rank <- Order
    Decided <- Approval
    TTL = 1
    MaxTime = 2
    MaxFence <- WideFences
INVARIANTS
    ExpiredRunTakeable
CHECK_DEADLOCK FALSE
