SPECIFICATION FairSpec
CONSTANTS
    w1 = w1
    w2 = w2
    i1 = i1
    i2 = i2
    Owners <- MCOwners
    Intents <- MCIntents
    Plans <- EffectPlans
    Bind <- First
    Queryable <- First
    Fragile <- Second
    Rank <- Order
    Decided <- Approval
    TTL = 2
    MaxTime = 3
    MaxFence <- EffectFences
INVARIANTS
    TypeOK
    DispatchLicensed
    VerdictTrue
    OwnershipExclusive
    CompletionAccepted
PROPERTIES
    DriveEnds
CHECK_DEADLOCK FALSE
