SPECIFICATION Spec
CONSTANTS
    Works = {1, 2}
    Regions = {1, 2}
    Runs = {1, 2}
    Slots = {"s1"}
    Owners = {o1, o2}
    Source <- DispatchSource
    RunOf <- DispatchRunOf
    Priority <- DispatchPriority
    Cost <- DispatchCost
    Capability <- DispatchCapability
    Offers <- DispatchOffers
    Waits = {}
    OtherReasons = {}
    Activations = {}
    Targets <- NoTargets
    Verdicts = {"Cancelled"}
    Weights = {1, 2, 4}
    BaseQuantum = 1
    AgingInterval = 1
    MaxMaterialized = 2
    MaterializeBatch = 2
    MaxActive = 2
    MaxActivePerRun = 1
    PageItems = 1
    MaxReason = 2
    MaxWake = 6
    TTL = 2
    MaxTime = 2
    MaxExact = 3
    MaxForeign = 3
    MaxEpoch = 1
INVARIANTS
    ScanSettled
    LeaseBacksClaim
PROPERTY
    OvertakenFenced
CHECK_DEADLOCK FALSE
SYMMETRY OwnerSymmetry
