SPECIFICATION Spec
CONSTANTS
    Works = {1, 2}
    Regions = {1, 2, 3, 4}
    Runs = {1}
    Slots = {"s1"}
    Owners = {"o1"}
    Source <- RegionsSource
    RunOf <- RegionsRunOf
    Priority <- RegionsPriority
    Cost <- RegionsUnit
    Capability <- RegionsCapability
    Offers <- RegionsOffers
    Waits = {"w1", "w2"}
    OtherReasons = {}
    Activations = {"a1"}
    Targets <- RegionsTargets
    Verdicts = {"Cancelled"}
    Weights = {1}
    BaseQuantum = 1
    AgingInterval = 1
    MaxMaterialized = 2
    MaterializeBatch = 2
    MaxActive = 2
    MaxActivePerRun = 2
    PageItems = 1
    MaxReason = 2
    MaxWake = 6
    TTL = 1
    MaxTime = 0
    MaxExact = 3
    MaxForeign = 0
    MaxEpoch = 2
CHECK_DEADLOCK FALSE
INVARIANT ClosedRegionCompactable
