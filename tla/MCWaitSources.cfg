SPECIFICATION FairSpec
CONSTANTS
    http = http
    other = other
    clock1 = clock1
    clock2 = clock2
    h1 = h1
    q1 = q1
    q2 = q2
    q3 = q3
    Waits = {1, 2, 3, 4, 5}
    Runs = {q1, q2, q3}
    RunOf <- MCRunOf
    SourceOf <- MCSourceOf
    Once = {1, 2}
    Timers = {3, 4}
    Activations = {1, 2, 3, 4, 5}
    Direct = {5}
    Fires <- MCFires
    Values = {1, 2}
    HttpDrivers = {http, other}
    TimerDrivers = {clock1, clock2}
    Deployments <- MCDeployments
    Handlers = {h1}
    HomeOf <- MCHomeOf
    MaxTargets = 2
    MaxWaiters = 1
    KeyScan = 1
    TimerScan = 1
    MaxFaults = 1
INVARIANTS
    WaitTypeOK
    DeliveryDecided
    WaitWonOnce
PROPERTIES
    DecisionsFinal
    SignalsDelivered
CHECK_DEADLOCK FALSE
