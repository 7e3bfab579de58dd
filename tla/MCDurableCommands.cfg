SPECIFICATION Spec
CONSTANTS
    Commands = {s2, b2, a1, end1}
    Runs = {q1, q2}
    RunOf <- MCRunOf
    Kind <- MCKind
    Batches <- MCBatches
    MaxToken = 3
    Live = {q1}
    Coordinators = {k1, k2}
    MaxPages = 1
    MaxMaterial = 1
    q1 = q1
    q2 = q2
    s2 = s2
    b2 = b2
    a1 = a1
    end1 = end1
SYMMETRY Symmetry
INVARIANTS
    FenceHolds RestoreSucceeds ReplayIsExact
PROPERTIES
    ImplementsRegister FenceFinishable
