SPECIFICATION Spec
CONSTANTS
    r1 = r1
    r2 = r2
    r3 = r3
    t1 = t1
    t2 = t2
    t3 = t3
    q1 = q1
    q2 = q2
    w = w
    ref = ref
    c1 = c1
    c2 = c2
    Revisions = {r1, r2, r3}
    RefOf <- MCRefOf
    Contract <- MCContract
    Pins <- MCPins
    Templates = {t1, t2, t3}
    Follows <- MCFollows
    Wants <- MCWants
    PinnedTo <- MCPinnedTo
    PlanOf <- MCPlanOf
    Patches = {w}
    Surface <- MCSurface
    Effects <- MCEffects
    Requires <- MCRequires
    Names = {n1}
    PublishModes = {"Canary"}
    Modes = {"Shadow"}
    Gates <- MCGates
    Occurrences = {o1}
    Selections = {s1}
    EvidenceIds = {e1}
    Subjects = {x1}
    Runs = {g1}
    Migrations = {m1, m2}
    First <- MCFirst
    Driven = {t1}
    MaxDecisions = 3
    MaxEpoch = 3
INVARIANTS
    EvidenceExact
    LinksFollowHeads
    RolloutLegal
    MigrationsNarrow
PROPERTIES
    RetainedFinal
CHECK_DEADLOCK FALSE
SYMMETRY MigrationSymmetry
