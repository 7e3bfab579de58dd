SPECIFICATION Spec
CONSTANTS
    Plans = {pA, pB}
    Bindings = {b1}
    Scopes = {s1, s2}
    Root = Root
    Parent <- MCParent
    ScopePlan <- MCScopePlan
    Effects = {e1, e2, e3}
    EffectScope <- MCEffectScope
    OriginPlan <- MCOriginPlan
    Profile <- MCProfile
    Attempts = {a1, a2}
    MaxEpoch = 2
    MaxFence = 1
    s1 = s1
    s2 = s2
    pA = pA
    pB = pB
    e1 = e1
    e2 = e2
    e3 = e3
INVARIANTS
    TypeOK DerivedStateExact ProjectionLegal OneAttemptAtCurrentEpoch
    TerminalRunClosed
PROPERTIES
    DispatchIrrevocable TerminalRunFrozen
CHECK_DEADLOCK FALSE
