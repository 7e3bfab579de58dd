SPECIFICATION Spec
CONSTANTS
    Objects = {m1, m2, x}
    Manifests = {m1, m2}
    Closure <- MCClosure
    Receipts = {r1, r2}
    MaxSequence = 1
    MaxGc = 2
    Procs = {p1, p2}
    Calls = {"Commit", "Advance", "Reconcile"}
    PageSize = 2
    StableReads = 2
    m1 = m1
    m2 = m2
    x = x
SYMMETRY Symmetry
INVARIANT
    IntegrityMeansDamage
