SPECIFICATION Spec
CONSTANTS
    Objects = {m1, m2}
    Manifests = {m1, m2}
    Closure <- MCAlternating
    Receipts = {r1, r2}
    MaxSequence = 2
    MaxGc = 2
    Procs = {p1, p2}
    Calls = {"Load", "Read", "Commit", "Advance", "Reconcile"}
    PageSize = 2
    StableReads = 2
    m1 = m1
    m2 = m2
    x = x
SYMMETRY Symmetry
INVARIANTS
    DirectoryTypeOK StagedOwned GenerationsExact
PROPERTIES
    StoreSpec AnswersTruthful
