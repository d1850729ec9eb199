\* Processes one after the other, or alive at once: jobs of one or of two sources, and the cleanup.
SPECIFICATION Spec
CONSTANTS
    Worker = {w1, w2}
    Job = {j1, j2}
    Source = {s1, s2}
    j1 = j1
    j2 = j2
    s1 = s1
    s2 = s2
    Tree = {t1, t2}
    NoOwner = NoOwner
    NoTree = NoTree
    NoJob = NoJob
    Orders <- SharedOrSeparate
    Capacity = 1
    MaxRuns = 1
    MaxFaults = 2
SYMMETRY TreeSymmetry
INVARIANTS
    MountedStays
    ReadyIsComplete
    BudgetKept
CHECK_DEADLOCK FALSE
