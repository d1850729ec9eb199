\* Two overlapping processes and one job, under fair scheduling.
SPECIFICATION FairSpec
CONSTANTS
    w1 = w1
    w2 = w2
    w3 = w3
    j1 = j1
    j2 = j2
    Worker <- TwoWorkers
    Job <- OneJob
    NoOwner = NoOwner
    NoJob = NoJob
    NoWorker = NoWorker
    MaxAlive = 2
    MaxStalls = 1
    MaxOutages = 1
INVARIANTS
    ArtifactsBacked
    OneContainerPerJob
    NoLeakedContainer
PROPERTIES
    FencedWritesNothing
    ImplementsLifecycle
    EveryJobSettles
CHECK_DEADLOCK FALSE
