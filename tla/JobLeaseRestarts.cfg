\* Two restarts in a row, before the first lease expires.
SPECIFICATION Spec
CONSTANTS
    w1 = w1
    w2 = w2
    w3 = w3
    j1 = j1
    j2 = j2
    Worker <- ThreeWorkers
    Job <- TwoJobs
    NoOwner = NoOwner
    NoJob = NoJob
    NoWorker = NoWorker
    MaxAlive = 1
    MaxStalls = 0
    MaxOutages = 0
INVARIANTS
    OneContainer
CHECK_DEADLOCK FALSE
