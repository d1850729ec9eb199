\* Two jobs, one mishap, and a deployment or overdue maintenance, under fair scheduling.
SPECIFICATION FairSpec
CONSTANTS
    Jobs = {j1, j2}
    Backlog = 2
    MaxFaults = 1
    MaxEvents = 1
INVARIANTS
    EngineKept
    QuiescedStaysOff
    HintRetained
PROPERTIES
    JobsServed
    SleepsAgain
CHECK_DEADLOCK FALSE
