\* Two overlapping processes, two mishaps or retries, a cancellation and a download, under fair scheduling.
SPECIFICATION FairSpec
CONSTANTS
    Worker = {w1, w2}
    NoOwner = NoOwner
    MaxAttempts = 2
    MaxFaults = 2
    MaxCancels = 1
    Downloads = TRUE
INVARIANTS
    OutputsMatchRows
    StagesFollowJob
PROPERTIES
    PdfImmutable
    StagedJobSettles
CHECK_DEADLOCK FALSE
