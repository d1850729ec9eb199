\* One job, two downloads, two deletions asked for, two retries and a crash, under fair scheduling.
SPECIFICATION FairSpec
CONSTANTS
    j1 = j1
    r1 = r1
    r2 = r2
    Job <- OneJob
    Reader <- TwoReaders
    None = None
    MaxAttempts = 3
    MaxRetries = 2
    MaxAsks = 2
    MaxCrashes = 1
INVARIANTS
    FilesMatchRows
PROPERTIES
    ReadersUndisturbed
    ResultKept
    DeletionSettles
CHECK_DEADLOCK FALSE
