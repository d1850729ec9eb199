\* A failed deletion, then an SVG retry of the same job.
SPECIFICATION Spec
CONSTANTS
    j1 = j1
    r1 = r1
    r2 = r2
    Job <- OneJob
    Reader <- OneReader
    None = None
    MaxAttempts = 2
    MaxRetries = 1
    MaxAsks = 1
    MaxCrashes = 0
PROPERTIES
    DeletionFromTerminal
CHECK_DEADLOCK FALSE
