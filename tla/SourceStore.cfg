\* Two requests upload one source; a job of its own and one that reuses it; fair scheduling.
SPECIFICATION FairSpec
CONSTANTS
    s1 = s1
    u1 = u1
    u2 = u2
    j1 = j1
    j2 = j2
    Source <- OneSource
    Upload <- TwoUploads
    Job <- TwoJobs
    None = None
    SlowRemoval = FALSE
INVARIANTS
    ArchivesMatchRows
PROPERTIES
    LateRequestHarmless
    ImplementsSource
    UploadSettles
CHECK_DEADLOCK FALSE
