\* Four requests and one mishap: a patient client, or several that overlap; fair scheduling.
SPECIFICATION FairSpec
CONSTANTS
    Request = {r1, r2, r3, r4}
    None = None
    Right = Right
    Wrong = Wrong
    Size = 2
    Chunks <- AllChunks
    MaxFaults = 1
INVARIANTS
    OffsetBacked
    ReadyVerified
PROPERTIES
    UploadCompletes
CHECK_DEADLOCK FALSE
