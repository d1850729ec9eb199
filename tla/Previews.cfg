\* Processes one after the other, or alive at once, under fair scheduling.
SPECIFICATION FairSpec
CONSTANTS
    Worker = {w1, w2}
    Page = {p1}
    NoOwner = NoOwner
    NoPage = NoPage
    MaxAttempts = 2
    QueueLimit = 2
    MaxFaults = 3
INVARIANTS
    PreviewsMatchRows
    OneContainer
    DiskAccounted
    PdfNotPulledAway
PROPERTIES
    PreviewsSettle
CHECK_DEADLOCK FALSE
