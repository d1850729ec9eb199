\* Three releases, three operations, two faults, one deployment the manager does not record.
SPECIFICATION FairSpec
CONSTANTS
    MaxRelease = 3
    Compatible = {2}
    MinimumSource <- OneBefore
    RetainCount = 1
    MaxOps = 3
    MaxWrites = 2
    MaxUnrecorded = 1
    MaxFaults = 2
INVARIANTS
    UnitsRemembered
    PendingPointKept
    SchemaServesRelease
PROPERTIES
    PointHoldsWhatItReplaces
    OperationEnds
    UnitsReturn
CHECK_DEADLOCK FALSE
