\* Four releases, four operations, two deployments the manager does not record.
SPECIFICATION Spec
CONSTANTS
    MaxRelease = 4
    Compatible = {2, 4}
    MinimumSource <- OneBefore
    RetainCount = 1
    MaxOps = 4
    MaxWrites = 0
    MaxUnrecorded = 2
    MaxFaults = 0
INVARIANT
    SchemaServesRelease
CHECK_DEADLOCK FALSE
