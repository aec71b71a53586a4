SPECIFICATION FairSpec
CONSTANTS
    Worker = {w1}
    v1 = v1
    v2 = v2
    v3 = v3
    s1 = s1
    Volume = {v1, v2, v3}
    Snapshot = {s1}
    Source <- Family
    VolumeID = {1, 2, 3, 4}
    Locking = {s1}
    PromoteSupported = FALSE
    Overlap = FALSE
    MaxFaults = 1
    Failing <- Everything
    NoID = NoID
    NoObject = NoObject
CHECK_DEADLOCK FALSE
PROPERTY DeleteSucceeds
INVARIANT DeferredDeleted
