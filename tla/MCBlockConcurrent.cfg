SPECIFICATION Spec
CONSTANTS
    Worker = {w1, w2}
    v1 = v1
    v2 = v2
    v3 = v3
    s1 = s1
    Volume = {v1, v2}
    Snapshot = {s1}
    Source <- Chain
    VolumeID = {1, 2, 3, 4}
    Locking = {s1}
    PromoteSupported = TRUE
    Overlap = TRUE
    MaxFaults = 1
    Failing <- Everything
    NoID = NoID
    NoObject = NoObject
SYMMETRY Symmetry
CHECK_DEADLOCK FALSE
INVARIANTS BoundServed
PROPERTY LockedKept
