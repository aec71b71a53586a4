SPECIFICATION Spec
CONSTANTS
    Worker = {w1, w2}
    v1 = v1
    v2 = v2
    s1 = s1
    n1 = n1
    n2 = n2
    a = a
    b = b
    c = c
    d = d
    Volume = {v1}
    Snapshot = {}
    Source <- Pair
    Permissions <- Unset
    Shared = {v1}
    Locking = {}
    Node = {n1, n2}
    Pod = {a, b}
    Uses <- Replicas
    Overlap = {}
    Cleanup = TRUE
    FileSystemID = {1, 2, 3}
    ExportID = {11, 12, 13, 14}
    Star = Star
    Other = Other
    MaxFaults = 0
    Failing = {}
    NoID = NoID
    NoObject = NoObject
    NoNode = NoNode
    NoPod = NoPod
CHECK_DEADLOCK FALSE
INVARIANT SharedCovered
