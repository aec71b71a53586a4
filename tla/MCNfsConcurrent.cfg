SPECIFICATION Spec
CONSTANTS
    Worker = {w1, w2}
    v1 = v1
    v2 = v2
    s1 = s1
    n1 = n1
    n2 = n2
    a = a
    b = b
    c = c
    d = d
    Volume = {v1, v2}
    Snapshot = {s1}
    Source <- Chain
    Permissions <- Classes
    Shared = {}
    Locking = {s1}
    Node = {n1, n2}
    Pod = {a, b, c, d}
    Uses <- Pods
    Overlap = {"delete"}
    Cleanup = TRUE
    FileSystemID = {1, 2, 3, 4, 5}
    ExportID = {11, 12, 13, 14, 15, 16}
    Star = Star
    Other = Other
    MaxFaults = 1
    Failing <- Everything
    NoID = NoID
    NoObject = NoObject
    NoNode = NoNode
    NoPod = NoPod
SYMMETRY Symmetry
CHECK_DEADLOCK FALSE
INVARIANTS BoundServed MountedCovered RulesCleaned
