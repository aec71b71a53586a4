SPECIFICATION Spec
CONSTANTS
    Worker = {w1, w2}
    Volume = {v1, v2}
    Node = {n1, n2}
    AnyNode = AnyNode
    HostID = {1, 2, 3}
    AdminHost = {n1}
    ReadOnly = {}
    HostFirst = FALSE
    MaxVols = 1
    MaxAttaches = 3
    MaxFaults = 1
    Failing <- Everything
    NoHost = NoHost
    NoWorker = NoWorker
SYMMETRY Symmetry
CHECK_DEADLOCK FALSE
INVARIANTS PublishedMapped DetachedUnmapped LunLimit
