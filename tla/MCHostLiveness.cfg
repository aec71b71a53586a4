SPECIFICATION FairSpec
CONSTANTS
    Worker = {w1, w2}
    Volume = {v1, v2}
    Node = {n1}
    AnyNode = AnyNode
    HostID = {1, 2}
    AdminHost = {}
    ReadOnly = {v2}
    HostFirst = TRUE
    MaxVols = 1
    MaxAttaches = 2
    MaxFaults = 1
    Failing <- All
    NoHost = NoHost
    NoWorker = NoWorker
CHECK_DEADLOCK FALSE
PROPERTIES DetachCompletes PublishReturns
INVARIANT NoEmptyHost
