CONSTANTS
    a = a  b = b
    v1 = v1  v2 = v2  v3 = v3
    None = None
    Worker = {a, b}
    Peer <- MCPeer
    Volume = {v1, v2, v3}
    Root <- MCRoot
    Within <- MCWithin
    Looks = 2
    Request <- MCRequest
    Scenarios <- MCScenarios
    MaxCalls = 3
    MaxFaults = 2
    Failing <- MCFailing
SPECIFICATION FairSpec
INVARIANTS OneReplica ReplicationKept
PROPERTIES RoleReached DisabledForGood RoleEventually MembershipReached SnapshotSources GroupDeletionEnds
CHECK_DEADLOCK FALSE
