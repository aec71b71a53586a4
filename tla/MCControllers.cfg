CONSTANTS
    v1 = v1  v2 = v2  g = g  s1 = s1
    r1 = r1  r2 = r2  r3 = r3  rg = rg  rh = rh  add = add  addc = addc  del = del  p1 = p1  p2 = p2
    None = None
    CR = {r1, r2, r3, rg, rh, add, addc, del, p1, p2}
    CRSpec <- MCCRSpec
    Link <- MCLink
    Volume = {v1, v2}
    Group = g
    Snapshot = {s1}
    Scenarios <- MCScenarios
    MaxFaults = 1
    Failing <- MCFailing
SPECIFICATION FairSpec
INVARIANTS OneReplicaPerEntity StatusTrue ReplicaRemoved ResumedAfterChange
PROPERTIES ChangedWhileSuspended Settles
CHECK_DEADLOCK FALSE
