SPECIFICATION MCSpec
CONSTANTS
    v1 = v1
    v2 = v2
    a = a
    c = c
    Volume = {v1, v2}
    Pod = {a, c}
    Uses <- UsesOf
    Block = {v2}
    Chap = {v2}
    Lun = {1, 2}
    Growing = {v1}
    MaxSize = 2
    MaxFaults = 1
    Failing <- Everything
    None = None
CHECK_DEADLOCK FALSE
INVARIANTS MountedUsable ConfigKept RightVolume
PROPERTIES Expanded ContractKept
