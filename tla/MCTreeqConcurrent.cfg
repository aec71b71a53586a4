SPECIFICATION Spec
CONSTANTS
    Worker = {w1, w2}
    Volume = {v1, v2, v3}
    FileSystem = {f1, f2}
    Request <- RequestOne
    Capacity = {}
    MaxTreeqsPerFS = 2
    MaxFileSystemSize = 3
    ExportPermissions = FALSE
    Overlap = TRUE
    MaxFaults = 1
    Failing <- Everything
    Nobody = Nobody
    NoFS = NoFS
    NoVolume = NoVolume
SYMMETRY Symmetry
INVARIANTS TypeOK TreeqsWithinLimit
CHECK_DEADLOCK FALSE
