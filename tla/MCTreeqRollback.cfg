SPECIFICATION FairSpec
CONSTANTS
    Worker = {w1, w2}
    Volume = {v1, v2}
    FileSystem = {f1, f2}
    Request <- RequestOne
    Capacity = {}
    MaxTreeqsPerFS = 2
    MaxFileSystemSize = 4
    ExportPermissions = TRUE
    Overlap = FALSE
    MaxFaults = 1
    Failing <- Undone
    Nobody = Nobody
    NoFS = NoFS
    NoVolume = NoVolume
INVARIANTS NoEmptyFileSystem
PROPERTIES EveryCallReturns
CHECK_DEADLOCK FALSE
