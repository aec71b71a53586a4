SPECIFICATION Spec
CONSTANTS
    Worker = {w1}
    Volume = {v1, v2, v3}
    FileSystem = {f1, f2}
    Request <- RequestOne
    Capacity = {2}
    MaxTreeqsPerFS = 2
    MaxFileSystemSize = 4
    ExportPermissions = TRUE
    Overlap = FALSE
    MaxFaults = 2
    Failing <- Everything
    Nobody = Nobody
    NoFS = NoFS
    NoVolume = NoVolume
SYMMETRY Symmetry
INVARIANTS BoundVolumeServed CountMatches SizeCovers
PROPERTIES DataKept
CHECK_DEADLOCK FALSE
