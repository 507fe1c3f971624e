\* A program of up to six host calls: four good imports, an empty path, an unsafe
\* path and native calls.
CONSTANTS
    f1 = f1
    f2 = f2
    k1 = k1
    k2 = k2
    k3 = k3
    k4 = k4
    empty = empty
    unsafe = unsafe
    Files <- MCFiles
    Sizes <- MCSizes
    Keys <- MCKeys
    PathlessKeys <- MCPathless
    UnsafeKeys <- MCUnsafe
    MaxImports = 3
    MaxImportBytes = 4
    MaxTotalImportBytes = 9
    MaxCapabilityCalls = 2
    MaxHostResponseBytes = 10
    Envelope = 2
    Capacities <- MCCapacities
    MaxHostCalls = 6
SYMMETRY MCSymmetry
SPECIFICATION Spec
INVARIANTS
    HostFailureReported
    ImportsListed
    OneContentPerPath
    AskedOnce
PROPERTIES
    HostSpec
CHECK_DEADLOCK FALSE
