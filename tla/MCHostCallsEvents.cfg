\* Any guest, against an importer, with room for two imports and one native call.
CONSTANTS
    f1 = f1
    f2 = f2
    Files <- MCFiles
    Sizes <- MCSizes
    MaxImports = 2
    MaxImportBytes = 5
    MaxTotalImportBytes = 7
    MaxCapabilityCalls = 1
    MaxHostResponseBytes = 6
    Envelope = 2
    Capacities <- MCCapacities
    MaxHostCalls = 4
SPECIFICATION HostSpec
INVARIANTS
    EventErrorTellsFailure
CHECK_DEADLOCK FALSE
