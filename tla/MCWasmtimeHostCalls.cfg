\* Any guest, against an importer, with room for three imports and two native calls.
CONSTANTS
    f1 = f1
    f2 = f2
    Files <- MCFiles
    Sizes <- MCSizes
    MaxImports = 3
    MaxImportBytes = 5
    MaxTotalImportBytes = 7
    MaxCapabilityCalls = 2
    MaxHostResponseBytes = 6
    Envelope = 2
    Capacities <- MCCapacities
SPECIFICATION Spec
INVARIANTS
    ListedWereServed
PROPERTIES
    ContractSpec
CHECK_DEADLOCK FALSE
