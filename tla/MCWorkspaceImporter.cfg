\* Two declarations among two search roots and one library path.
CONSTANTS
    Windows = TRUE
    MountDir <- MCMountDir
    LibraryPaths <- MCLibraryPaths
    Files <- MCFiles
    Froms <- MCFroms
    Imported <- MCImported
    MaxDeclared = 2
SPECIFICATION Spec
INVARIANTS
    RootsOfImporter
    NamesTellRoots
    SearchOrder
    HostsResolveAlike
