SPECIFICATION Spec
CHECK_DEADLOCK FALSE
CONSTANTS
    Dirs <- MCDirs
    Root <- MCRoot
    Paths <- MCPaths
    Contents <- MCContents
    Absent <- MCAbsent
    ConfigOf <- MCConfigOf
    Below <- MCBelow
    DirLength <- MCDirLength
    DepsIn <- MCDepsIn
    ContextIn <- MCContextIn
    ChecksOf <- MCChecksOf
    Installed <- MCInstalled
    GlobalPaths <- MCGlobalPaths
    CoreBinding = "binding"
    BaseTrees <- MCBaseTrees
    Splits <- MCSplits
    MaxEdits = 2
    MaxFaults = 1
INVARIANTS
    TypeOK
    NeverSkipsAffected
    FaultsOnlyAddWork
    EveryCheckHasALeg
    SkipsOnlyUnchangedInputs
    GlobalChangeHonoursNoPass
