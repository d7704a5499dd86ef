SPECIFICATION Spec
CHECK_DEADLOCK FALSE
CONSTANTS
    Dirs <- MCDirs
    Root <- MCRoot
    Paths <- MCPaths
    Contents <- MCContents
    Absent <- MCAbsent
    ConfigOf <- MCConfigOf
    Below <- MCBelow
    DirLength <- MCLongNames
    DepsIn <- MCDepsIn
    ContextIn <- MCContextIn
    ChecksOf <- MCChecksOf
    Installed <- MCInstalled
    GlobalPaths <- MCGlobalPaths
    CoreBinding = "binding"
    BaseTrees <- MCFullTree
    Splits <- MCSplits
    MaxEdits = 1
    MaxFaults = 1
INVARIANT MachineryChangeHonoursNoPass
