SPECIFICATION Spec
CHECK_DEADLOCK FALSE
CONSTANTS
    Dirs <- EmptyDirs
    Root <- MCRoot
    Paths <- DocPaths
    Contents <- MCContents
    Absent <- MCAbsent
    ConfigOf <- MCConfigOf
    Below <- MCBelow
    DirLength <- MCDirLength
    DepsIn <- MCDepsIn
    ContextIn <- MCContextIn
    ChecksOf <- MCChecksOf
    Installed = {}
    GlobalPaths = {}
    CoreBinding = "conf"
    FirstTree <- Flat
    FaultScenarios <- NoFaults
    NoEvent = NoEvent
    EditedPaths <- DocPaths
    MaxCommits = 2
    MaxAttempts = 2
INVARIANT AllSkippedIsNotRed
