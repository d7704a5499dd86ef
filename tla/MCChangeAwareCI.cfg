SPECIFICATION Spec
CHECK_DEADLOCK FALSE
CONSTANTS
    Dirs <- MCDirs
    Root <- MCRoot
    Paths <- MCPaths
    Contents <- MCContents
    Absent <- MCAbsent
    ConfigOf <- MCConfigOf
    Below <- MCBelow
    DirLength <- MCDirLength
    DepsIn <- MCDepsIn
    ContextIn <- MCContextIn
    ChecksOf <- MCChecksOf
    Installed = {}
    GlobalPaths = {}
    CoreBinding = "conf"
    FirstTree <- Flat
    FaultScenarios <- Faults
    NoEvent = NoEvent
    EditedPaths <- MCEdited
    MaxCommits = 2
    MaxAttempts = 2
INVARIANTS
    TypeOK
    
    
