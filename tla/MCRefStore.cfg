SPECIFICATION Spec
CHECK_DEADLOCK FALSE
SYMMETRY Symmetry
CONSTANTS
    r1 = r1
    r2 = r2
    Runs <- MCRuns
    Refs <- MCRefs
    Hashes = {"h"}
    NoHash = "none"
    Extending <- MCExtending
    Configs <- MCConfigs
    TTL = 1
    MaxListing = 1
    MaxTime = 3
INVARIANTS
    TypeOK
    EntriesAreEarned
    HonouredIsTrustedAndFresh
    NeverRefreshed
    
    
