SPECIFICATION Spec
CHECK_DEADLOCK FALSE
CONSTANTS
    c1 = c1
    c2 = c2
    public = public
    mirror = mirror
    narrow1 = narrow1
    narrow2 = narrow2
    wide = wide
    d1 = d1
    d2 = d2
    shared = shared
    none = none
    Calls = {c1, c2}
    Repos = {public, mirror}
    Tags = {narrow1, narrow2, wide}
    Digests = {d1, d2, shared}
    NoDigest = none
    Documents = 2
    Releases <- MCReleases
    RepositoryLists <- MCRepositoryLists
INVARIANTS
    TypeOK
    NarrowBeforeWide
    
    ErrorTellsWhatShipped

    
