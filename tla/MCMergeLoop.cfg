SPECIFICATION Spec
CHECK_DEADLOCK FALSE
CONSTANTS
    build = build
    lint = lint
    copilot = copilot
    local = local
    known = known
    unknown = unknown
    none = none
    MaxCommits = 2
    CheckRuns = {build}
    Statuses = {lint}
    Repositories <- MCRepositories
    PollCount = 2
    MaxCalls = 2
    Copilot = copilot
    Local = local
    None = none
    KnownBots = {known}
    UnknownBots = {unknown}
    Slack = 2
    NearErrors = FALSE
    MaxEvents = 6
INVARIANTS
    TypeOK
    
    
    MergedIsGated
    FinishTellsTheTruth

    
