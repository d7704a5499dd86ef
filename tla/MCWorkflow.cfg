SPECIFICATION Spec
CONSTANTS
    e1 = e1
    e2 = e2
    l1 = l1
    l2 = l2
    NoEvent = NoEvent
    Scopes = {"main", "pr"}
    CancelInProgress = {"pr"}
    Events <- MCEvents
    Legs <- MCLegs
    MaxAttempts = 3
INVARIANTS
    TypeOK
    GreenIsComplete
    
PROPERTIES
    AttemptsKeepPasses
    
