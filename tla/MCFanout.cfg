SPECIFICATION Spec
CHECK_DEADLOCK FALSE
CONSTANTS
    u1 = u1
    u2 = u2
    u3 = u3
    u4 = u4
    Units <- MCUnits
    Workers = 2
    MaxItems = 12
    Togethers <- MCTogethers
INVARIANTS
    TypeOK
    BoundIsACeiling
    FirstFailureIsACause
    NothingRunsAfterReturn
    NilIsWhole
    AnswerCoversTheItems
PROPERTIES
    NothingStartsAfterFailure
    ReturnsAtLast
