CONSTANTS
    MaxCalls = 3
    ReadConcurrency = 2
    AbortSiblingExecuteOnError = TRUE
SPECIFICATION LiveSpec
INVARIANTS
    TurnSound
PROPERTIES
    BlockedNeverRan
    ImplementsSchedule
    TurnSettles
