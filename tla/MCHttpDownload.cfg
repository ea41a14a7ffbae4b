CONSTANTS
    CheapPrepend = 1
    InitialSize = 4
    ExtraSize = 5
    Workers = 2
    Tasks <- MCTasks
    Level <- MCLevel
    MaxTries = 2
    HeadSize = 3
    BodySize = 10

SPECIFICATION DownloadSpec
CHECK_DEADLOCK FALSE

INVARIANTS
    BodyIsInOrder

PROPERTIES
    FoundIsUsed
    CompleteEnds
