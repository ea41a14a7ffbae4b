CONSTANTS
    Users = {u1, u2}
    MaxSize = 0
    MaxCount = 3
    MaxInits = 2
    MaxLines = 4

SPECIFICATION Spec
CONSTRAINT Followed
CHECK_DEADLOCK FALSE

INVARIANTS
    TokensCoverLines
    FaultsAreExplained

PROPERTIES
    LinesAreWritten
    RollDropsOldest
