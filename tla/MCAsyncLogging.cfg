CONSTANTS
    Owner = owner
    Producers = {p1}
    BufSize = 3
    MaxLines = 9

SPECIFICATION Spec
CHECK_DEADLOCK FALSE

INVARIANTS
    PoolNeverRunsOut
    NoSleepOnFullBuffer

PROPERTIES
    StopReturns
    ImplementsOrderedLog
