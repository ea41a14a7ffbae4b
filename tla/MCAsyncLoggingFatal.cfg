CONSTANTS
    Owner = owner
    Producers = {p1, p2}
    BufSize = 3
    MaxLines = 9

SPECIFICATION Spec
CHECK_DEADLOCK FALSE

INVARIANTS
    FatalLineIsFlushed
