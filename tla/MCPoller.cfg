CONSTANTS
    c1 = c1
    c2 = c2
    c3 = c3
    c4 = c4
    NoChannel = NoChannel
    Channels = {c1, c2, c3, c4}
    Events = {"read"}
    Fd <- FdOfFour

SPECIFICATION Spec

INVARIANTS
    Consistent
    NoAssertFails
    HandledIsAlive

PROPERTY
    OneEntryChanges

CHECK_DEADLOCK FALSE
