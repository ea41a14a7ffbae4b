CONSTANTS
    Threads = {t1, t2}
    Tasks = {f1, f2}
    Channels = {c1}
    Wakeup = wakeupChannel
    MaxCounter = 2
    MaxPending = 3

SPECIFICATION Spec
CHECK_DEADLOCK FALSE

INVARIANTS
    NoLostWakeup
    NoLostQuit

PROPERTIES
    QuitEndsLoop
    ImplementsLoopQueue
