CONSTANTS
    Threads = {owner, c1}
    Owner = owner
    Tasks = {f1}
    Channels = {ch1}
    Wakeup = wakeupChannel
    MaxCounter = 2
    MaxPending = 2

SPECIFICATION ThreadSpec
CHECK_DEADLOCK FALSE

INVARIANT PointerIsLive
PROPERTIES
    StartLoopGivesLoop
    OwnerReturns
