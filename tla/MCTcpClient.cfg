SPECIFICATION Spec
CONSTANTS
    Users = {u1}
    Owner = owner
    MaxStarts = 2
    MaxPending = 1
CONSTRAINT OneExcuse
INVARIANTS
    FaultsAreExplained
    SocketsAreOwned
    ChannelsAreTracked
CHECK_DEADLOCK FALSE
PROPERTIES
    ForceCloseCloses
    StopEndsAttempt
