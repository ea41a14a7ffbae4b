CONSTANTS
    Callers = {t1}
    Addresses = {a1, a2}
    Delays = {0, 2}
    Interval = 1
    MaxTime = 2
    MaxTimers = 2
    MaxPending = 1

SPECIFICATION Spec

INVARIANTS
    TimersAreOwned
    CancelledStops
    RepeatersStay

PROPERTIES
    AlarmStaysEarly
    TimersFire

CHECK_DEADLOCK FALSE
