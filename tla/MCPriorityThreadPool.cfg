CONSTANTS
    Workers = 3
    urgent = urgent
    plain1 = plain1
    plain2 = plain2
    Tasks <- MCTasks
    Level <- MCLevel

SPECIFICATION Spec

INVARIANTS
    NoLostTask

PROPERTIES
    StopReturns
    UrgentIsTaken
