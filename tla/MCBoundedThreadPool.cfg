CONSTANTS
    Workers = 2
    Clients = {c1, c2, c3}
    Capacity = 2
    TasksSubmit = TRUE

SPECIFICATION Spec

INVARIANTS
    NoLostTask
    NoLostSpace

PROPERTIES
    StopReturns
