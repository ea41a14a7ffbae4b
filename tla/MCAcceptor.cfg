CONSTANTS
    Limit = 4
    MaxBacklog = 3

SPECIFICATION AcceptorSpec

INVARIANTS
    SpareIsKept

PROPERTIES
    BacklogDrains
