SPECIFICATION Spec
CONSTANTS
    s1 = s1
    s2 = s2
    Sessions <- OneSession
    Event <- EventsTie
    CreatedAt <- CreatedAtTie
    FetchLimit = 2
    TTL = 1
    Window = 1
    StartTime = 3
    MaxTime = 6
    Directions <- Backward
    Faults <- NoFaults
PROPERTIES
    FreshFetched
CHECK_DEADLOCK FALSE
