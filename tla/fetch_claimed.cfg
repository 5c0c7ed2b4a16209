SPECIFICATION Spec
CONSTANTS
    s1 = s1
    s2 = s2
    Sessions <- OneSession
    Event <- EventsTie
    CreatedAt <- CreatedAtTie
    FetchLimit = 2
    TTL = 1
    Window = 2
    StartTime = 3
    MaxTime = 5
    Directions <- Backward
    Faults <- CancelOnly
INVARIANTS
    ClaimedIsStored
CHECK_DEADLOCK FALSE
