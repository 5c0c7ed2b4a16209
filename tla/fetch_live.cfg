SPECIFICATION FairSpec
CONSTANTS
    s1 = s1
    s2 = s2
    Sessions <- OneSession
    Event <- EventsNow
    CreatedAt <- CreatedAtNow
    FetchLimit = 2
    TTL = 1
    Window = 1
    StartTime = 3
    MaxTime = 5
    Directions <- Both
    Faults <- FaultKinds
PROPERTIES
    NeverRepeated
    SessionEnds
CHECK_DEADLOCK FALSE
