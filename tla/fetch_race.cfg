SPECIFICATION Spec
CONSTANTS
    s1 = s1
    s2 = s2
    Sessions <- TwoSessions
    Event <- EventsFull
    CreatedAt <- CreatedAtFull
    FetchLimit = 2
    TTL = 0
    Window = 1
    StartTime = 3
    MaxTime = 4
    Directions <- Backward
    Faults <- RaceFaults
SYMMETRY Symmetry
INVARIANTS
    TypeOK
    GapFree
    BoundaryIdsOffered
    OnlyFullSeconds
PROPERTIES
    PagesMoveOn
    ImplementsService
CHECK_DEADLOCK FALSE
