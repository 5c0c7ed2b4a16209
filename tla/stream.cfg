SPECIFICATION FairSpec
CONSTANTS
    q1 = q1
    user = user
    reports = reports
    e1 = e1
    e2 = e2
    Requests <- OneRequest
    NumSubjects = 1
    Groups <- TwoGroups
    Event <- TwoEvents
    NumMetrics = 1
    MaxCount = 2
    StreamFaults <- StreamFaultKinds
INVARIANTS
    TypeOK
    PublishedIsComplete
    LateStoresBounded
    UpdateShowsProgress
    NothingUnshown
PROPERTIES
    RequestEnds
    StoredIsShown
    ImplementsService
CHECK_DEADLOCK FALSE
