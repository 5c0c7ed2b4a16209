SPECIFICATION Spec
CONSTANTS
    q1 = q1
    user = user
    reports = reports
    e1 = e1
    e2 = e2
    Requests <- OneRequest
    NumSubjects = 2
    Groups <- OneGroup
    Event <- OneEvent
    NumMetrics = 1
    MaxCount = 1
    StreamFaults <- CancelOnly
INVARIANTS
    FinalMeansSynced
CHECK_DEADLOCK FALSE
