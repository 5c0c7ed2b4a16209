SPECIFICATION FairSpec
CONSTANTS
    c1 = c1
    c2 = c2
    Calls <- TwoCalls
    FailOpen = FALSE
    IsScript = TRUE
    MaxScript = 2
    PolicyFaults <- PolicyFaultKinds
INVARIANTS
    TypeOK
    VerdictIsOwn
    InStep
    ScriptIsCurrent
PROPERTIES
    CallReturns
    ImplementsService
CHECK_DEADLOCK FALSE
