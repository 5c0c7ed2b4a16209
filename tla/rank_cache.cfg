SPECIFICATION Spec
CONSTANTS
    i1 = i1
    i2 = i2
    r1 = r1
    r2 = r2
    a1 = a1
    Ingestors <- TwoIngestors
    Readers <- TwoReaders
    Author <- OneAuthor
    MaxStamp = 2
    CacheTTL = 1
    MaxTime = 2
    RankFaults <- RankFaultKinds
INVARIANTS
    TypeOK
    CacheFollowsGraph
    RankIsFresh
PROPERTIES
    ImplementsService
