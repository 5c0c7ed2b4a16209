SPECIFICATION Spec
CONSTANTS
    i1 = i1
    i2 = i2
    r1 = r1
    r2 = r2
    a1 = a1
    Ingestors <- OneIngestor
    Readers <- OneReader
    Author <- OneAuthor
    MaxStamp = 2
    CacheTTL = 1
    MaxTime = 3
    RankFaults <- LostAckOnly
INVARIANTS
    IngestInvalidates
