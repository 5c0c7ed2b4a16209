SPECIFICATION FairSpec
CONSTANTS
    i1 = i1
    i2 = i2
    r1 = r1
    r2 = r2
    a1 = a1
    Ingestors <- OneIngestor
    Readers <- TwoReaders
    Author <- OneAuthor
    MaxStamp = 2
    CacheTTL = 1
    MaxTime = 2
    RankFaults <- LiveFaults
PROPERTIES
    InvalidationLands
    RankAnswered
