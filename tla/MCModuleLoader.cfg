SPECIFICATION FairSpec
CONSTANTS
    a = a
    b = b
    c = c
    Threads = {t1, t2}
    Ids = {a, b, c}
    Blobs <- SomeBlobs
    None = None
    Stores <- SomeStores
    CacheSize = 1
    MaxPublishes = 1
INVARIANTS
    VerifiedIsClosed
    CyclesExactlyRefused
PROPERTY FetchEnds
