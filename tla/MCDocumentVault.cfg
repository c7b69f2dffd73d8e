CONSTANTS
    Documents = {d1, d2}
    Readers = {r1}
    MaxSize = 3
    ChunkSize = 2
    MaxSent = 5
    Absent = absent
SPECIFICATION FairSpec
INVARIANTS
    StoredWhole
    NothingLeftOver
    Downloadable
PROPERTIES
    ImplementsStore
    UploadEnds
CHECK_DEADLOCK FALSE
