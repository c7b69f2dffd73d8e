CONSTANTS
    Documents = {d1, d2}
    MaxPages = 2
    Slots = 1
    Budget = 2
    ProbeTimeout = 1
    PageCounts <- TwoOrThree
    Nobody = nobody
    Requests = {r1, r2}
    Threads = 2
    EmbedSlots = 1
    Batches = 1
    Fields = 3
SPECIFICATION FairUpToThreeJobsSpec
INVARIANTS
    WorkersTypeOK
    RecognizedInTime
    WholeOrFailed
    LoadedOnce
    CollectionReady
    NoDeadlock
PROPERTY WorkEnds
CHECK_DEADLOCK FALSE
