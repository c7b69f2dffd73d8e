CONSTANTS
    short = short
    long = long
    Requests = {r1, r2}
    Texts = {short, long}
    NoText = notext
    ChunkCount <- MCChunkCount
    UpsertBatch = 1
    TopK = 1
    ErrorCodes = {failed}
    NoError = none
SPECIFICATION FairFirstOrRetrySpec
INVARIANTS
    InProgressIsOwned
    ChunksAreOneAttempt
    SerialIndexComplete
PROPERTIES
    AnswerIsOneIndex
    InProgressSettles
CHECK_DEADLOCK FALSE
