CONSTANTS
    short = short
    long = long
    Requests = {r1, r2}
    Texts = {short, long}
    NoText = notext
    ChunkCount <- MCChunkCount
    UpsertBatch = 1
    TopK = 1
    ErrorCodes = {failed}
    NoError = none
SPECIFICATION FirstOrRetrySpec
INVARIANT SearchableAsAWhole
CHECK_DEADLOCK FALSE
