CONSTANTS
    blank = blank
    long = long
    ExtractRequests = {e1, e2}
    IndexRequests = {i1, i2}
    Texts = {blank, long}
    Blank = blank
    NoText = notext
    ChunkCount <- MCChunkCount
    UpsertBatch = 1
    ErrorCodes = {failed}
    NoError = none
    Original = sha
    NoHash = nohash
SPECIFICATION Spec
PROPERTIES
    ExtractionLifecycle
    IndexLifecycle
    IndexingIsImplemented
CHECK_DEADLOCK FALSE
