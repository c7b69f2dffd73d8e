CONSTANTS
    Requests = {r1, r2, r3}
    Ours = {r1}
    Texts = {blank, brief}
    Blank = blank
    ErrorCodes = {failed}
    NoError = none
    Original = sha
    NoHash = nohash
SPECIFICATION FairPageSpec
INVARIANTS
    InProgressIsOwned
    FirstAttemptExclusive
    SerialRowConsistent
PROPERTIES
    InProgressSettles
    PageRefreshes
CHECK_DEADLOCK FALSE
