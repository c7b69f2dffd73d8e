CONSTANTS
    Requests = {r1, r2}
    Ours = {}
    Texts = {blank, brief}
    Blank = blank
    ErrorCodes = {parse, storage}
    NoError = none
    Original = sha
    NoHash = nohash
SPECIFICATION PageSpec
PROPERTY CompletedIsFinal
CHECK_DEADLOCK FALSE
