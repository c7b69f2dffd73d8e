CONSTANTS
    Requests = {1, 2, 3, 4}
    NoToken = none
    Tabs = {1, 2}
    NoTab = nobody
SPECIFICATION OrderedSpec
INVARIANTS
    OneLiveToken
    LogoutIsFinal
    CookieIsUsable
    RefusedForCause
PROPERTIES
    ImplementsSession
    LoadingEnds
CHECK_DEADLOCK FALSE
