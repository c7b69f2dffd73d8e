CONSTANTS
    Requests = {r1, r2, r3, r4}
    NoToken = none
    Tabs = {b1}
    NoTab = nobody
SPECIFICATION BrowserSpec
PROPERTY SignedOutStaysOut
CHECK_DEADLOCK FALSE
