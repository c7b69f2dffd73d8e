CONSTANTS
    Settings <- MCSettings
    Lengths <- UpToTen
    NoPage = none
SPECIFICATION Spec
INVARIANTS
    TypeOK
    NothingLost
    FewRepeats
    PagesAreTrue
CHECK_DEADLOCK FALSE
