\* The channel fills up; the quit dialog may open twice, and then really can
\* stop everything, so that deadlock is not an error.
SPECIFICATION FairSpec
CONSTANTS
    Steps = 3
    Capacity = 2
    MaxLines = 2
    MaxDialogs = 2
INVARIANTS
    TypeOK
    IInv
    NothingLost
    NoGapOnScreen
    VerdictIsTrue
PROPERTIES
    EventuallyReported
CHECK_DEADLOCK FALSE
