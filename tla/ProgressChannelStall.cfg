\* A full channel nobody reads after the dialog was answered with no.
SPECIFICATION FairSpec
CONSTANTS
    Steps = 2
    Capacity = 1
    MaxLines = 2
    MaxDialogs = 1
PROPERTIES
    EventuallyEnds
CHECK_DEADLOCK FALSE
