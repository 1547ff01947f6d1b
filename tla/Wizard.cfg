SPECIFICATION Spec
CONSTANTS
    None = None
    Disks <- DisksMC
    Tables <- TablesMC
    UsualMounts <- UsualMountsMC
    MaxOdd = 2
    MaxHurries = 1
INVARIANTS
    TypeOK
    PromisesHold
    Installable
    KeepsWhatItShows
    CursorVisitsWhatIsShown
    LayoutHolds
    IInv
CHECK_DEADLOCK FALSE
