SPECIFICATION Spec
CONSTANTS
    None = None
    Disks <- DisksMC
    Tables <- TablesMC
    UsualMounts <- UsualMountsMC
    MaxOdd = 1
    MaxHurries = 1
INVARIANT OneInstaller
CHECK_DEADLOCK FALSE
