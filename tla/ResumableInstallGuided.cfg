\* Two guided configurations, every kind of fault.
SPECIFICATION Spec
CONSTANTS
    Configs <- TwoGuided
    Plan <- ShortPlan
    Soft <- SoftSteps
    None = None
    Faults = {"step", "save", "restore", "release", "kill", "orphan", "reboot"}
    MaxLaunches = 3
    MaxFaults = 3
INVARIANTS
    IInv
    SkippedStepsInPlace
    MountedWhileInstalling
    NoCopyLeft
    InstalledWhenDone
PROPERTIES
    KeepsThePromise
