\* Guided and manual runs of the whole pipeline on one disk, when saving and releasing work.
SPECIFICATION Spec
CONSTANTS
    Configs <- GuidedOrManual
    Plan <- FullPlan
    Soft <- SoftSteps
    None = None
    Faults = {"step", "restore", "kill", "reboot"}
    MaxLaunches = 3
    MaxFaults = 3
INVARIANTS
    MountedWhileInstalling
    ProgressSurvivesReboot
    Surviving
    Removal
    Releasable
    NoCopyLeft
PROPERTIES
    NothingHeldAfterFailure
