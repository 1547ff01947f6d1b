\* A user who does not give up, against every fault but a failing release.
SPECIFICATION PersistentSpec
CONSTANTS
    Configs <- OneGuided
    Plan <- ShortPlan
    Soft <- SoftSteps
    None = None
    Faults = {"step", "save", "restore", "kill", "orphan", "reboot"}
    MaxLaunches = 5
    MaxFaults = 3
PROPERTIES
    EventuallyInstalled
