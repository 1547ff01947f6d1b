\* Manual formatting done twice under the same partition table.
SPECIFICATION Spec
CONSTANTS
    Configs <- ManualOnly
    Plan <- ShortPlan
    Soft <- SoftSteps
    None = None
    Faults = {"step", "kill", "reboot"}
    MaxLaunches = 3
    MaxFaults = 3
INVARIANTS
    InstalledWhenDone
