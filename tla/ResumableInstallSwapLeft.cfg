\* A second run with another swap setting.
SPECIFICATION Spec
CONSTANTS
    Configs <- SwapChanges
    Plan <- ShortPlan
    Soft <- SoftSteps
    None = None
    Faults = {"step", "kill"}
    MaxLaunches = 2
    MaxFaults = 1
PROPERTIES
    NothingHeldAfterFailure
