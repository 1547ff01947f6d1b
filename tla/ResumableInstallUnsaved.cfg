\* The save fails, then a step.
SPECIFICATION Spec
CONSTANTS
    Configs <- OneGuided
    Plan <- ShortPlan
    Soft <- SoftSteps
    None = None
    Faults = {"step", "save"}
    MaxLaunches = 1
    MaxFaults = 2
INVARIANTS
    ProgressSurvivesReboot
