SPECIFICATION Spec
CONSTANTS
    Configs <- ConfigsMC
    Excludes <- ExcludesMC
    MaxFaults = 0
INVARIANT BootsTheBuiltImage
