SPECIFICATION Spec
CONSTANTS
    Configs <- ConfigsMC
    Excludes <- ExcludesMC
    MaxFaults = 2
INVARIANTS
    TypeOK
    IInv
    DoneStepsHold
    FinishedInPlace
    KeyfileSlotsBounded
PROPERTY ExcludedStayOut
