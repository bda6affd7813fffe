CONSTANTS
    Jobs = {j1}
    NoJob = none
    Steps = 4
    Gates <- MCGates
    MaxAttempts = 2
    Fronts = {f1, f2}
    MaxBoot = 3
    StorageMayFail = TRUE
CHECK_DEADLOCK FALSE
SPECIFICATION FairChannelSpec
INVARIANTS
    ChannelTypeOK
    ConsentBeforeWork
    OneDecisionPerGate
    RowIsCoherent
    SuccessIsComplete
    EndedMeansIdle
PROPERTIES
    JobsMoveForward
    JobProgresses
