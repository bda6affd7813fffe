CONSTANTS
    Jobs = {j1}
    NoJob = none
    Steps = 4
    Gates <- MCGates
    MaxAttempts = 1
    Fronts = {f1}
    MaxBoot = 1
    StorageMayFail = FALSE
CHECK_DEADLOCK FALSE
SPECIFICATION ChannelSpec
INVARIANT DeclineIsADecision
