CONSTANTS
    Runs = {r1}
    Run = r1
    Calls = {t1, h1}
    ToolCalls = {t1}
    HookPrompts = {h1}
    NoCall = none
    Deciders = {d1}
    MaxRetry = 1
    StorageMayFail = FALSE
SPECIFICATION FairSpec
INVARIANT
    WaitingMeansPaused
PROPERTY
    RunSettles
