CONSTANTS
    Runs = {r1}
    Run = r1
    Calls = {t1, t2, h1}
    ToolCalls = {t1, t2}
    HookPrompts = {h1}
    NoCall = none
    Deciders = {d1}
    MaxRetry = 1
    StorageMayFail = TRUE
SYMMETRY Symmetry
SPECIFICATION Spec
INVARIANTS
    GatedToolSpentApproval
    EvidenceSurvives
    FinishedRunIsClosed
PROPERTY
    ImplementsRunRecord
