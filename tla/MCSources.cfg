SPECIFICATION SourcesSpec
CONSTANTS
    v1 = v1
    v2 = v2
    none = none
    r1 = r1
    Versions <- TwoVersions
    NoVersion = none
    Preparations <- TextOnly
    Chunks = 1
    MaxAttempts = 1
    MaxRevision = 3
    MaxFaults = 1
    Stubborn <- FilesMayStay
    Readers <- OneReader
INVARIANTS
    SourcesTypeOK
    AnswerWasOffered
PROPERTIES
    ImplementsLifecycle
CHECK_DEADLOCK FALSE
