SPECIFICATION SourcesSpec
CONSTANTS
    v1 = v1
    v2 = v2
    none = none
    r1 = r1
    Versions <- OneVersion
    NoVersion = none
    Preparations <- TextOnly
    Chunks = 1
    MaxAttempts = 2
    MaxRevision = 3
    MaxFaults = 1
    Stubborn <- FilesMayStay
    Readers <- NoReader
INVARIANTS
    DeletedMeansErased
CHECK_DEADLOCK FALSE
