SPECIFICATION FairSourcesSpec
CONSTANTS
    v1 = v1
    v2 = v2
    none = none
    r1 = r1
    Versions <- OneVersion
    NoVersion = none
    Preparations <- ViewOnly
    Chunks = 2
    MaxAttempts = 2
    MaxRevision = 3
    MaxFaults = 3
    Stubborn <- FilesMayStay
    Readers <- NoReader
INVARIANTS
    WholeUntilDestroyed
    NothingEscapesInventory
    ErasedStaysErased
    AcceptedBytesIntact
PROPERTIES
    DeletionEnds
CHECK_DEADLOCK FALSE
