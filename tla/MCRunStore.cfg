CONSTANTS
    Runs = {r1, r2}
    Calls = {c1}
SYMMETRY Symmetry
CONSTRAINT EvidenceForOneRun
SPECIFICATION RunStoreSpec
INVARIANTS
    RunStoreTypeOK
    SpentApprovalIsReceipted
    DecisionHasReceipt
PROPERTY
    LedgerMovesForward
