CONSTANTS
    ann = ann
    bob = bob
    Members = {ann, bob}
    Verifier = verifier
    Nobody = nobody
    MaxTasks = 3
    Waves <- MCWaves
    VerifyCap = 1
    Slots = {s1, s2}
    MaxConcurrent = 2
    MaxWakes = 1
    MaxDue = 1
    MaxEvents = 5
SYMMETRY Symmetry
CHECK_DEADLOCK FALSE
SPECIFICATION TeamSpec
INVARIANTS
    DependenciesFirst
    ActiveIsWorked
    NoLostWakeup
