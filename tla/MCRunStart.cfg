CONSTANTS
    a1 = a1
    a2 = a2
    b1 = b1
    c1 = c1
    k1 = k1
    bodyA = bodyA
    bodyB = bodyB
    Nobody = Nobody
    Runs = {a1, a2, b1, c1}
    Holder = {a1, a2, b1, c1}
    Calls = {}
    Keys = {k1}
    Bodies = {bodyA, bodyB}
    KeyOf <- MCKeyOf
    BodyOf <- MCBodyOf
    MaxBoot = 3
    MaxEvents = 1
    StorageMayFail = TRUE
CHECK_DEADLOCK FALSE
CONSTRAINT RetriesOrRace
SPECIFICATION StartSpec
INVARIANTS
    OneRunPerKey
    AnswerIsTheRun
    OneLoopPerThread
    IntervalCovers
PROPERTY
    StartImplementsRunRecord
