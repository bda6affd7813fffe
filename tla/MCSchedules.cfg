SPECIFICATION SchedulesSpec
CONSTANTS
    c1 = c1
    c2 = c2
    Cadences <- OnceOrDaily
    CatchUps <- CatchUpOnly
    Overlaps <- SkipRunning
    Delivers <- Notify
    OnceAt = 1
    Interval = 1
    DayLength = 1
    Window = 2
    MaxClock = 2
    MaxRuns = 1
    MaxCrashes = 1
    SafetyLevel = "draft-approval"
    Clicks <- TwoClicks
SYMMETRY Symmetry
INVARIANTS
    SchedulesTypeOK
    HeldActionOnce
    ReportIsHonest
CHECK_DEADLOCK FALSE
