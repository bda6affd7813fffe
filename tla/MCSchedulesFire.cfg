SPECIFICATION FairSchedulesSpec
CONSTANTS
    c1 = c1
    c2 = c2
    Cadences <- Intervals
    CatchUps <- WindowOnly
    Overlaps <- SkipRunning
    Delivers <- Untold
    OnceAt = 1
    Interval = 1
    DayLength = 2
    Window = 1
    MaxClock = 2
    MaxRuns = 2
    MaxCrashes = 1
    SafetyLevel = "full-access"
    Clicks <- NoClick
INVARIANTS
    FiresOnceNoBacklog
PROPERTIES
    RunEnds
    DueIsHandled
CHECK_DEADLOCK FALSE
