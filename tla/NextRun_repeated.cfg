CONSTANTS
    DayLength = 8
    WeekLength = 3
    YearDay <- MCYearDay
    LeapDay = 2
    LongestYear = 6
    SunTime <- MCSunTime
    ClockChanges <- MCClockChanges
    Inputs <- MCInputs
    MaxTime = 48
    MaxLate = 3
    NULL = NULL
SPECIFICATION Spec
CHECK_DEADLOCK FALSE
INVARIANT StrictlyAfterNow
