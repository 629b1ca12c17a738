SPECIFICATION FairSpec
CONSTANTS
    Schedules = {"s1", "s2", "s3"}
    Devices = {"d1"}
    Triggers <- MCTriggers
    SunTriggers <- MCSunTriggers
    Zones = {"home"}
    UnknownZones = {}
    NextRunTimes <- MCNextRunTimes
    ShownTwice <- MCShownTwice
    InitialSettings <- MCSettings
    InitialSchedules <- MCSchedules
    STALE_MULTIPLIER = 0
    NULL = NULL
    MaxTime = 2
    MaxTickSpan = 1
    MaxLog = 3
    MaxEdits = 1
    MaxFaults = 1
PROPERTY
    OverdueIsSettled
CHECK_DEADLOCK FALSE
