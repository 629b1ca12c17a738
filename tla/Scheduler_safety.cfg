SPECIFICATION Spec
CONSTANTS
    Schedules = {"s1", "s2"}
    Devices = {"d1"}
    Triggers <- MCTriggers
    SunTriggers <- MCSunTriggers
    Zones = {"home", "back", "unknown"}
    UnknownZones = {"unknown"}
    NextRunTimes <- MCNextRunTimes
    ShownTwice <- MCShownTwice
    InitialSettings <- MCSettings
    InitialSchedules <- MCSchedules
    STALE_MULTIPLIER = 0
    NULL = NULL
    MaxTime = 3
    MaxTickSpan = 1
    MaxLog = 3
    MaxEdits = 1
    MaxFaults = 1
INVARIANTS
    TypeOK
    SettledOnce
    NextRunAhead
    DeliveriesAccountedFor
    LastRunMatchesLog
PROPERTIES
    LateOnlyWithCatchUp
    MovesWithLog
    KeepsPromise
CHECK_DEADLOCK FALSE
