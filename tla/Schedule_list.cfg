SPECIFICATION ListSpec
CONSTANTS
    Devices = {"d1", "d2"}
    Presets = {1, 2}
    NSchedules = 2
    ActionOf <- MCActionOf
    LinksOf <- MCLinksOf
    Limit <- MCLimit
    Positions = {0, 1, 2}
    Threshold = 2
    MaxPull = 2
    MaxTouches = 3
INVARIANTS
    TypeOK
    SwitchShowsServer
    NoDuplicates
    IndicatorGone
PROPERTIES
    RestoredAsDeleted
    OnlyRestingPress
    HeldReleaseIsInert

CHECK_DEADLOCK FALSE
