SPECIFICATION Spec
CONSTANTS
    Stored <- MCStored
    Times <- MCTimes
    Offsets <- MCOffsets
    Dates = {1, 2}
    Percents = {1, 30, 100}
    Hues = {0, 60, 359}
    Sats = {0, 1, 100}
    Toggled = {0, 6}
    MaxClicks = 3
INVARIANTS
    TypeOK
    ReopenedAsSaved
    SlidersShowColour
    

CHECK_DEADLOCK FALSE
