SPECIFICATION Spec
CONSTANTS
    MaxVersion = 3
    MaxFaults = 1
    Values = {1, 2, 3}
    Zones = {1}
    Place <- MCPlace
    Invalid = {3}
    Start <- MCStart
    Sun = TRUE
    Pi = TRUE
    MaxEvents = 2
INVARIANTS
    TypeOK
    FieldShowsStored
    UpdateNotForgotten
    RestIsConsistent

CHECK_DEADLOCK FALSE
