SPECIFICATION Spec
CONSTANTS
    NDevices = 2
    PresetsOf <- MCPresetsOf
    Presets = {1, 2}
    Initial <- MCInitial
    Removable = {}
    MaxClicks = 0
    MaxSaves = 0
INVARIANT LoadedAsStored
CHECK_DEADLOCK FALSE
