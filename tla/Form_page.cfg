SPECIFICATION Spec
CONSTANTS
    NDevices = 2
    PresetsOf <- MCPresetsOf
    Presets = {1, 2}
    Initial <- MCInitial
    Removable = {2}
    MaxClicks = 3
    MaxSaves = 2
INVARIANTS
    TypeOK
    RowsOfOwnDevice
    SaveNotStuck
    PreviewIsWhatSaveStores
PROPERTIES
    StoredAsSubmitted

CHECK_DEADLOCK FALSE
