SPECIFICATION Spec
CONSTANTS
    Devices = {"d1", "d2"}
    Presets = {1, 2}
    NSchedules = 1
    ActionOf <- OneActionOf
    LinksOf <- OneLinksOf
    Limit <- MCLimit
PROPERTIES
    ToggleKeepsPresets

CHECK_DEADLOCK FALSE
