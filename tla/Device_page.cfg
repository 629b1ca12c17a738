SPECIFICATION Spec
CONSTANTS
    Files <- MCFiles
    CamelKey <- MCCamelKey
    Releases <- MCReleases
    Lights <- MCLights
    Names = {"n1", "n2"}
    Hosts = {"h1", "h2"}
    Start <- MCStart
    MaxSaves = 2
    MaxEvents = 3
INVARIANTS
    TypeOK
    DeviceShown
    MdnsNameOfHost
CHECK_DEADLOCK FALSE
