SPECIFICATION FairSpec
CONSTANTS
    Lights = {"porch", "kitchen"}
    Addresses = {"a1", "a2"}
    DeviceIds = {"d1", "d2"}
    InitialDevices <- MCTracked
    InitialAddress <- MCInitialAddress
    OFFLINE_MISS_THRESHOLD = 2
    NULL = NULL
    MaxEvents = 3
INVARIANT TypeOK
PROPERTIES VerdictIsFresh GoneGoesOffline PresentComesOnline
