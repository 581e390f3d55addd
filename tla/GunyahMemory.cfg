SPECIFICATION Spec
CONSTANTS
    GuestRegions <- ChunksAndRest
    Levels <- TwoLevels
    LendChunk = 2
    Modes <- AllModes
    Windows <- DeviceWindows
    PageSize = 2
    MaxChanges = 5
    Trusted = TRUE
CHECK_DEADLOCK FALSE
INVARIANT SlotsPartition
INVARIANT RegionsBacked
INVARIANT GuestMemoryHandedOver
