SPECIFICATION Spec
CONSTANTS
    Volumes <- TwoVolumes
    Esp <- OneEsp
    MaxBoots = 3
    MaxFaults = 2
INVARIANTS
    PkImpliesKeys
    StandardAtHandOff
    NoVolumeMissed
PROPERTIES
    HonoursChoice
    CleanBootEnrolls
    PolicyFollowsPk
CHECK_DEADLOCK FALSE
