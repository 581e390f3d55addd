SPECIFICATION Spec
CONSTANTS
    Drivers <- AllDrivers
    ActivationMayFail = TRUE
INVARIANTS
    AllBalanced
    DeviceUsesHeldRings
    QuietAfterExitBoot
    ProtocolMeansDevice
CHECK_DEADLOCK FALSE
