SPECIFICATION Spec
CONSTANTS
    Drivers <- OnlyScsi
    ActivationMayFail = FALSE
INVARIANT
    RingsHeld
CHECK_DEADLOCK FALSE
