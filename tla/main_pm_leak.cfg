CONSTANTS
    MaxPlugins = 1
    MaxDeliveries = 1
SPECIFICATION Spec
INVARIANT ResourcesReleasedAtExit
CHECK_DEADLOCK FALSE
