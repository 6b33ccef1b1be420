CONSTANTS
    MaxPlugins = 1
    MaxDeliveries = 1
SPECIFICATION Spec
INVARIANT LoopFailureReported
CHECK_DEADLOCK FALSE
