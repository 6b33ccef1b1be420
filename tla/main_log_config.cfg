CONSTANTS
    MaxPlugins = 1
    MaxDeliveries = 1
SPECIFICATION Spec
INVARIANT LoggingConfiguredFromFile
CHECK_DEADLOCK FALSE
