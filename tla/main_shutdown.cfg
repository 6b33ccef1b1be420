CONSTANTS
    MaxPlugins = 2
    MaxDeliveries = 3
SPECIFICATION Spec
INVARIANT TypeOK
INVARIANT NoKillAfterSignalSetup
INVARIANT FailureExitReleasesAll
PROPERTY ShutdownSignalLeadsToExit
CHECK_DEADLOCK FALSE
