CONSTANTS
    BackendIds = {b1, b2, b3}
    MaxBackends = 2
    Fds = {f1}
    LogLevel = "INFO"
SPECIFICATION Spec
INVARIANT ReleaseInReverseOrder
