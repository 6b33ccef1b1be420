CONSTANTS
    BackendIds = {b1, b2, b3, b4}
    MaxBackends = 3
    Fds = {f1, f2}
    LogLevel = "INFO"
SPECIFICATION Spec
INVARIANT TypeOK
INVARIANT NoLeakWhenGone
INVARIANT NoSpuriousRelease
INVARIANT NoSocketLeak
