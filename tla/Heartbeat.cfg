SPECIFICATION Spec
CONSTANTS
    webpa_ping_timeout = 2
    PerSec = 3
    LoopMax = 2
    UINT_MAX = 15
    MaxQuiet = 11
    Steps <- SomeSteps
INVARIANTS PausedIsZero NoFalseMiss SilenceNoticed
