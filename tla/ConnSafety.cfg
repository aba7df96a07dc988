SPECIFICATION Spec
CONSTANTS
    c1 = c1
    c2 = c2
    up = up
    NULL = NULL
    Conns <- TwoConns
    Workers <- OneWorker
    TimedWorkers <- NoWorker
    Sender = up
    PingTimeout = 1
    MaxTries = 2
    WithInterface = TRUE
    WithCloudDisconnect = TRUE
    WithSendFailure = TRUE
CHECK_DEADLOCK FALSE
SYMMETRY ConnSymmetry
INVARIANTS NoConnectionLeak CloseOnce OnlineMeansConnected
