SPECIFICATION FairSpec
CONSTANTS
    c1 = c1
    c2 = c2
    up = up
    NULL = NULL
    Conns <- OneConn
    Workers <- OneWorker
    TimedWorkers <- NoWorker
    Sender = NULL
    PingTimeout = 2
    MaxTries = 2
    WithInterface = TRUE
    WithCloudDisconnect = FALSE
    WithSendFailure = FALSE
CHECK_DEADLOCK FALSE
INVARIANTS ReconnectHasReason LoopExitsOnShutdown
PROPERTIES ShutdownTerminates LostConnectionRecovers
