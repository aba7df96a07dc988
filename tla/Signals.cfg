SPECIFICATION FairSpec
CONSTANTS
    NULL = NULL
    MaxEvents = 4
CHECK_DEADLOCK FALSE
PROPERTIES HandlerReturns DelayBroken
