SPECIFICATION FairSpec
CONSTANTS
    m1 = m1
    m2 = m2
    m3 = m3
    NULL = NULL
    Msgs <- MCMsgs
    Path <- MCPath
INVARIANTS SignalsReach
CHECK_DEADLOCK FALSE
PROPERTIES ImplementsFifo AcceptedIsHandled QueuedIsTaken ShutdownJoins
