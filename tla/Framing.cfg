SPECIFICATION FramingSpec
CONSTANTS
    MaxMsgs = 4
    MaxFrames = 3
    MaxLosses = 2
    MaxFails = 2
    Senders <- MCSenders
    Lengths = {0, 1, 2, 4, 5}
    MAX_SEND_SIZE = 2
    MaxSent = 3
CHECK_DEADLOCK FALSE
INVARIANTS OneSpoiledPerFault ResultTells
