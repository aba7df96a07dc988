SPECIFICATION FairSpec
CONSTANTS
    a = a
    long = long
    n1 = n1
    n2 = n2
    n3 = n3
    NoNode = NoNode
    Services <- MCServices
    LongNames <- MCNoLong
    Nodes <- MCNodes
    FlakyConnect = TRUE
INVARIANTS CountIsLength
PROPERTIES KeepaliveReachesAll BrokenIsRemoved
