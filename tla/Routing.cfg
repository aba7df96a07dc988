SPECIFICATION FairSpec
CONSTANTS
    NULL = NULL
    Ids = {i1, i2}
    Services <- MCServices
    ParodusLike <- MCParodusLike
    Partners <- MCPartners
    Fold <- MCFold
    DevicePartners <- Acme
    CloudMsgs <- MCCloudMsgs
    ClientMsgs <- MCClientMsgs
CHECK_DEADLOCK FALSE
INVARIANTS AccountedOnce RequestsServed PartnersDecide 
PROPERTIES MessagesSettle
