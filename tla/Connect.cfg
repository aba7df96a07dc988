SPECIFICATION FairSpec
CONSTANTS
    NULL = NULL
    Default = webpa
    Insecure = 0
    Servers = {s1, s2}
    Tokens = {t1, t2}
    Part = part
    AcquireJwt = TRUE
    ClientCert = TRUE
    Flags = 0
    MaxCount = 5
    IntBits = 4
INVARIANTS AttemptSound HeadersCarryValidToken BackoffBounded
PROPERTIES ImplementsServerChoice Connects
