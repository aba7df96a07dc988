SPECIFICATION Spec
CONSTANTS
    NULL = NULL
    MAX_RR_RECS = 3
    MaxSeq = 4
    MaxAnswer = 4
    Algs = {0, 1, 2}
    jwt_algo = {1}
    Now = 2
    Servers = {s1}
INVARIANTS AcceptedIsValid CompleteJwt WholeAnswerUsed
