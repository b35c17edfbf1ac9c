SPECIFICATION ServeFairSpec
CONSTANTS
    Caller = {s}
    Pool = {p1, p2}
    Tx = {t1, t2}
    Row = {r1}
    MaxOpens = 2
    MaxHandles = 2
    MaxOpenConns = 1
    Nobody = Nobody
    NoPool = NoPool
    NoTx = NoTx
    Server = s
    MsgId = {m1}
    NoId = NoId
CHECK_DEADLOCK FALSE
INVARIANTS
    ServeTypeOK
    NoTxOutlivesItsRequest
    CleanExitClosesAll
    ClientKnowsHandles
PROPERTIES
    EveryFrameAnswered
