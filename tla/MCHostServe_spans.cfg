SPECIFICATION ServeSpec
CONSTANTS
    Caller = {s}
    Pool = {p1}
    Tx = {t1, t2}
    Row = {r1}
    MaxOpens = 1
    MaxHandles = 1
    MaxOpenConns = 1
    Nobody = Nobody
    NoPool = NoPool
    NoTx = NoTx
    Server = s
    MsgId = {m1}
    NoId = NoId
CHECK_DEADLOCK FALSE
INVARIANTS
    TransactionSpansRequests
