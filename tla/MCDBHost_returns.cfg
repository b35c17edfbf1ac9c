SPECIFICATION FairSpec
CONSTANTS
    Caller = {c1, c2}
    Pool = {p1, p2}
    Tx = {t1, t2}
    Row = {}
    MaxOpens = 2
    MaxHandles = 1
    MaxOpenConns = 1
    Nobody = Nobody
    NoPool = NoPool
    NoTx = NoTx
PROPERTIES
    EveryCallReturns
