SPECIFICATION Spec
CONSTANTS
    Caller = {c1, c2}
    Pool = {p1, p2}
    Tx = {t1, t2}
    Row = {r1, r2}
    MaxOpens = 2
    MaxHandles = 1
    MaxOpenConns = 2
    Nobody = Nobody
    NoPool = NoPool
    NoTx = NoTx
SYMMETRY MCSymmetry
INVARIANTS
    TypeOK
    HandleLimit
    PoolsAccounted
    NoUseAfterClose
    TxAccounted
    AnswersTrue
    CloseOwnsState
PROPERTIES
    HandlesNeverReused
    ImplementsTxHandles
