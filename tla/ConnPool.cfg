SPECIFICATION PoolSpec
CONSTANTS
    a1 = a1
    a2 = a2
    c1 = c1
    c2 = c2
    Addr = {a1, a2}
    NoConn = NoConn
    Request = {c1, c2}
    AddrOf <- SameAddr
    MaxPool = 1
    Stale = 2
    MaxConns = 3
INVARIANTS
    PoolBounded
    StaleHarmContained
PROPERTIES
    DeadConnectionsLeave
