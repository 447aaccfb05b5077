SPECIFICATION Spec
CONSTANTS
    Call = {c1, c2}
    Addrs <- OneAddr
    Silent = {c2}
    MaxPending = 1
    QueueSize = 1
    MaxHandlers = 1
    None = None
CHECK_DEADLOCK FALSE
INVARIANTS
    NoOrphanSender
PROPERTIES
    RefinesRpc
    CallsEnd
    TableDrains
