SPECIFICATION Spec
CONSTANTS
    s = s
    p = p
    q = q
    x = x
    Node = {s, p, q, x}
    Storer = s
    Reader = q
    Liar = {x}
    Jobs <- MCJobs
    BlockSize = 2
    Alpha = 1
    TargetsOf <- MCTargetsOf
    MaxCrashes = 2
    MaxMisses = 1
CHECK_DEADLOCK FALSE
INVARIANTS
    ManifestLast
    RetrieveSound
    RetrieveSucceeds
PROPERTIES
    CommandsEnd
