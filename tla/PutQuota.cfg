SPECIFICATION QuotaSpec
CONSTANTS
    p1 = p1
    p2 = p2
    nat = nat
    Peer = {p1, p2}
    Ip = {nat}
    IpOf <- MCIpOf
    Burst = 2
    MaxIdle = 2
    MaxChunks = 2
    MaxNow = 4
    MaxPuts = 2
INVARIANTS
    RateBound
    QuotaBound
    NoChargeForFailures
