SPECIFICATION Spec
CONSTANTS
    W = 3
    K = 2
    MaxFailures = 1
    lan1 = lan1
    wan1 = wan1
    Addr = {lan1, wan1}
    LanAddr = {lan1}
    MaxPeerAddrs = 2
    AddrList <- ShortLists
    Self <- ZeroId
    Peer <- NodeId
    SourceAddr <- AllSourceAddr
    Mention <- AllMention
    Handler = {}
    MaxClock = 1
INVARIANTS
    ClosestToSelfIsExact
    ClosestInOwnBucketIsExact
    ClosestReturnsEnough
    RefreshTargetsStaleBucket
