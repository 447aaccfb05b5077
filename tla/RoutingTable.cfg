SPECIFICATION Spec
CONSTANTS
    W = 4
    K = 2
    MaxFailures = 2
    lan1 = lan1
    wan1 = wan1
    Addr = {wan1}
    LanAddr = {}
    MaxPeerAddrs = 1
    AddrList <- ShortLists
    Self <- ZeroId
    Peer <- FivePeers
    SourceAddr <- FiveSourceAddr
    Mention <- FiveMention
    Handler = {h1, h2}
    MaxClock = 0
SYMMETRY HandlerSymmetry
INVARIANTS
    BucketsBounded
    CandidatesWaitOnlyForRoom
    CacheDisjoint
    FiledByPrefix
PROPERTIES
    NoSlotLost
