SPECIFICATION Spec
CONSTANTS
    k1 = k1
    p1 = p1
    Key = {k1}
    Peer = {p1}
    Alpha = 1
    Others = 1
    Proactive = TRUE
    TTL = 6
    Republish = 2
    MaxDelay = 1
    Tolerated = 1
    MaxLosses = 2
    MaxStops = 2
INVARIANTS
    OwnRecordKept
    PeersKeepRecord
    NewcomersOffered
PROPERTIES
    RestoresLastSave
    Reannounced
