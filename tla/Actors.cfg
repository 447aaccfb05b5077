CONSTANTS
    asker = asker
    hidden = hidden
    relay1 = relay1
    dead = dead
    boot = boot
    find = find
    get = get
    stop = stop
    None = None
    Node = {asker, hidden, relay1, dead}
    Command = {boot, find, get, stop}
    KindOf <- MCKindOf
    NodeOf <- MCNodeOf
    TargetOf <- MCTargetOf
    Public = {asker, relay1, dead}
    Gone = {dead}
    Links <- MCLinks
    Relays <- MCRelays
    Contacts <- MCContacts
    BucketOf <- MCBucketOf
    Crowded <- MCCrowded
    MaxHandlers = 2
    QueueSize = 2
    MaxLosses = 1

SPECIFICATION Spec
CHECK_DEADLOCK FALSE

INVARIANTS
    RelayReaches
PROPERTIES
    CallersReleased
    PermitsReturned
    BootstrapsDoNotBlock
    OnlyUnheardPeersEvicted
