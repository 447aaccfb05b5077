------------------------------ MODULE KBucket ------------------------------
(***************************************************************************)
(* A single k-bucket (routing/bucket.rs) as a data type: a record           *)
(*   nodes         the peers of the bucket, in the order of the Vec         *)
(*   cache         the replacement cache, most recent candidate last        *)
(*   last_updated  when the bucket last took or refreshed a peer            *)
(* and one operator per method, returning the bucket the method leaves.     *)
(* RoutingTable puts the buckets of a node together and adds the tasks that *)
(* operate on them.                                                         *)
(*                                                                          *)
(* Here and in the other modules a definition marked "Fault" is a plausible *)
(* mistake in the definition that follows it.  No specification uses it: it *)
(* serves to see that the properties notice the mistake.                    *)
(***************************************************************************)
EXTENDS NodeIds, Sequences, SequencesExt

CONSTANTS
    K,              \* capacity of a bucket, and of its replacement cache
    MaxFailures,    \* failed RPCs after which a peer is dropped
    Addr,           \* socket addresses
    LanAddr,        \* those that are private, loopback or link-local
    MaxPeerAddrs,   \* addresses kept for a peer when new ones are merged
    AddrList        \* the lists of addresses peers are known by

ASSUME BucketAssumption ==
    /\ K \in Nat \ {0}
    /\ MaxFailures \in 1..255
    /\ LanAddr \subseteq Addr
    /\ MaxPeerAddrs \in Nat \ {0}

-----------------------------------------------------------------------------
(* Peers *)

\* NodeInfo::new; the public key is a function of the identifier.
NewNodeInfo(id, addrs, now) ==
    [node_id |-> id, addresses |-> addrs, last_seen |-> now, fail_count |-> 0]

\* Addresses not yet known are appended, LAN addresses then move to the front
\* (stable), and the tail is cut.
MergeAddresses(known, new) ==
    LET push(acc, a) == IF Contains(acc, a) THEN acc ELSE Append(acc, a)
        all    == FoldLeft(push, known, new)
        sorted == SelectSeq(all, LAMBDA a : a \in LanAddr)
                    \o SelectSeq(all, LAMBDA a : a \notin LanAddr)
    IN  SubSeq(sorted, 1, Min({MaxPeerAddrs, Len(sorted)}))

\* AddrList may be any set of lists that merging does not leave.
ASSUME AddrListAssumption ==
    /\ AddrList \subseteq Seq(Addr)
    /\ \A a \in Addr : <<a>> \in AddrList
    /\ \A a, b \in AddrList : MergeAddresses(a, b) \in AddrList

\* An entry that is seen again: mark_seen and the merge of its addresses.
Refreshed(known, node, now) ==
    [node_id    |-> known.node_id,
     addresses  |-> MergeAddresses(known.addresses, node.addresses),
     last_seen  |-> now,
     fail_count |-> 0]

\* record_failure on an entry: fail_count is a u8 and saturates.
Failed(n) ==
    [node_id    |-> n.node_id,
     addresses  |-> n.addresses,
     last_seen  |-> n.last_seen,
     fail_count |-> IF n.fail_count < 255 THEN n.fail_count + 1 ELSE 255]

NodeInfo == [node_id : NodeId, addresses : AddrList, last_seen : Nat,
             fail_count : 0..255]

-----------------------------------------------------------------------------
(* Positions *)

Positions(s, id) == {i \in 1..Len(s) : s[i].node_id = id}
Has(s, id) == Positions(s, id) # {}
Position(s, id) == Min(Positions(s, id))
IdsOf(s) == {s[i].node_id : i \in 1..Len(s)}

\* No identifier occurs twice.
Distinct(s) == \A i, j \in 1..Len(s) : s[i].node_id = s[j].node_id => i = j

\* retain(|n| n.node_id != id).  The cache never holds an identifier twice
\* (CacheDisjoint below), so retaining the others removes at most one entry.
Without(s, id) == IF Has(s, id) THEN RemoveAt(s, Position(s, id)) ELSE s

-----------------------------------------------------------------------------
(* The bucket *)

Bucket == [nodes : Seq(NodeInfo), cache : Seq(NodeInfo), last_updated : Nat]

EmptyBucket(now) == [nodes |-> <<>>, cache |-> <<>>, last_updated |-> now]

\* Fault: off by one.
IsFullLate(b) == Len(b.nodes) > K

IsFull(b) == Len(b.nodes) >= K

\* add_to_cache: the newest candidate goes last, the oldest falls out.
AddToCache(cache, node) ==
    LET c == Append(Without(cache, node.node_id), node)
    IN  IF Len(c) > K THEN Tail(c) ELSE c

\* KBucket::insert, the bucket it leaves ...
BucketInsert(b, node, now) ==
    IF Has(b.nodes, node.node_id)
    THEN [nodes |-> [b.nodes EXCEPT ![Position(b.nodes, node.node_id)] =
                        Refreshed(b.nodes[Position(b.nodes, node.node_id)],
                                  node, now)],
          cache |-> b.cache,
          last_updated |-> now]
    ELSE IF ~IsFull(b)
    THEN [nodes |-> Append(b.nodes, node), cache |-> b.cache,
          last_updated |-> now]
    ELSE [nodes |-> b.nodes, cache |-> AddToCache(b.cache, node),
          last_updated |-> b.last_updated]

\* ... and the result it returns.  BucketFull comes with nodes[0], which the
\* caller is to ping.
InsertResult(b, node) ==
    IF Has(b.nodes, node.node_id) THEN "Updated"
    ELSE IF ~IsFull(b) THEN "Inserted" ELSE "BucketFull"

\* Fault: the newcomer stays in the replacement cache.
EvictKeepingCandidate(b, failed, node, now) ==
    IF Has(b.nodes, failed)
    THEN [nodes |-> Append(RemoveAt(b.nodes, Position(b.nodes, failed)), node),
          cache |-> b.cache,
          last_updated |-> now]
    ELSE b

\* Fault: the peer is evicted and the newcomer is not put in.
EvictOnly(b, failed, node, now) ==
    IF Has(b.nodes, failed)
    THEN [nodes |-> RemoveAt(b.nodes, Position(b.nodes, failed)),
          cache |-> Without(b.cache, node.node_id),
          last_updated |-> now]
    ELSE b

\* KBucket::evict_and_insert.
BucketEvictAndInsert(b, failed, node, now) ==
    IF Has(b.nodes, failed)
    THEN [nodes |-> Append(RemoveAt(b.nodes, Position(b.nodes, failed)), node),
          cache |-> Without(b.cache, node.node_id),
          last_updated |-> now]
    ELSE b

\* Fault: no candidate is promoted.
RemoveOnly(b, id) ==
    IF ~Has(b.nodes, id) THEN b
    ELSE [nodes |-> RemoveAt(b.nodes, Position(b.nodes, id)),
          cache |-> b.cache,
          last_updated |-> b.last_updated]

\* KBucket::remove: the newest candidate of the cache takes the free slot.
\* last_updated is left alone.
BucketRemove(b, id) ==
    IF ~Has(b.nodes, id) THEN b
    ELSE LET rest == RemoveAt(b.nodes, Position(b.nodes, id))
         IN  IF b.cache = <<>>
             THEN [nodes |-> rest, cache |-> <<>>,
                   last_updated |-> b.last_updated]
             ELSE [nodes |-> Append(rest, Last(b.cache)),
                   cache |-> Front(b.cache),
                   last_updated |-> b.last_updated]

\* KBucket::record_failure.
BucketRecordFailure(b, id) ==
    IF ~Has(b.nodes, id) THEN b
    ELSE LET p == Position(b.nodes, id)
             f == [nodes |-> [b.nodes EXCEPT ![p] = Failed(b.nodes[p])],
                   cache |-> b.cache,
                   last_updated |-> b.last_updated]
         IN  IF f.nodes[p].fail_count >= MaxFailures THEN BucketRemove(f, id) ELSE f

-----------------------------------------------------------------------------
(* What a bucket keeps, conjunct by conjunct (see RoutingTable for the      *)
(* comments on what each one is about).                                     *)

BucketSizeOK(b) == Len(b.nodes) <= K /\ Len(b.cache) <= K

BucketCacheWaits(b) == b.cache # <<>> => Len(b.nodes) = K

BucketCacheDisjoint(b) ==
    /\ IdsOf(b.cache) \cap IdsOf(b.nodes) = {}
    /\ Distinct(b.cache)

BucketFailCounts(b) ==
    /\ \A i \in 1..Len(b.nodes) : b.nodes[i].fail_count < MaxFailures
    /\ \A i \in 1..Len(b.cache) : b.cache[i].fail_count = 0

\* From bucket b to bucket c no slot is lost while a candidate waits.
SlotKept(b, c) == Len(c.nodes) >= Len(b.nodes) \/ (b.cache = <<>> /\ c.cache = <<>>)

\* All of it, for a bucket in which only identifiers of F may be filed.
BucketOK(b, F) ==
    /\ b \in Bucket
    /\ BucketSizeOK(b)
    /\ BucketCacheWaits(b)
    /\ BucketCacheDisjoint(b)
    /\ BucketFailCounts(b)
    /\ IdsOf(b.nodes) \cup IdsOf(b.cache) \subseteq F
=============================================================================
