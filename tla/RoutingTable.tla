---------------------------- MODULE RoutingTable ----------------------------
(***************************************************************************)
(* The routing table of a node (routing/table.rs) and the tasks of the node *)
(* that change it (node.rs).  The table sits behind one mutex; what makes   *)
(* it hard is what happens between two acquisitions of that mutex.  A task  *)
(* handling an inbound message that finds its sender's bucket full drops    *)
(* the lock, asks for the address of the least recently seen peer, waits up *)
(* to five seconds for that peer's answer to a ping, and only then evicts   *)
(* it in favour of the sender, while other handlers, lookups, stores and    *)
(* bootstraps go on changing the same bucket.                               *)
(***************************************************************************)
EXTENDS KBucket

CONSTANTS
    Self,          \* this node's identifier (RoutingTable::local_id)
    Peer,          \* identifiers whose messages or mentions reach this node
    SourceAddr,    \* addresses from which a peer's messages arrive
    Mention,       \* address lists with which other nodes mention a peer
    Handler,       \* tasks that handle inbound messages (max_concurrent_handlers)
    MaxClock       \* bound on the clock

ASSUME TableAssumption ==
    /\ Self \in NodeId
    /\ Peer \subseteq NodeId
    /\ SourceAddr \in [Peer -> SUBSET Addr]
    /\ Mention \in [Peer -> SUBSET AddrList]
    /\ MaxClock \in Nat

VARIABLES
    buckets,   \* the buckets, by common prefix length with Self
    task,      \* what each inbound handler is waiting for
    clock      \* Instant::now()

vars == <<buckets, task, clock>>

-----------------------------------------------------------------------------
BucketIdx == 0..(W - 1)

\* bucket_index: a prefix length of W (the identifier itself) is clamped.
BucketIndex(id) ==
    LET cpl == CommonPrefixLength(Self, id)
    IN  IF cpl < W - 1 THEN cpl ELSE W - 1

\* Fault: the node files itself.
TableInsertSelf(bs, node, now) ==
    [bs EXCEPT ![BucketIndex(node.node_id)] = BucketInsert(@, node, now)]

\* RoutingTable::insert: the node itself is silently ignored.
TableInsert(bs, node, now) ==
    IF node.node_id = Self THEN bs
    ELSE [bs EXCEPT ![BucketIndex(node.node_id)] = BucketInsert(@, node, now)]

TableInsertResult(bs, node) ==
    IF node.node_id = Self THEN "Updated"
    ELSE InsertResult(bs[BucketIndex(node.node_id)], node)

\* RoutingTable::evict_and_insert: the newcomer goes to the bucket of the
\* peer it replaces.
TableEvictAndInsert(bs, failed, node, now) ==
    [bs EXCEPT ![BucketIndex(failed)] =
        BucketEvictAndInsert(@, failed, node, now)]

\* RoutingTable::record_failure.
TableRecordFailure(bs, id) ==
    [bs EXCEPT ![BucketIndex(id)] = BucketRecordFailure(@, id)]

\* The first entry of the first bucket that lists address a.
EntriesAt(b, a) == {i \in 1..Len(b.nodes) : Contains(b.nodes[i].addresses, a)}
BucketsAt(bs, a) == {i \in BucketIdx : EntriesAt(bs[i], a) # {}}

\* RoutingTable::record_failure_by_addr blames that entry.
TableRecordFailureByAddr(bs, a) ==
    IF BucketsAt(bs, a) = {} THEN bs
    ELSE LET i  == Min(BucketsAt(bs, a))
             id == bs[i].nodes[Min(EntriesAt(bs[i], a))].node_id
         IN  [bs EXCEPT ![i] = BucketRecordFailure(@, id)]

-----------------------------------------------------------------------------
(* closest_nodes.  The walk visits bucket center and then, round by round,  *)
(* one bucket downwards (lo) and one upwards (hi), until it has enough      *)
(* candidates or has run out of buckets on both sides.                      *)

\* Buckets visited in the first m rounds.
Visited(center, m) == {i \in BucketIdx : center - m < i /\ i <= center + m}

\* The entries of a set of buckets.
EntriesOf(bs, idx) ==
    FlattenSeq([i \in 1..W |-> IF i - 1 \in idx THEN bs[i - 1].nodes ELSE <<>>])

\* Faults: stop when one side is exhausted; stop one candidate too early.
WalkStopsOnOneSide(bs, center, m, count) ==
    \/ Len(EntriesOf(bs, Visited(center, m))) >= count
    \/ center - m < 0
    \/ center + 1 + m >= W
WalkStopsEarly(bs, center, m, count) ==
    \/ Len(EntriesOf(bs, Visited(center, m))) >= count - 1
    \/ center - m < 0 /\ center + 1 + m >= W

\* The loop's condition fails after m rounds.
WalkStops(bs, center, m, count) ==
    \/ Len(EntriesOf(bs, Visited(center, m))) >= count
    \/ center - m < 0 /\ center + 1 + m >= W

Rounds(bs, center, count) ==
    Min({m \in 0..W : WalkStops(bs, center, m, count)})

\* The first count entries in order of distance.
NearestUnsorted(entries, target, count) ==   \* Fault: the sort is left out.
    SubSeq(entries, 1, Min({count, Len(entries)}))
Nearest(entries, target, count) ==
    SortedPrefix(target, entries, Min({count, Len(entries)}))

ClosestNodes(bs, target, count) ==
    LET center == BucketIndex(target)
        m      == Rounds(bs, center, count)
    IN  Nearest(EntriesOf(bs, Visited(center, m)), target, count)

\* Fault: the bit that decides the bucket is not flipped.
RandomIdsUnflipped(i) ==
    {[b \in Bits |-> IF b <= i + 1 THEN Self[b] ELSE r[b]] : r \in NodeId}

\* random_id_for_bucket: the identifiers it can return for bucket i.  The
\* first i bits are Self's, the next is made to differ, the rest is random.
RandomIdsForBucket(i) ==
    {[b \in Bits |-> IF b <= i THEN Self[b]
                     ELSE IF b = i + 1 THEN 1 - Self[b]
                     ELSE r[b]] : r \in NodeId}

\* stale_bucket_indices: buckets with peers, not updated within max_age.
StaleBuckets(bs, max_age, now) ==
    {i \in BucketIdx : /\ bs[i].nodes # <<>>
                       /\ bs[i].last_updated < now - max_age}

-----------------------------------------------------------------------------
(* The tasks *)

Idle == [phase |-> "idle"]

Init ==
    /\ buckets = [i \in BucketIdx |-> EmptyBucket(0)]
    /\ task = [h \in Handler |-> Idle]
    /\ clock = 0

\* handle_inbound_message, from a verified message of peer p (not in client
\* mode) to the insertion of its sender.  On BucketFull the task goes on to
\* question the first peer of the bucket; otherwise it is done with the table.
Inbound(h, p) ==
    /\ task[h] = Idle
    /\ \E a \in SourceAddr[p] :
        LET node == NewNodeInfo(p, <<a>>, clock)
        IN  /\ buckets' = TableInsert(buckets, node, clock)
            /\ task' =
                IF TableInsertResult(buckets, node) = "BucketFull"
                THEN [task EXCEPT ![h] =
                        [phase |-> "resolve",
                         node  |-> node,
                         lrs   |-> buckets[BucketIndex(p)].nodes[1].node_id]]
                ELSE task
    /\ UNCHANGED clock

\* The lock is taken again to find an address of that peer.  When it has left
\* the table, or has no address, the handler does not ping and does not evict.
ResolveLrs(h) ==
    /\ task[h].phase = "resolve"
    /\ LET found == ClosestNodes(buckets, task[h].lrs, 1)
       IN  task' = [task EXCEPT ![h] =
                IF /\ found # <<>>
                   /\ found[1].node_id = task[h].lrs
                   /\ found[1].addresses # <<>>
                THEN [phase |-> "ping",
                      node  |-> task[h].node,
                      lrs   |-> task[h].lrs]
                ELSE Idle]
    /\ UNCHANGED <<buckets, clock>>

\* The ping is answered: the handler only logs it.
PingAnswered(h) ==
    /\ task[h].phase = "ping"
    /\ task' = [task EXCEPT ![h] = Idle]
    /\ UNCHANGED <<buckets, clock>>

\* The ping fails or times out: evict_and_insert with the entry that was
\* built when the message arrived.
PingFailed(h) ==
    /\ task[h].phase = "ping"
    /\ buckets' = TableEvictAndInsert(buckets, task[h].lrs, task[h].node, clock)
    /\ task' = [task EXCEPT ![h] = Idle]
    /\ UNCHANGED clock

\* A lookup, a bootstrap or a provider search inserts a peer that answered, or
\* that an answer mentions.  The result is ignored: no ping on BucketFull.
Learn(p, addrs) ==
    /\ buckets' = TableInsert(buckets, NewNodeInfo(p, addrs, clock), clock)
    /\ UNCHANGED <<task, clock>>

\* An RPC to p failed.
PeerFailed(p) ==
    /\ buckets' = TableRecordFailure(buckets, p)
    /\ UNCHANGED <<task, clock>>

\* A bootstrap ping to address a failed.
AddrFailed(a) ==
    /\ buckets' = TableRecordFailureByAddr(buckets, a)
    /\ UNCHANGED <<task, clock>>

Tick ==
    /\ clock < MaxClock
    /\ clock' = clock + 1
    /\ UNCHANGED <<buckets, task>>

Next ==
    \/ \E h \in Handler :
        \/ \E p \in Peer : Inbound(h, p)
        \/ ResolveLrs(h)
        \/ PingAnswered(h)
        \/ PingFailed(h)
    \/ \E p \in Peer : \E addrs \in Mention[p] : Learn(p, addrs)
    \/ \E p \in Peer : PeerFailed(p)
    \/ \E a \in Addr : AddrFailed(a)
    \/ Tick

Spec == Init /\ [][Next]_vars
-----------------------------------------------------------------------------
(* Properties *)

\* Type invariant: buckets of peer entries, and handlers that are idle or hold
\* a newcomer's entry together with the peer it may replace.
TypeOK ==
    /\ buckets \in [BucketIdx -> Bucket]
    /\ task \in [Handler -> {Idle} \cup [phase : {"resolve", "ping"},
                                         node : NodeInfo, lrs : NodeId]]
    /\ clock \in 0..MaxClock

\* A bucket never holds more than K peers and its replacement cache never more
\* than K candidates, although evict_and_insert pushes without looking at the
\* length and runs long after insert found the bucket full.
BucketsBounded == \A i \in BucketIdx : BucketSizeOK(buckets[i])

\* Candidates wait in the replacement cache only while the bucket is full:
\* every path that frees a slot (remove, record_failure) promotes one at once,
\* so no candidate is forgotten beside a free slot.
CandidatesWaitOnlyForRoom == \A i \in BucketIdx : BucketCacheWaits(buckets[i])

\* No peer is both in a bucket and among its candidates, and no candidate is
\* listed twice: a promotion (remove) never puts in a peer that is there
\* already.
CacheDisjoint == \A i \in BucketIdx : BucketCacheDisjoint(buckets[i])

\* A peer that has failed MaxFailures times is gone, and a promoted candidate
\* starts with a clean record (record_failure, add_to_cache).
FailuresBelowLimit == \A i \in BucketIdx : BucketFailCounts(buckets[i])

\* Every peer is filed in the bucket of its own prefix length, never this node
\* itself.  evict_and_insert files the newcomer under the evicted peer's
\* index, so this rests on both being of one bucket when the handler resumes.
FiledByPrefix ==
    \A i \in BucketIdx : \A id \in IdsOf(buckets[i].nodes)
                                    \cup IdsOf(buckets[i].cache) :
        id # Self /\ BucketIndex(id) = i

\* What is true of a handler that is to question a peer: the peer and the
\* newcomer differ and belong to one bucket.
PendingEvictionOK ==
    \A h \in Handler : task[h] # Idle =>
        /\ task[h].node.node_id # Self
        /\ task[h].node.node_id # task[h].lrs
        /\ task[h].node.fail_count = 0
        /\ BucketIndex(task[h].node.node_id) = BucketIndex(task[h].lrs)

\* A slot that falls free is handed on at once: while candidates wait, no step
\* of any task (an eviction, a third failed RPC, a failed bootstrap address)
\* leaves the bucket shorter than it was.
NoSlotLost == [][\A i \in BucketIdx : SlotKept(buckets[i], buckets'[i])]_vars

\* insert is documented to update a peer that is already present ("If the node
\* is already present, update it"), so a peer occupies one slot of its bucket.
NoDuplicatePeers == \A i \in BucketIdx : Distinct(buckets[i].nodes)

\* The documentation of KBucket: "ordered by last_seen (oldest first)".
OrderedByLastSeen ==
    \A i \in BucketIdx : \A m, n \in 1..Len(buckets[i].nodes) :
        m < n => buckets[i].nodes[m].last_seen <= buckets[i].nodes[n].last_seen

-----------------------------------------------------------------------------
(* Properties of closest_nodes, in every table the node can reach *)

AllEntries == EntriesOf(buckets, BucketIdx)
NearestOfAll(target, count) == Nearest(AllEntries, target, count)
Counts == 1..(K + 1)

\* "Find the k closest nodes to a target ID": closest_nodes returns what a scan
\* of the whole table would.
ClosestIsExact ==
    \A target \in NodeId :
        ClosestNodes(buckets, target, K) = NearestOfAll(target, K)

\* Self-lookups are exact: seen from this node itself the buckets are sorted by
\* distance, so the walk down from the last one misses nobody.  Relaying and
\* connection reversal choose their candidates this way.
ClosestToSelfIsExact ==
    \A count \in Counts :
        ClosestNodes(buckets, Self, count) = NearestOfAll(Self, count)

\* The walk is exact as long as the target's own bucket holds enough peers.
\* With a count of one, a peer of the table is found by its identifier: the
\* relay handler and the question to the least recently seen peer need that.
ClosestInOwnBucketIsExact ==
    \A target \in NodeId, count \in Counts :
        Len(buckets[BucketIndex(target)].nodes) >= count =>
            ClosestNodes(buckets, target, count) = NearestOfAll(target, count)

\* The early stop never returns too few: closest_nodes yields count peers
\* whenever the table has as many.
ClosestReturnsEnough ==
    \A target \in NodeId, count \in Counts :
        Len(ClosestNodes(buckets, target, count))
            = Min({count, Len(AllEntries)})

\* A refresh of a stale bucket looks up an identifier of that bucket, any of
\* them, and never this node's own (random_id_for_bucket, do_bucket_refresh).
RefreshTargetsStaleBucket ==
    \A i \in StaleBuckets(buckets, 0, clock) :
        RandomIdsForBucket(i) = {id \in NodeId \ {Self} : BucketIndex(id) = i}
=============================================================================
